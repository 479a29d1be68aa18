--------------------------- MODULE MCKeyGenerator ---------------------------
(* Two servers, the first with two request threads, and one of three key      *)
(* names: one read with getZipKey, one with getDateKey, one with getIndexKey. *)
(* A block of two numbers is shared by the threads of a server and exhausted  *)
(* by a third request, so that every server reloads again, on the same day    *)
(* and on the next; a block of index numbers (three) lasts into the next day. *)
EXTENDS KeyGenerator, TLC

CONSTANTS n1, n2, t1, t2, t3

MCNodeOf == (t1 :> n1) @@ (t2 :> n1) @@ (t3 :> n2)
MCKind == [zip |-> "plain", bh |-> "date", idx |-> "index"]
MCStep == [zip |-> 2, bh |-> 2, idx |-> 3]
Symmetry == Permutations({t1, t2})
=============================================================================
