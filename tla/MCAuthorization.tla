--------------------------- MODULE MCAuthorization ---------------------------
(* Two versions: one controller belongs to the second only, a method to both. *)
EXTENDS Authorization, TLC

CONSTANTS n1, n2, a1, a2, dept, dict, r1, sysadmin

MCNode == {n1, n2}
MCAdmin == {a1, a2}
MCUrl == {dept, dict}
MCControllers == {dept}
MCRole == {r1, sysadmin}
MCHandlers == [old |-> {dict}, new |-> {dept, dict}]

Symmetry == Permutations(MCNode) \cup Permutations(MCAdmin)
=============================================================================
