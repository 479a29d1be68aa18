------------------------------ MODULE IdSource ------------------------------
(***************************************************************************)
(* What the callers of RsKeyGenerator can rely on: the key they are given  *)
(* is one nobody was given before, except that the numbers of some names   *)
(* start again on another day.  The number of answers is kept beside the   *)
(* set of keys, so that giving one key twice is not a stuttering step.     *)
(***************************************************************************)
EXTENDS Naturals

CONSTANT Daily          \* the names whose numbers start again every day

VARIABLES used,         \* the keys given out so far, each with the day it counts for
          answers       \* how many times a key was given out

IdInit == used = {} /\ answers = 0

Give(u) ==
    /\ \A v \in used : v.key = u.key => u.key.name \in Daily /\ v.day # u.day
    /\ used' = used \cup {u}
    /\ answers' = answers + 1

\* The key may be anything: which ones there are is the generator's business.
IdNext == \E u \in used' : Give(u)

IdSpec == IdInit /\ [][IdNext]_<<used, answers>>
=============================================================================
