-------------------------- MODULE MCSessionControl --------------------------
(* Three strategies: one session per user, the oldest being kicked; two for   *)
(* a user and two in all, the third refused; and no strategy enabled at all.  *)
EXTENDS SessionControl, TLC

CONSTANTS s1, s2, s3, u1, u2, l1, l2, v1

MCPk == {s1, s2, s3}
MCUser == {u1, u2}
MCLogin == {l1, l2}
MCVisit == {v1}
MCPolicy == {[control |-> TRUE, max |-> 0, user |-> 1, kick |-> TRUE],
             [control |-> TRUE, max |-> 2, user |-> 2, kick |-> FALSE],
             [control |-> FALSE, max |-> Null, user |-> Null, kick |-> FALSE]}

Symmetry == Permutations(MCPk) \cup Permutations(MCUser) \cup Permutations(MCLogin)
=============================================================================
