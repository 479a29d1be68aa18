------------------------------ MODULE MCMenus ------------------------------
EXTENDS Menus, TLC

CONSTANTS n1, n2, a1, a2, r1, r2

MCNode == {n1, n2}
MCShipped == <<[pcdbh |-> 0, cdxh |-> 0], [pcdbh |-> 1, cdxh |-> 0]>>
MCBlock == n1 :> {3} @@ n2 :> {4, 5}
MCCdxh == {0, 1}
MCAdmin == {a1, a2}
MCRole == {r1, r2}
Symmetry == Permutations(MCAdmin) \cup Permutations(MCRole)
=============================================================================
