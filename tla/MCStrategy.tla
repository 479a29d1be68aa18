----------------------------- MODULE MCStrategy -----------------------------
EXTENDS Strategy, TLC

CONSTANTS n1, n2, a1, a2, level1, level2, v1, v2

MCNode == {n1, n2}
MCAdmin == {a1, a2}
SameNode == [a \in MCAdmin |-> n1]
MCClbh == {level1, level2}
MCTmz == {v1, v2}
MCTmzOfClbh == level1 :> v1 @@ level2 :> v2
AsShipped == {{level1}}
AsShippedOrBoth == {{level1}, {level1, level2}}
=============================================================================
