\* Two administrators on one of two nodes, two strategies.
SPECIFICATION FairSpec
CONSTANTS
    n1 = n1
    n2 = n2
    a1 = a1
    a2 = a2
    level1 = level1
    level2 = level2
    v1 = v1
    v2 = v2
    Node <- MCNode
    Admin <- MCAdmin
    NodeOf <- SameNode
    Clbh <- MCClbh
    Tmz <- MCTmz
    FirstEnabled <- AsShippedOrBoth
    FirstTmz <- MCTmzOfClbh
    Null = Null
    Absent = Absent
    MaxTx = 3
    MaxFail = 1
INVARIANTS
    TypeOK
    CacheIsCurrent
    OneEnabledUnlessOverlapped
PROPERTY EveryChangeEnds
CHECK_DEADLOCK FALSE
