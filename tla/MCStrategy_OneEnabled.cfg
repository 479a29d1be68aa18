\* Two activations at a time.
CONSTANTS
    n1 = n1
    n2 = n2
    a1 = a1
    a2 = a2
    level1 = level1
    level2 = level2
    v1 = v1
    v2 = v2
    Null = Null
    Absent = Absent
    Node <- MCNode
    Admin <- MCAdmin
    NodeOf <- SameNode
    Clbh <- MCClbh
    Tmz <- MCTmz
    FirstEnabled <- AsShipped
    FirstTmz <- MCTmzOfClbh
    MaxTx = 4
    MaxFail = 1
SPECIFICATION Spec
INVARIANT OneStrategyEnabled
CHECK_DEADLOCK FALSE
