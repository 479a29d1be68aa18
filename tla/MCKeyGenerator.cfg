SPECIFICATION Spec
CONSTANTS
    n1 = n1
    n2 = n2
    t1 = t1
    t2 = t2
    t3 = t3
    Node = {n1, n2}
    Thread = {t1, t2, t3}
    NodeOf <- MCNodeOf
    Name = {"zip", "bh", "idx"}
    Kind <- MCKind
    Step <- MCStep
    Fault = {"connect", "probe", "insert", "select", "update", "commit"}
    MaxFault = 1
    MaxName = 1
    MaxDay = 2
    MaxSeq = 4
    MaxCrash = 1
SYMMETRY Symmetry
INVARIANTS
    TypeOK
    BlocksDisjoint
    UnbackedNeedsASwallowedFailure
PROPERTIES
    HighWaterNeverFalls
    ImplementsIdSource
CHECK_DEADLOCK FALSE
