\* Two administrators, two connections, two login names.
CONSTANTS
    Admin = {a1, a2}
    Dlmc = {n1, n2}
    Shipped = n1
    Nothing = Nothing
    Root = 0
    Pool = 2
    MaxTx = 3
SPECIFICATION FairSpec
INVARIANTS TypeOK LogsInTheFirst EveryDeptHangs DeptTreesAreRight LinksGoToo
PROPERTY EveryMethodEnds
CHECK_DEADLOCK FALSE
