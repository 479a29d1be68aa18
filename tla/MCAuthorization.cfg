\* Two nodes and two administrators, three starts and two changes.
CONSTANTS
    n1 = n1
    n2 = n2
    a1 = a1
    a2 = a2
    dept = dept
    dict = dict
    r1 = r1
    sysadmin = sysadmin
    Node <- MCNode
    Admin <- MCAdmin
    Url <- MCUrl
    Controllers <- MCControllers
    Role <- MCRole
    Sysadmin = sysadmin
    Version = {"old", "new"}
    Handlers <- MCHandlers
    NoEntry = NoEntry
    NoVersion = "none"
    MaxStart = 3
    MaxTx = 2
SPECIFICATION Spec
SYMMETRY Symmetry
INVARIANTS
    TypeOK
    GrantsSurvive
    MapCoversOwnUrls
    MapIsOfItsStart
CHECK_DEADLOCK FALSE
