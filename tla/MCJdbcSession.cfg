\* One session, two requests at a time, and updates of either attribute.
CONSTANTS
    p1 = p1
    r1 = r1
    r2 = r2
    ctx = ctx
    saved = saved
    u1 = u1
    u2 = u2
    None = None
    Pk <- MCPk
    Request <- MCRequest
    Attr <- MCAttr
    Ctx = ctx
    Value <- MCValue
    Interval <- MCInterval
    MaxTime = 2
    MaxSave = 3
    MaxChange = 3
    MaxId = 2
SPECIFICATION Spec
SYMMETRY Symmetry
INVARIANTS
    TypeOK
    StoredIsTheLastCopy
    TimedOutWereIdle
PROPERTIES
    DeletedStaysDeleted
    OldIdStaysUseless
CHECK_DEADLOCK FALSE
