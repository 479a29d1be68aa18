\* Two logins and one other request at a time, four requests in all.
CONSTANTS
    s1 = s1
    s2 = s2
    s3 = s3
    u1 = u1
    u2 = u2
    l1 = l1
    l2 = l2
    v1 = v1
    None = None
    Null = Null
    Pk <- MCPk
    User <- MCUser
    Login <- MCLogin
    Visit <- MCVisit
    Policy <- MCPolicy
    MaxClock = 4
    MaxId = 3
    MaxChange = 1
SPECIFICATION Spec
SYMMETRY Symmetry
INVARIANTS
    TypeOK
PROPERTIES
    UserLimitUnlessDisturbed
    SystemLimitUnlessCrowded
    KicksOnlyItsOwnUser
    OwnSessionIsKept
CHECK_DEADLOCK FALSE
