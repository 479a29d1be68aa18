\* Two windows of one browser, two users.
CONSTANTS
    w1 = w1
    w2 = w2
    alice = alice
    bob = bob
    None = None
    Window <- MCWindow
    User <- MCUser
    MaxSent = 3
    MaxOdd = 2
SPECIFICATION FairSpec
INVARIANTS
    TypeOK
    ShowsItsUser
    NobodyIsLeftLoggedIn
PROPERTIES
    OnlyHomeIsOpen
    LoginComesBack
CHECK_DEADLOCK FALSE
