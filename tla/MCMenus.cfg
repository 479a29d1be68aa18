\* Two shipped menus, three more from two servers, two roles.
CONSTANTS
    n1 = n1
    n2 = n2
    a1 = a1
    a2 = a2
    r1 = r1
    r2 = r2
    Root = 0
    Node <- MCNode
    Shipped <- MCShipped
    Block <- MCBlock
    Cdxh <- MCCdxh
    Admin <- MCAdmin
    Role <- MCRole
    MaxOps = 4
    MaxIds = 2
SPECIFICATION Spec
SYMMETRY Symmetry
INVARIANTS
    TypeOK
    EveryMenuHangs
    MenuPageIsRight
    MyMenusAreRight
    GrantedAsAsked
CHECK_DEADLOCK FALSE
