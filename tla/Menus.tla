-------------------------------- MODULE Menus --------------------------------
(***************************************************************************)
(* Menus (RS_MENU) and the menus of roles (RS_ROLE_MENU): administrators   *)
(* change them from pages that may be older than the tables, and both the  *)
(* menu page and the menus of a user are made into trees from the rows.    *)
(*                                                                         *)
(* A menu is its number, which the key generator of the server that        *)
(* inserts it gives: every server hands out numbers from blocks of its     *)
(* own. All changes but menuSave are one transaction; what an insertion    *)
(* or a move that overlaps a deletion leaves, it also leaves after the     *)
(* deletion.                                                               *)
(***************************************************************************)
EXTENDS Tree

CONSTANTS
    Node,       \* servers
    Shipped,    \* the menus of the schema: PCDBH and CDXH of a CDBH
    Block,      \* the numbers a server hands out
    Cdxh,       \* sort numbers
    Admin,      \* threads that save the menus of a role
    Role,       \* roles
    MaxOps,     \* bound: changes of menus and saves
    MaxIds      \* bound: menus a save asks for

Cdbh == DOMAIN Shipped \cup UNION {Block[n] : n \in Node}

ASSUME BlockAssumption ==
    /\ DOMAIN Shipped \subseteq Nat \ {0}
    /\ \A n \in Node : Block[n] \subseteq Nat \ ({0} \cup DOMAIN Shipped)
    /\ \A m, n \in Node : m # n => Block[m] \cap Block[n] = {}
ASSUME NumberAssumption == Root = 0 /\ Cdxh \subseteq Nat
ASSUME ShippedAssumption ==
    /\ IsFiniteSet(DOMAIN Shipped)
    /\ Shipped \in [DOMAIN Shipped -> [pcdbh : DOMAIN Shipped \cup {0}, cdxh : Cdxh]]
    /\ \A c \in DOMAIN Shipped : Shipped[c].pcdbh < c
ASSUME RoleAssumption == "none" \notin Role
ASSUME BoundAssumption == MaxOps \in Nat /\ MaxIds \in Nat

VARIABLES
    menus,      \* RS_MENU: PCDBH and CDXH of a CDBH
    used,       \* numbers handed out
    granted,    \* RS_ROLE_MENU: the CDBHs of a JSBH
    save,       \* the menuSave of a thread that is between its two transactions
    ops,        \* changes of menus and saves so far
    astray,     \* history: a menu was put under a missing one or under itself
    asked,      \* history: what the last save of a role was to store
    disturbed   \* history: roles with a save that overlapped another or stopped

vars == <<menus, used, granted, save, ops, astray, asked, disturbed>>

-----------------------------------------------------------------------------
Menu == [pcdbh : Cdbh \cup {Root}, cdxh : Cdxh]
Save == [jsbh : Role, ids : SUBSET used]
Idle == [jsbh |-> "none", ids |-> {}]

TypeOK ==
    /\ used \subseteq Cdbh /\ DOMAIN menus \subseteq used
    /\ menus \in [DOMAIN menus -> Menu]
    /\ granted \in [Role -> SUBSET used]
    /\ save \in [Admin -> Save \cup {Idle}]
    /\ ops \in 0..MaxOps
    /\ astray \in BOOLEAN
    /\ asked \in [Role -> SUBSET used]
    /\ disturbed \subseteq Role

Init ==
    /\ menus = Shipped /\ used = DOMAIN Shipped
    /\ granted = [r \in Role |-> {}]
    /\ save = [a \in Admin |-> Idle]
    /\ ops = 0
    /\ astray = FALSE
    /\ asked = [r \in Role |-> {}] /\ disturbed = {}

Pcdbh == [c \in DOMAIN menus |-> menus[c].pcdbh]

Another == ops < MaxOps /\ ops' = ops + 1
SameRoles == UNCHANGED <<granted, save, asked, disturbed>>

-----------------------------------------------------------------------------
(* RsMenuServiceImpl.  The page sends the parent it shows, Root as "root". *)

\* mutant: the number after the next one
MutNextKey(n) == (CHOOSE c \in Block[n] \ used : TRUE) + 1
\* genMenuBh
NextKey(n) == CHOOSE c \in Block[n] \ used : \A d \in Block[n] \ used : c <= d

Put(c, p, x) ==
    /\ menus' = [d \in DOMAIN menus \cup {c} |->
                   IF d = c THEN [pcdbh |-> p, cdxh |-> x] ELSE menus[d]]
    /\ astray' = \/ astray
                  \/ p \notin DOMAIN menus \cup {Root}
                  \/ c \in Line(Pcdbh, p)

InsertBean(n, p, x) ==
    /\ Block[n] \ used # {}
    /\ Put(NextKey(n), p, x)
    /\ used' = used \cup {NextKey(n)}
    /\ Another /\ SameRoles

\* For "root" updateBean sets the parent of bean, not of oldBean.
SentParent(c, p) == IF p = Root THEN menus[c].pcdbh ELSE p

UpdateBean(c, p, x) ==
    /\ c \in DOMAIN menus
    /\ Put(c, SentParent(c, p), x)
    /\ UNCHANGED used
    /\ Another /\ SameRoles

\* mutant: the children, not what is below them
MutDeleted(c) == {d \in DOMAIN menus : d = c \/ menus[d].pcdbh = c}
\* internalDeleteMenu, which never ends below a menu that is below itself; then
\* the transaction is rolled back.
Deleted(c) ==
    LET below == Below(Pcdbh, c)
    IN  IF c \in DOMAIN menus /\ menus[c].pcdbh \in below THEN {} ELSE below

DeleteBean(c) ==
    /\ menus' = [d \in DOMAIN menus \ Deleted(c) |-> menus[d]]
    /\ UNCHANGED <<used, astray>>
    /\ Another /\ SameRoles

\* internalDeleteMenu("root")
DeleteAll ==
    /\ menus' = <<>>
    /\ UNCHANGED <<used, astray>>
    /\ Another /\ SameRoles

-----------------------------------------------------------------------------
(* AuthCtrler.menuSave: deleteRoleMenu and updateRoleMenus are transactions *)
(* of their own.                                                            *)

Saving(r) == \E a \in Admin : save[a].jsbh = r

\* mutant: the menus the role had are kept
MutKept(r) == granted[r]
Kept(r) == {}

DeleteRoleMenu(a, r, ids) ==
    /\ save[a] = Idle /\ Cardinality(ids) <= MaxIds
    /\ Another
    /\ granted' = [granted EXCEPT ![r] = Kept(r)]
    /\ save' = [save EXCEPT ![a] = [jsbh |-> r, ids |-> ids]]
    /\ asked' = [asked EXCEPT ![r] = ids]
    /\ disturbed' = IF Saving(r) THEN disturbed \cup {r} ELSE disturbed \ {r}
    /\ UNCHANGED <<menus, used, astray>>

\* A duplicate key undoes the whole transaction.
Stored(r, ids) == IF granted[r] \cap ids = {} THEN granted[r] \cup ids ELSE granted[r]

UpdateRoleMenus(a) ==
    /\ save[a] # Idle
    /\ LET s == save[a] IN granted' = [granted EXCEPT ![s.jsbh] = Stored(s.jsbh, s.ids)]
    /\ save' = [save EXCEPT ![a] = Idle]
    /\ UNCHANGED <<menus, used, ops, astray, asked, disturbed>>

\* The second transaction fails, or the server stops before it.
SaveFails(a) ==
    /\ save[a] # Idle
    /\ disturbed' = disturbed \cup {save[a].jsbh}
    /\ save' = [save EXCEPT ![a] = Idle]
    /\ UNCHANGED <<menus, used, granted, ops, astray, asked>>

\* RsRoleServiceImpl.deleteBean, as far as menus go; a page may still show the role.
DeleteRole(r) ==
    /\ Another
    /\ granted' = [granted EXCEPT ![r] = {}]
    /\ asked' = [asked EXCEPT ![r] = {}]
    /\ disturbed' = IF Saving(r) THEN disturbed \cup {r} ELSE disturbed \ {r}
    /\ UNCHANGED <<menus, used, save, astray>>

Next ==
    \/ \E p \in used \cup {Root}, x \in Cdxh :
        \/ \E n \in Node : InsertBean(n, p, x)
        \/ \E c \in used : UpdateBean(c, p, x)
    \/ \E c \in used : DeleteBean(c)
    \/ DeleteAll
    \/ \E a \in Admin : \/ \E r \in Role, ids \in SUBSET used : DeleteRoleMenu(a, r, ids)
                        \/ UpdateRoleMenus(a) \/ SaveFails(a)
    \/ \E r \in Role : DeleteRole(r)

Spec == Init /\ [][Next]_vars

-----------------------------------------------------------------------------
(* The trees *)

\* mutant: ORDER BY CDXH
MutEarlier(c, d) == menus[c].cdxh < menus[d].cdxh
\* ORDER BY PCDBH,CDXH
Earlier(c, d) ==
    \/ menus[c].pcdbh < menus[d].pcdbh
    \/ menus[c].pcdbh = menus[d].pcdbh /\ menus[c].cdxh < menus[d].cdxh

\* A row is a menu, with the role it comes from.
LastRow(rows) == CHOOSE x \in rows : \A y \in rows : ~Earlier(x[2], y[2])

TreeOf(rows) == Construct(Pcdbh, rows, LastRow, LAMBDA row : row[2])

\* queryAllMenus
AllMenus == TreeOf({"all"} \X DOMAIN menus)

\* queryMenusByJsbh: one row for each role that has the menu
MenusByJsbh(R) == {row \in R \X DOMAIN menus : row[2] \in granted[row[1]]}
Mine(R) == {row[2] : row \in MenusByJsbh(R)}

-----------------------------------------------------------------------------
(* Properties *)

\* Every menu hangs in the tree (otherwise no menu at all is shown), as long as
\* none is put under a deleted menu or under itself: deletions leave no menu
\* behind without its parent.
EveryMenuHangs == ~astray => \A c \in DOMAIN menus : Climbs(Pcdbh, c)

\* No row comes before the row of a menu above it, except of a top menu.
Ascending(S) ==
    \A d \in S : \A p \in S \cap Above(Pcdbh, d) : menus[p].pcdbh # Root => Earlier(p, d)

\* queryAllMenus shows every menu once, in its place and in order, exactly if
\* the numbers go up along the branches.  They do not after a move, or when the
\* menus above came from servers with other blocks of numbers.
MenuPageIsRight ==
    (\A c \in DOMAIN menus : Climbs(Pcdbh, c)) =>
        LET tree == AllMenus
        IN  (/\ ShowsOnce(tree, Pcdbh, DOMAIN menus)
             /\ Sorted(tree, LAMBDA c, d : menus[c].cdxh < menus[d].cdxh))
            <=> Ascending(DOMAIN menus)

\* queryMenuTreeByJsbh shows the menus of a user once and in their places,
\* exactly if the numbers go up and no menu below the top comes from two roles.
MyMenusAreRight ==
    \A R \in SUBSET Role : (\A c \in Mine(R) : Climbs(Pcdbh, c)) =>
        ShowsOnce(TreeOf(MenusByJsbh(R)), Pcdbh, Mine(R))
        <=> /\ Ascending(Mine(R))
            /\ \A x, y \in MenusByJsbh(R) : x[2] = y[2] /\ menus[x[2]].pcdbh # Root => x = y

\* Between saves a role has the menus the last save was to store (none after its
\* deletion), unless that save overlapped another one, or the deletion, of the
\* role, or stopped half way.
GrantedAsAsked ==
    \A r \in Role : r \notin disturbed /\ ~Saving(r) => granted[r] = asked[r]
=============================================================================
