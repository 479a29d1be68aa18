------------------------------ MODULE Accounts ------------------------------
(***************************************************************************)
(* Users, what they log in with, and departments: RsUserServiceImpl and    *)
(* RsDeptServiceImpl. Administrators work in parallel; their transactions  *)
(* are READ COMMITTED, unique keys and changed rows make others wait, and  *)
(* a key is fetched on a second connection of the pool while the           *)
(* transaction that needs it holds the first.                              *)
(*                                                                         *)
(* Users and departments are their numbers (KeyGenerator keeps them        *)
(* apart). Left out: RS_USER_PASSWORD, which gets its row with the user    *)
(* and keeps it, so that a login always finds it, and columns nothing      *)
(* here reads.                                                             *)
(***************************************************************************)
EXTENDS Tree, SequencesExt

CONSTANTS
    Admin,      \* threads that change users and departments
    Dlmc,       \* login names
    Shipped,    \* the login name of the user the schema ships, number 1
    Nothing,    \* loadUserByUsername finds no user
    Pool,       \* maxActive: connections of the pool
    MaxTx       \* bound: transactions

ASSUME NameAssumption == Shipped \in Dlmc /\ Nothing \notin Nat
ASSUME NumberAssumption == Root = 0
ASSUME BoundAssumption == Pool \in Nat \ {0} /\ MaxTx \in Nat

VARIABLES
    users,      \* RS_USER: DLMC and BMBH of a YHBH
    auth,       \* RS_USER_AUTH with SQLY = 0: the YHBH of a DLMC
    depts,      \* RS_DEPT: BMPBH, BMCJ and BMLJ of a BMBH
    links,      \* RS_ROLE_USER of one role (number 0) and RS_DEPT_USER
    tx,         \* the transaction of a thread
    keys,       \* the last numbers of users and departments
    txs,        \* transactions so far
    first,      \* history: the first user inserted with a DLMC
    late,       \* history: links added when their user or department was going
    overlapped  \* history: a department was put under one that was going

vars == <<users, auth, depts, links, tx, keys, txs, first, late, overlapped>>

-----------------------------------------------------------------------------
Yhbh == 1..(MaxTx + 1)
Bmbh == 1..(MaxTx + 2)
Link == [of : Bmbh \cup {0}, yhbh : Yhbh]
Dept == [bmpbh : Bmbh \cup {Root}, bmcj : 0..(MaxTx + 1), bmlj : Seq(Bmbh)]
User == [dlmc : Dlmc, bmbh : Bmbh]

Op == {"insertUser", "updateUser", "deleteUser", "insertDept", "deleteDept"}
Pc == {"idle", "yhbh", "check", "sqbh", "auth", "write", "bmbh", "parent",
       "visit", "commit"}
Tx == [op : Op, pc : Pc, reload : BOOLEAN, yhbh : Yhbh \cup {0}, user : User,
       sqbh : BOOLEAN, bmbh : Bmbh \cup {0}, dept : Dept, todo : Seq(Bmbh),
       seen : SUBSET Bmbh, gone : SUBSET Bmbh, cut : SUBSET Link]
\* reload: the block of the key is used up.  sqbh: the auth row was inserted.
\* todo: departments to delete, the next first; seen: their children are among
\* them; gone: deleted.  cut: links deleted.
Idle == [op |-> "insertUser", pc |-> "idle", reload |-> FALSE, yhbh |-> 0,
         user |-> [dlmc |-> Shipped, bmbh |-> 1], sqbh |-> FALSE, bmbh |-> 0,
         dept |-> [bmpbh |-> Root, bmcj |-> 0, bmlj |-> <<>>], todo |-> <<>>,
         seen |-> {}, gone |-> {}, cut |-> {}]

TypeOK ==
    /\ DOMAIN users \subseteq Yhbh /\ users \in [DOMAIN users -> User]
    /\ DOMAIN auth \subseteq Dlmc /\ auth \in [DOMAIN auth -> Yhbh]
    /\ DOMAIN depts \subseteq Bmbh /\ depts \in [DOMAIN depts -> Dept]
    /\ links \subseteq Link
    /\ tx \in [Admin -> Tx]
    /\ keys \in [user : Yhbh, dept : Bmbh] /\ txs \in 0..MaxTx
    /\ DOMAIN first \subseteq Dlmc /\ first \in [DOMAIN first -> Yhbh]
    /\ late \subseteq Link
    /\ overlapped \in BOOLEAN

Init ==
    /\ users = <<[dlmc |-> Shipped, bmbh |-> 1]>>
    /\ auth = [n \in {Shipped} |-> 1]
    /\ depts = <<[bmpbh |-> Root, bmcj |-> 0, bmlj |-> <<1>>],
                 [bmpbh |-> 1, bmcj |-> 1, bmlj |-> <<1, 2>>]>>
    /\ links = {}
    /\ tx = [a \in Admin |-> Idle]
    /\ keys = [user |-> 1, dept |-> 2] /\ txs = 0
    /\ first = [n \in {Shipped} |-> 1] /\ late = {} /\ overlapped = FALSE

With(f, x, v) == [y \in DOMAIN f \cup {x} |-> IF y = x THEN v ELSE f[y]]
Without(f, S) == [x \in DOMAIN f \ S |-> f[x]]

Busy == Cardinality({a \in Admin : tx[a].pc # "idle"})
\* Transactions that hold rows they changed.
Others(a) == {b \in Admin \ {a} : tx[b].pc = "commit"}
HeldUsers(a) == {tx[b].yhbh : b \in Others(a)}
HeldNames(a) ==
    {users[u].dlmc : u \in HeldUsers(a) \cap DOMAIN users} \cup
    {tx[b].user.dlmc : b \in {c \in Others(a) : tx[c].op \in {"insertUser", "updateUser"}}}
Taken(n) == \E u \in DOMAIN users : users[u].dlmc = n

Tables == <<users, auth, depts, links, first, late, overlapped>>
Goto(a, t) == tx' = [tx EXCEPT ![a] = t] /\ UNCHANGED <<txs, Tables>>
Ends(a) == Goto(a, Idle) /\ UNCHANGED keys

-----------------------------------------------------------------------------
(* A method begins with a connection of its own. *)

\* What a page may name: numbers that were handed out, though what had them may
\* be gone, but not those of inserts that are under way.
ShownUsers == 1..keys.user \ {tx[a].yhbh : a \in {b \in Admin : tx[b].op = "insertUser"}}
ShownDepts == 1..keys.dept \ {tx[a].bmbh : a \in Admin}

Another == txs < MaxTx /\ txs' = txs + 1

Begin(a, t) ==
    /\ tx[a].pc = "idle" /\ Busy < Pool
    /\ tx' = [tx EXCEPT ![a] = t]
    /\ Another
    /\ UNCHANGED <<keys, Tables>>

\* What the pages send may be out of date.
InsertUser(a, n, d) ==
    Begin(a, [Idle EXCEPT !.op = "insertUser", !.pc = "yhbh", !.user = [dlmc |-> n, bmbh |-> d]])
\* updateBean reads the row and stops if there is none.
UpdateUser(a, u, n, d) ==
    /\ u \in DOMAIN users
    /\ Begin(a, [Idle EXCEPT !.op = "updateUser", !.pc = "write", !.yhbh = u,
                             !.user = [dlmc |-> n, bmbh |-> d]])
DeleteUser(a, u) ==
    Begin(a, [Idle EXCEPT !.op = "deleteUser", !.pc = "write", !.yhbh = u])
InsertDept(a, p) ==
    Begin(a, [Idle EXCEPT !.op = "insertDept", !.pc = "bmbh", !.dept.bmpbh = p])
DeleteDept(a, d) ==
    Begin(a, [Idle EXCEPT !.op = "deleteDept", !.pc = "visit", !.todo = <<d>>])

-----------------------------------------------------------------------------
(* Keys *)

\* getZipKey is synchronized on the key; it takes the next number of its block,
\* or has to reload the block first.
InsideKey(a) == \E b \in Admin \ {a} : tx[b].pc = tx[a].pc /\ tx[b].reload

\* mutant: every other number is lost
MutFresh(n) == n + 2
Fresh(n) == n + 1

GotKey(a) ==
    LET t == [tx[a] EXCEPT !.reload = FALSE] IN
    \/ /\ t.pc = "yhbh"
       /\ keys' = [keys EXCEPT !.user = Fresh(@)]
       /\ Goto(a, [t EXCEPT !.pc = "check", !.yhbh = Fresh(keys.user)])
    \/ /\ t.pc = "sqbh"
       /\ Goto(a, [t EXCEPT !.pc = "auth"]) /\ UNCHANGED keys
    \/ /\ t.pc = "bmbh"
       /\ keys' = [keys EXCEPT !.dept = Fresh(@)]
       /\ Goto(a, [t EXCEPT !.pc = "parent", !.bmbh = Fresh(keys.dept)])

NextKey(a) == ~tx[a].reload /\ ~InsideKey(a) /\ GotKey(a)

UsedUp(a) ==
    /\ tx[a].pc \in {"yhbh", "sqbh", "bmbh"} /\ ~tx[a].reload /\ ~InsideKey(a)
    /\ Goto(a, [tx[a] EXCEPT !.reload = TRUE]) /\ UNCHANGED keys

\* reLoadKeyObject needs a connection, if only for a while.
Reload(a) == tx[a].reload /\ Busy < Pool /\ GotKey(a)

\* mutant: no maxWait
MutWaited(a) == FALSE
\* After maxWait getConnection fails, and then the method, with a null pointer.
Waited(a) == tx[a].reload /\ Busy = Pool
GivesUp(a) == Waited(a) /\ Ends(a)

-----------------------------------------------------------------------------
(* Users *)

\* saveUserAuth of insertBean: if the name is there, nothing is stored.
Check(a) ==
    /\ tx[a].pc = "check"
    /\ Goto(a, [tx[a] EXCEPT !.pc = IF tx[a].user.dlmc \in DOMAIN auth THEN "write" ELSE "sqbh"])
    /\ UNCHANGED keys

\* mutant: no unique index, the second row counts
MutDuplicate(a) == FALSE
\* RS_USER_AUTH_UI_SQLY_DLMC
Duplicate(a) == tx[a].user.dlmc \in DOMAIN auth

InsertAuth(a) ==
    /\ tx[a].pc = "auth"
    /\ ~\E b \in Admin \ {a} : tx[b].sqbh /\ tx[b].user.dlmc = tx[a].user.dlmc
    /\ IF Duplicate(a) THEN Ends(a)
       ELSE Goto(a, [tx[a] EXCEPT !.pc = "write", !.sqbh = TRUE]) /\ UNCHANGED keys

Written(a, cut) ==
    Goto(a, [tx[a] EXCEPT !.pc = "commit", !.cut = cut]) /\ UNCHANGED keys

WriteInsert(a) ==
    /\ tx[a].pc = "write" /\ tx[a].op = "insertUser"
    /\ tx[a].user.dlmc \notin HeldNames(a)
    /\ IF Taken(tx[a].user.dlmc) THEN Ends(a) ELSE Written(a, {})

WriteUpdate(a) ==
    LET t == tx[a] IN
    /\ t.pc = "write" /\ t.op = "updateUser"
    /\ t.yhbh \notin HeldUsers(a)
    /\ t.user.dlmc \notin HeldNames(a)
    /\ IF \/ t.yhbh \notin DOMAIN users
          \/ users[t.yhbh].dlmc # t.user.dlmc /\ Taken(t.user.dlmc)
       THEN Ends(a) ELSE Written(a, {})

\* mutant: the links stay
MutLinksOf(u) == {}
LinksOf(u) == {l \in links : l.yhbh = u}

\* deleteBean: the links, and the auth row whose SQBH is the YHBH: there is none.
WriteDelete(a) ==
    /\ tx[a].pc = "write" /\ tx[a].op = "deleteUser"
    /\ tx[a].yhbh \notin HeldUsers(a)
    /\ Written(a, LinksOf(tx[a].yhbh))

CommitUser(a) ==
    LET t == tx[a] IN
    /\ t.pc = "commit" /\ t.op \in {"insertUser", "updateUser", "deleteUser"}
    /\ users' = IF t.op = "deleteUser" THEN Without(users, {t.yhbh})
                ELSE With(users, t.yhbh, t.user)
    /\ auth' = IF t.sqbh THEN With(auth, t.user.dlmc, t.yhbh) ELSE auth
    /\ links' = links \ t.cut
    /\ first' = IF t.op = "insertUser" /\ t.user.dlmc \notin DOMAIN first
                THEN With(first, t.user.dlmc, t.yhbh) ELSE first
    /\ tx' = [tx EXCEPT ![a] = Idle]
    /\ UNCHANGED <<depts, keys, txs, late, overlapped>>

-----------------------------------------------------------------------------
(* Departments *)

\* mutant: only the parent itself is in the path
MutPath(p, d) == <<p, d>>
Path(p, d) == Append(depts[p].bmlj, d)

\* insertBean: without the parent it fails with a null pointer; for ROOT_KEY it
\* looks for none, and the INSERT fails: the pages send neither BMCJ nor BMLJ,
\* which may not be null.
Parent(a) ==
    LET t == tx[a]
        p == t.dept.bmpbh
    IN
    /\ t.pc = "parent"
    /\ IF p \notin DOMAIN depts THEN Ends(a)
       ELSE /\ Goto(a, [t EXCEPT !.pc = "commit", !.dept.bmcj = depts[p].bmcj + 1,
                                 !.dept.bmlj = Path(p, t.bmbh)])
            /\ UNCHANGED keys

\* mutant: deleteBean without the recursion
MutChildren(d) == {}
Children(d) == {c \in DOMAIN depts : depts[c].bmpbh = d}

\* deleteBean: the children first, in the order the query happens to find them
\* (it has no ORDER BY), then the links and the department.
Visit(a) ==
    LET t == tx[a]
        d == Head(t.todo)
    IN
    /\ t.pc = "visit"
    /\ \/ /\ d \notin t.seen
          /\ \E found \in SetToSeqs(Children(d)) :
                Goto(a, [t EXCEPT !.seen = @ \cup {d}, !.todo = found \o @])
       \/ /\ d \in t.seen
          /\ Goto(a, [t EXCEPT !.gone = @ \cup {d}, !.todo = Tail(@),
                               !.cut = @ \cup {l \in links : l.of = d},
                               !.pc = IF Len(t.todo) = 1 THEN "commit" ELSE "visit"])
    /\ UNCHANGED keys

\* p was, or is about to be, deleted without a department that is being put under it.
Goes(p) == \E b \in Admin : tx[b].op = "deleteDept" /\ p \in tx[b].seen

CommitInsert(a) ==
    /\ tx[a].pc = "commit" /\ tx[a].op = "insertDept"
    /\ depts' = With(depts, tx[a].bmbh, tx[a].dept)
    /\ overlapped' = (overlapped \/ Goes(tx[a].dept.bmpbh))
    /\ tx' = [tx EXCEPT ![a] = Idle]
    /\ UNCHANGED <<users, auth, links, keys, txs, first, late>>

CommitDelete(a) ==
    /\ tx[a].pc = "commit" /\ tx[a].op = "deleteDept"
    /\ depts' = Without(depts, tx[a].gone)
    /\ links' = links \ tx[a].cut
    /\ overlapped' = (overlapped \/ \E b \in Others(a) :
                        tx[b].op = "insertDept" /\ tx[b].dept.bmpbh \in tx[a].gone)
    /\ tx' = [tx EXCEPT ![a] = Idle]
    /\ UNCHANGED <<users, auth, keys, txs, first, late>>

-----------------------------------------------------------------------------
(* Methods that are one step: nothing they read is used after it. *)

Held(l) == \E a \in Admin : l \in tx[a].cut
Alone == UNCHANGED <<auth, depts, tx, keys, first, overlapped>>

\* addRoles and addDeptUser check nothing.
AddLink(l) ==
    /\ l \notin links /\ ~Held(l) /\ Busy < Pool /\ Another
    /\ links' = links \cup {l}
    /\ late' = IF \/ l.yhbh \notin DOMAIN users \/ l.of \notin DOMAIN depts \cup {0}
                  \/ \E a \in Admin : \/ tx[a].pc = "commit" /\ tx[a].op = "deleteUser"
                                                            /\ tx[a].yhbh = l.yhbh
                                      \/ l.of \in tx[a].gone
               THEN late \cup {l} ELSE late
    /\ Alone /\ UNCHANGED users

\* delUserRoles, delRoleUsers, delDeptUser
DelLink(l) ==
    /\ l \in links /\ ~Held(l) /\ Busy < Pool /\ Another
    /\ links' = links \ {l} /\ late' = late \ {l}
    /\ Alone /\ UNCHANGED users

UpdateUsersBmbh(S, d) ==
    /\ Busy < Pool /\ Another
    /\ ~\E a \in Admin : tx[a].pc = "commit" /\ tx[a].yhbh \in S
    /\ users' = [u \in DOMAIN users |-> IF u \in S THEN [users[u] EXCEPT !.bmbh = d] ELSE users[u]]
    /\ Alone /\ UNCHANGED <<links, late>>

-----------------------------------------------------------------------------
\* Any statement may fail; the method ends and its transaction is rolled back.
Rollback(a) == tx[a].pc # "idle" /\ Ends(a)

Proceed(a) ==
    \/ NextKey(a) \/ UsedUp(a) \/ Reload(a) \/ GivesUp(a)
    \/ Check(a) \/ InsertAuth(a)
    \/ WriteInsert(a) \/ WriteUpdate(a) \/ WriteDelete(a) \/ CommitUser(a)
    \/ Parent(a) \/ CommitInsert(a)
    \/ Visit(a) \/ CommitDelete(a)

Next ==
    \/ \E a \in Admin :
        \/ \E n \in Dlmc, d \in ShownDepts :
            InsertUser(a, n, d) \/ \E u \in ShownUsers : UpdateUser(a, u, n, d)
        \/ \E u \in ShownUsers : DeleteUser(a, u)
        \/ \E d \in ShownDepts \cup {Root} : InsertDept(a, d)
        \/ \E d \in ShownDepts : DeleteDept(a, d)
        \/ Proceed(a) \/ Rollback(a)
    \/ \E u \in ShownUsers, d \in ShownDepts \cup {0} :
        AddLink([of |-> d, yhbh |-> u]) \/ DelLink([of |-> d, yhbh |-> u])
    \/ \E S \in SUBSET DOMAIN users, d \in ShownDepts : UpdateUsersBmbh(S, d)

Spec == Init /\ [][Next]_vars
\* The threads run, the database answers, and what waits for a row or a key is served.
FairSpec == Spec /\ \A a \in Admin : SF_vars(Proceed(a))

-----------------------------------------------------------------------------
(* What is read. *)

\* queryBeanHasDeptsByYhbh joins the department.
LogsInAs(n) ==
    IF /\ n \in DOMAIN auth /\ auth[n] \in DOMAIN users
       /\ users[auth[n]].bmbh \in DOMAIN depts
    THEN auth[n] ELSE Nothing

Bmpbh == [d \in DOMAIN depts |-> depts[d].bmpbh]

\* ORDER BY BMCJ, BMBH
Latest(D) == CHOOSE d \in D : \A c \in D :
    \/ depts[c].bmcj < depts[d].bmcj
    \/ depts[c].bmcj = depts[d].bmcj /\ c <= d

\* For a system administrator.
DeptTree == Construct(Bmpbh, DOMAIN depts, Latest, LAMBDA d : d)

\* isMatch: the department of the user itself is put under department 1.
Seen(d) == IF depts[d].bmpbh = Root THEN Bmpbh ELSE [Bmpbh EXCEPT ![d] = 1]
\* What DeptTools makes for a user of d: BMLJ LIKE the path of d finds the rows.
DeptTreeOf(d) ==
    Construct(Seen(d), {c \in DOMAIN depts : IsPrefix(depts[d].bmlj, depts[c].bmlj)},
              Latest, LAMBDA c : c)

\* The nodes in the "depts" of node i, in the "depts" of those, and so on.
Under(t, i) ==
    {j \in DOMAIN t.nodes : \A S \in SUBSET DOMAIN t.nodes :
        (\A k \in DOMAIN t.nodes : t.nodes[k].over \in S \cup {i} => k \in S) => j \in S}

\* The "depts" of the first top node, result.get(0), is all that anybody but a
\* system administrator is given.  (Without a top node there is an exception:
\* only if the user's department is gone.)
GivenOf(t) == Under(t, Min({i \in DOMAIN t.nodes : t.nodes[i].over = 0}))
DeptsGivenTo(d) == {DeptTreeOf(d).nodes[i].key : i \in GivenOf(DeptTreeOf(d))}
=============================================================================
