-------------------------- MODULE Accounts_proofs --------------------------
(***************************************************************************)
(* Proofs about Accounts, for any threads, names and size of the pool:     *)
(* the types, who a login name logs in, what goes with a user or a         *)
(* department, that departments keep their parents, and that the trees     *)
(* made of them are right. None is inductive.                              *)
(*                                                                         *)
(* A name belongs to the first user inserted with it because the auth row  *)
(* of another is in nobody's transaction any more (OfName): a thread that  *)
(* is to store its user has either inserted the row, and then nobody else  *)
(* has, or found one. Links go with their user or department because a     *)
(* transaction that is about to delete it has all of them, but for those   *)
(* added since (OfLinks).                                                  *)
(*                                                                         *)
(* Numbers and levels stay within their types because a transaction draws  *)
(* at most one number, so that those drawn and those still to be drawn     *)
(* are never more than the transactions (Counted), and because a           *)
(* department has a greater number than its parent (Fits, DeptsFit).       *)
(*                                                                         *)
(* A deletion takes whole branches although departments are inserted       *)
(* while it runs: it has met one department and the children of those it   *)
(* has seen, nothing else (FromOne), deletes what it has seen after its    *)
(* children (ChildrenFirst), and meets no number that is still to be       *)
(* inserted (Pending). So every parent stays (Parented), and as parents    *)
(* have smaller numbers, every line ends at the root (DownToRoot).         *)
(*                                                                         *)
(* A department keeps the level and the path that were made from its       *)
(* parent's (Paths), for the parent cannot change, and none comes under a  *)
(* department that is not there yet (ToCome). So BMLJ LIKE finds what is   *)
(* below a department (PathsAreLines) and ORDER BY BMCJ has every parent   *)
(* before its children. A tree that is made in such an order gets a node   *)
(* for every row, and for the parent it hangs on, under the right one      *)
(* (Grows, TreeGrows); the recursions of AddItem and Construct are         *)
(* unfolded by well-foundedness (AddItemTurns, ConstructTurns).            *)
(***************************************************************************)
EXTENDS MCAccounts, FiniteSetTheorems, WellFoundedInduction, TLAPS

Fields == {"op", "pc", "reload", "yhbh", "user", "sqbh", "bmbh", "dept", "todo",
           "seen", "gone", "cut"}

\* The steps of a transaction are those of its method.
Well(t) ==
    /\ t = [f \in Fields |-> t[f]]
    /\ t.sqbh \in BOOLEAN
    /\ t.pc \in {"yhbh", "check", "sqbh", "auth"} => t.op = "insertUser"
    /\ t.pc \in {"bmbh", "parent"} => t.op = "insertDept"
    /\ t.pc = "visit" => t.op = "deleteDept"

Storing(t) == t.op = "insertUser" /\ t.pc \in {"write", "commit"}

OfName(t) ==
    /\ t.sqbh => Storing(t) /\ t.user.dlmc \notin DOMAIN auth
    /\ Storing(t) => t.sqbh \/ t.user.dlmc \in DOMAIN auth

OfLinks(t) ==
    /\ t.op = "deleteUser" /\ t.pc = "commit" =>
        \A l \in links \ late : l.yhbh = t.yhbh => l \in t.cut
    /\ t.op = "deleteDept" =>
        \A l \in links \ late : l.of \in t.gone => l \in t.cut

Apart ==
    \A a, b \in Admin : a # b /\ tx[a].sqbh /\ tx[b].sqbh =>
        tx[a].user.dlmc # tx[b].user.dlmc

Shape == tx = [a \in Admin |-> tx[a]] /\ \A a \in Admin : Well(tx[a])

Names ==
    /\ \A a \in Admin : OfName(tx[a])
    /\ Apart
    /\ auth = first /\ first = [n \in DOMAIN first |-> first[n]]

Links == (\A a \in Admin : OfLinks(tx[a])) /\ LinksGoToo

Inv == Shape /\ Names /\ Links

-----------------------------------------------------------------------------
(* Steps of one transaction *)

LEMMA IdleIsGood == Well(Idle) /\ OfName(Idle) /\ OfLinks(Idle) /\ ~Idle.sqbh
  BY DEF Idle, Well, Fields, OfName, OfLinks, Storing

\* A step that leaves the tables alone has to keep what is said of its thread.
LEMMA StepKeeps ==
  ASSUME Inv, NEW a \in Admin, NEW t,
         tx' = [tx EXCEPT ![a] = t], UNCHANGED Tables,
         Well(t), OfName(t), OfLinks(t),
         t.sqbh => \A b \in Admin \ {a} : tx[b].sqbh => tx[b].user.dlmc # t.user.dlmc
  PROVE  Inv'
  <1>1. tx'[a] = t /\ \A b \in Admin \ {a} : tx'[b] = tx[b]
    BY DEF Inv, Shape
  <1>2. Shape'
    BY <1>1 DEF Inv, Shape
  <1>3. \A b \in Admin : OfName(tx'[b]) /\ OfLinks(tx'[b])
    BY <1>1 DEF Inv, Names, Links
  <1>4. Names'
    <2>1. Apart'
      BY <1>1 DEF Inv, Names, Apart
    <2> QED
      BY <1>3, <2>1 DEF Inv, Names, OfName, Storing, Tables
  <1>5. Links'
    BY <1>3 DEF Inv, Links, OfLinks, LinksGoToo, Tables
  <1> QED
    BY <1>2, <1>4, <1>5 DEF Inv

\* In particular one that does not touch the auth row or links.
LEMMA PlainStep ==
  ASSUME Inv, NEW a \in Admin, NEW t,
         tx' = [tx EXCEPT ![a] = t], UNCHANGED Tables,
         Well(t), ~t.sqbh, ~Storing(t), OfLinks(t)
  PROVE  Inv'
  BY StepKeeps DEF OfName

LEMMA EndStep ==
  ASSUME Inv, NEW a \in Admin, Ends(a)
  PROVE  Inv'
  BY IdleIsGood, StepKeeps DEF Ends, Goto

\* Before its user is to be stored, a thread has no auth row.
LEMMA NoRowYet ==
  ASSUME Inv, NEW a \in Admin, ~Storing(tx[a])
  PROVE  ~tx[a].sqbh
  BY DEF Inv, Names, OfName

LEMMA BeginStep ==
  ASSUME Inv, NEW a \in Admin, NEW t, Begin(a, t),
         Well(t), ~t.sqbh, ~Storing(t), t.pc # "commit", t.gone = {}
  PROVE  Inv'
  <1>1. OfLinks(t)
    BY DEF OfLinks
  <1> QED
    BY <1>1, PlainStep DEF Begin

LEMMA BeginKeeps ==
  ASSUME Inv, NEW a \in Admin, NEW n, NEW u, NEW d,
         \/ InsertUser(a, n, d) \/ UpdateUser(a, u, n, d) \/ DeleteUser(a, u)
         \/ InsertDept(a, d) \/ DeleteDept(a, d)
  PROVE  Inv'
  <1>0. /\ Well(Idle) /\ Idle = [f \in Fields |-> Idle[f]]
        /\ ~Idle.sqbh /\ Idle.gone = {}
    BY IdleIsGood DEF Well, Idle
  <1>1. CASE InsertUser(a, n, d)
    <2> DEFINE t == [Idle EXCEPT !.op = "insertUser", !.pc = "yhbh",
                                 !.user = [dlmc |-> n, bmbh |-> d]]
    <2>1. Well(t) /\ ~t.sqbh /\ ~Storing(t) /\ t.pc # "commit" /\ t.gone = {}
      BY <1>0 DEF Well, Fields, Storing
    <2>2. Begin(a, t)
      BY <1>1 DEF InsertUser
    <2> HIDE DEF t
    <2> QED
      BY <2>1, <2>2, BeginStep
  <1>2. CASE UpdateUser(a, u, n, d)
    <2> DEFINE t == [Idle EXCEPT !.op = "updateUser", !.pc = "write", !.yhbh = u,
                                 !.user = [dlmc |-> n, bmbh |-> d]]
    <2>1. Well(t) /\ ~t.sqbh /\ ~Storing(t) /\ t.pc # "commit" /\ t.gone = {}
      BY <1>0 DEF Well, Fields, Storing
    <2>2. Begin(a, t)
      BY <1>2 DEF UpdateUser
    <2> HIDE DEF t
    <2> QED
      BY <2>1, <2>2, BeginStep
  <1>3. CASE DeleteUser(a, u)
    <2> DEFINE t == [Idle EXCEPT !.op = "deleteUser", !.pc = "write", !.yhbh = u]
    <2>1. Well(t) /\ ~t.sqbh /\ ~Storing(t) /\ t.pc # "commit" /\ t.gone = {}
      BY <1>0 DEF Well, Fields, Storing
    <2>2. Begin(a, t)
      BY <1>3 DEF DeleteUser
    <2> HIDE DEF t
    <2> QED
      BY <2>1, <2>2, BeginStep
  <1>4. CASE InsertDept(a, d)
    <2> DEFINE t == [Idle EXCEPT !.op = "insertDept", !.pc = "bmbh", !.dept.bmpbh = d]
    <2>1. Well(t) /\ ~t.sqbh /\ ~Storing(t) /\ t.pc # "commit" /\ t.gone = {}
      <3> DEFINE e == [Idle.dept EXCEPT !.bmpbh = d]
      <3>1. t = [Idle EXCEPT !.op = "insertDept", !.pc = "bmbh", !.dept = e]
        OBVIOUS
      <3> HIDE DEF t, e
      <3> QED
        BY <1>0, <3>1 DEF Well, Fields, Storing
    <2>2. Begin(a, t)
      BY <1>4 DEF InsertDept
    <2> HIDE DEF t
    <2> QED
      BY <2>1, <2>2, BeginStep
  <1>5. CASE DeleteDept(a, d)
    <2> DEFINE t == [Idle EXCEPT !.op = "deleteDept", !.pc = "visit", !.todo = <<d>>]
    <2>1. Well(t) /\ ~t.sqbh /\ ~Storing(t) /\ t.pc # "commit" /\ t.gone = {}
      BY <1>0 DEF Well, Fields, Storing
    <2>2. Begin(a, t)
      BY <1>5 DEF DeleteDept
    <2> HIDE DEF t
    <2> QED
      BY <2>1, <2>2, BeginStep
  <1> QED
    BY <1>1, <1>2, <1>3, <1>4, <1>5

LEMMA GotKeyKeeps ==
  ASSUME Inv, NEW a \in Admin, GotKey(a)
  PROVE  Inv'
  <1>0. Well(tx[a])
    BY DEF Inv, Shape
  <1>1. CASE tx[a].pc = "yhbh"
    <2> DEFINE t == [[tx[a] EXCEPT !.reload = FALSE]
                       EXCEPT !.pc = "check", !.yhbh = Fresh(keys.user)]
    <2>1. Well(t) /\ ~t.sqbh /\ ~Storing(t) /\ t.op = "insertUser"
      BY <1>0, <1>1, NoRowYet DEF Well, Fields, Storing
    <2>2. Goto(a, t)
      BY <1>0, <1>1 DEF GotKey, Well, Fields
    <2> HIDE DEF t
    <2> QED
      BY <2>1, <2>2, PlainStep DEF Goto, OfLinks
  <1>2. CASE tx[a].pc = "sqbh"
    <2> DEFINE t == [[tx[a] EXCEPT !.reload = FALSE] EXCEPT !.pc = "auth"]
    <2>1. Well(t) /\ ~t.sqbh /\ ~Storing(t) /\ t.op = "insertUser"
      BY <1>0, <1>2, NoRowYet DEF Well, Fields, Storing
    <2>2. Goto(a, t)
      BY <1>0, <1>2 DEF GotKey, Well, Fields
    <2> HIDE DEF t
    <2> QED
      BY <2>1, <2>2, PlainStep DEF Goto, OfLinks
  <1>3. CASE tx[a].pc = "bmbh"
    <2> DEFINE t == [[tx[a] EXCEPT !.reload = FALSE]
                       EXCEPT !.pc = "parent", !.bmbh = Fresh(keys.dept)]
    <2>1. Well(t) /\ ~t.sqbh /\ ~Storing(t) /\ t.op = "insertDept"
      BY <1>0, <1>3, NoRowYet DEF Well, Fields, Storing
    <2>2. Goto(a, t)
      BY <1>0, <1>3 DEF GotKey, Well, Fields
    <2> HIDE DEF t
    <2> QED
      BY <2>1, <2>2, PlainStep DEF Goto, OfLinks
  <1> QED
    BY <1>0, <1>1, <1>2, <1>3 DEF GotKey, Well, Fields

LEMMA UsedUpKeeps ==
  ASSUME Inv, NEW a \in Admin, UsedUp(a)
  PROVE  Inv'
  <1> DEFINE t == [tx[a] EXCEPT !.reload = TRUE]
  <1>1. Well(tx[a]) /\ tx[a].op \in {"insertUser", "insertDept"}
    BY DEF UsedUp, Inv, Shape, Well
  <1>2. Well(t) /\ ~t.sqbh /\ ~Storing(t) /\ t.op = tx[a].op
    BY <1>1, NoRowYet DEF UsedUp, Well, Fields, Storing
  <1>3. Goto(a, t)
    BY DEF UsedUp
  <1> HIDE DEF t
  <1> QED
    BY <1>1, <1>2, <1>3, PlainStep DEF Goto, OfLinks

LEMMA CheckKeeps ==
  ASSUME Inv, NEW a \in Admin, Check(a)
  PROVE  Inv'
  <1> DEFINE t == [tx[a] EXCEPT !.pc = IF tx[a].user.dlmc \in DOMAIN auth
                                       THEN "write" ELSE "sqbh"]
  <1>1. Well(tx[a]) /\ tx[a].pc = "check" /\ tx[a].op = "insertUser"
    BY DEF Check, Inv, Shape, Well
  <1>2. /\ Well(t) /\ ~t.sqbh /\ t.op = "insertUser"
        /\ t.pc = "write" => t.user.dlmc \in DOMAIN auth
        /\ t.pc \in {"write", "sqbh"}
    BY <1>1, NoRowYet DEF Well, Fields, Storing
  <1>3. Goto(a, t)
    BY DEF Check
  <1> HIDE DEF t
  <1>4. OfName(t) /\ OfLinks(t)
    BY <1>2 DEF OfName, Storing, OfLinks
  <1> QED
    BY <1>2, <1>3, <1>4, StepKeeps DEF Goto

\* The unique index lets one transaction at a time have the row of a name.
LEMMA InsertAuthKeeps ==
  ASSUME Inv, NEW a \in Admin, InsertAuth(a)
  PROVE  Inv'
  <1>1. Well(tx[a]) /\ tx[a].pc = "auth" /\ tx[a].op = "insertUser"
    BY DEF InsertAuth, Inv, Shape, Well
  <1>2. CASE Duplicate(a)
    BY <1>2, EndStep DEF InsertAuth
  <1>3. CASE ~Duplicate(a)
    <2> DEFINE t == [tx[a] EXCEPT !.pc = "write", !.sqbh = TRUE]
    <2>1. Well(t) /\ t.sqbh /\ t.op = "insertUser" /\ t.pc = "write" /\ t.user = tx[a].user
      BY <1>1 DEF Well, Fields
    <2>2. Goto(a, t)
      BY <1>3 DEF InsertAuth
    <2> HIDE DEF t
    <2>3. OfName(t) /\ OfLinks(t)
      BY <1>3, <2>1 DEF OfName, Storing, OfLinks, Duplicate
    <2>4. \A b \in Admin \ {a} : tx[b].sqbh => tx[b].user.dlmc # t.user.dlmc
      BY <2>1 DEF InsertAuth
    <2> QED
      BY <2>1, <2>2, <2>3, <2>4, StepKeeps DEF Goto
  <1> QED
    BY <1>2, <1>3

\* The statement that changes RS_USER, and before it the deletion of links.
LEMMA WrittenKeeps ==
  ASSUME Inv, NEW a \in Admin, NEW cut, Written(a, cut),
         tx[a].pc = "write", tx[a].op # "deleteDept",
         tx[a].op = "deleteUser" => LinksOf(tx[a].yhbh) \subseteq cut
  PROVE  Inv'
  <1> DEFINE t == [tx[a] EXCEPT !.pc = "commit", !.cut = cut]
  <1>1. Well(tx[a])
    BY DEF Inv, Shape
  <1>2. /\ Well(t) /\ t.pc = "commit" /\ t.cut = cut /\ t.op = tx[a].op
        /\ t.yhbh = tx[a].yhbh /\ t.user = tx[a].user /\ t.sqbh = tx[a].sqbh
    BY <1>1 DEF Well, Fields
  <1>3. Goto(a, t)
    BY DEF Written
  <1> HIDE DEF t
  <1>4. OfName(t)
    BY <1>2 DEF Inv, Names, OfName, Storing
  <1>5. OfLinks(t)
    BY <1>2 DEF OfLinks, LinksOf
  <1>6. t.sqbh => \A b \in Admin \ {a} : tx[b].sqbh => tx[b].user.dlmc # t.user.dlmc
    <2>1. Apart
      BY DEF Inv, Names
    <2> QED
      BY <1>2, <2>1 DEF Apart
  <1> QED
    BY <1>2, <1>3, <1>4, <1>5, <1>6, StepKeeps DEF Goto

LEMMA WriteKeeps ==
  ASSUME Inv, NEW a \in Admin, WriteInsert(a) \/ WriteUpdate(a) \/ WriteDelete(a)
  PROVE  Inv'
  <1>1. CASE Ends(a)
    BY <1>1, EndStep
  <1>2. CASE ~Ends(a)
    <2>1. PICK cut : /\ Written(a, cut) /\ tx[a].pc = "write" /\ tx[a].op # "deleteDept"
                     /\ tx[a].op = "deleteUser" => LinksOf(tx[a].yhbh) \subseteq cut
      BY <1>2 DEF WriteInsert, WriteUpdate, WriteDelete
    <2> QED
      BY <2>1, WrittenKeeps
  <1> QED
    BY <1>1, <1>2

LEMMA ParentKeeps ==
  ASSUME Inv, NEW a \in Admin, Parent(a)
  PROVE  Inv'
  <1>0. Well(tx[a]) /\ tx[a].pc = "parent" /\ tx[a].op = "insertDept"
    BY DEF Parent, Inv, Shape, Well
  <1>1. CASE Ends(a)
    BY <1>1, EndStep
  <1>2. CASE ~Ends(a)
    <2> DEFINE p == tx[a].dept.bmpbh
               t == [tx[a] EXCEPT !.pc = "commit", !.dept.bmcj = depts[p].bmcj + 1,
                                  !.dept.bmlj = Path(p, tx[a].bmbh)]
    <2>1. Well(t) /\ ~t.sqbh /\ ~Storing(t) /\ t.op = "insertDept"
      BY <1>0, NoRowYet DEF Well, Fields, Storing
    <2>2. Goto(a, t)
      BY <1>2 DEF Parent
    <2> HIDE DEF t
    <2> QED
      BY <2>1, <2>2, PlainStep DEF Goto, OfLinks
  <1> QED
    BY <1>1, <1>2

\* What is deleted next takes its links with it.
LEMMA VisitKeeps ==
  ASSUME Inv, NEW a \in Admin, Visit(a)
  PROVE  Inv'
  <1> DEFINE d == Head(tx[a].todo)
             open(found) == [tx[a] EXCEPT !.seen = @ \cup {d}, !.todo = found \o @]
             close == [tx[a] EXCEPT !.gone = @ \cup {d}, !.todo = Tail(@),
                                    !.cut = @ \cup {l \in links : l.of = d},
                                    !.pc = IF Len(tx[a].todo) = 1 THEN "commit" ELSE "visit"]
  <1>1. Well(tx[a]) /\ tx[a].pc = "visit" /\ tx[a].op = "deleteDept" /\ OfLinks(tx[a])
    BY DEF Visit, Inv, Shape, Well, Links
  <1>2. CASE d \notin tx[a].seen
    <2>1. PICK found : Goto(a, open(found))
      BY <1>2 DEF Visit
    <2>2. /\ Well(open(found)) /\ ~open(found).sqbh /\ ~Storing(open(found))
          /\ open(found).op = "deleteDept" /\ open(found).gone = tx[a].gone
          /\ open(found).cut = tx[a].cut
      BY <1>1, NoRowYet DEF Well, Fields, Storing
    <2> HIDE DEF open
    <2>3. OfLinks(open(found))
      BY <1>1, <2>2 DEF OfLinks
    <2> QED
      BY <2>1, <2>2, <2>3, PlainStep DEF Goto
  <1>3. CASE d \in tx[a].seen
    <2>1. /\ Well(close) /\ ~close.sqbh /\ ~Storing(close)
          /\ close.op = "deleteDept" /\ close.gone = tx[a].gone \cup {d}
          /\ close.cut = tx[a].cut \cup {l \in links : l.of = d}
      BY <1>1, NoRowYet DEF Well, Fields, Storing
    <2>2. Goto(a, close)
      BY <1>3 DEF Visit
    <2> HIDE DEF close, d
    <2>3. OfLinks(close)
      BY <1>1, <2>1 DEF OfLinks
    <2> QED
      BY <2>1, <2>2, <2>3, PlainStep DEF Goto
  <1> QED
    BY <1>2, <1>3

-----------------------------------------------------------------------------
(* Steps that change the tables *)

LEMMA CommitUserKeeps ==
  ASSUME Inv, NEW a \in Admin, CommitUser(a)
  PROVE  Inv'
  <1> DEFINE t == tx[a]
             n == t.user.dlmc
  <1>1. /\ tx'[a] = Idle
        /\ \A b \in Admin \ {a} : tx'[b] = tx[b]
        /\ Well(t) /\ OfName(t) /\ OfLinks(t)
        /\ t.pc = "commit" /\ depts' = depts /\ late' = late
    BY DEF CommitUser, Inv, Shape, Names, Links
  <1>2. Shape'
    BY <1>1, IdleIsGood DEF CommitUser, Inv, Shape
  <1>3. /\ auth' = first' /\ first' = [m \in DOMAIN first' |-> first'[m]]
        /\ DOMAIN auth' = IF t.sqbh THEN DOMAIN auth \cup {n} ELSE DOMAIN auth
    <2>1. CASE t.op = "insertUser" /\ t.sqbh
      <3>1. n \notin DOMAIN auth
        BY <1>1, <2>1 DEF OfName
      <3>2. auth' = With(auth, n, t.yhbh) /\ first' = With(first, n, t.yhbh)
        BY <2>1, <3>1 DEF CommitUser, Inv, Names
      <3> QED
        BY <2>1, <3>2 DEF Inv, Names, With
    <2>2. CASE t.op = "insertUser" /\ ~t.sqbh
      <3>1. n \in DOMAIN first
        BY <1>1, <2>2 DEF OfName, Storing, Inv, Names
      <3> QED
        BY <2>2, <3>1 DEF CommitUser, Inv, Names
    <2>3. CASE t.op # "insertUser"
      <3>1. ~t.sqbh
        BY <1>1, <2>3 DEF OfName, Storing
      <3> QED
        BY <2>3, <3>1 DEF CommitUser, Inv, Names
    <2> QED
      BY <2>1, <2>2, <2>3
  <1>4. \A b \in Admin : OfName(tx[b])'
    <2> SUFFICES ASSUME NEW b \in Admin PROVE OfName(tx[b])'
      OBVIOUS
    <2>1. CASE b = a
      BY <1>1, <2>1 DEF OfName, Storing, Idle
    <2>2. CASE b # a
      <3>1. tx'[b] = tx[b] /\ OfName(tx[b])
        BY <1>1, <2>2 DEF Inv, Names
      <3>2. t.sqbh /\ tx[b].sqbh => tx[b].user.dlmc # n
        BY <2>2 DEF Inv, Names, Apart
      <3> QED
        BY <1>3, <3>1, <3>2 DEF OfName, Storing
    <2> QED
      BY <2>1, <2>2
  <1>5. Apart'
    BY <1>1, IdleIsGood DEF Inv, Names, Apart
  <1>6. links' = links \ t.cut
    BY DEF CommitUser
  <1>7. \A b \in Admin : OfLinks(tx[b])'
    BY <1>1, <1>6, IdleIsGood DEF Inv, Links, OfLinks, Idle
  <1>8. LinksGoToo'
    <2> SUFFICES ASSUME NEW l \in links' \ late'
                 PROVE  l.yhbh \in DOMAIN users' /\ l.of \in DOMAIN depts' \cup {0}
      BY DEF LinksGoToo
    <2>1. l \in links \ late /\ l \notin t.cut
      BY <1>1, <1>6
    <2>2. l.yhbh \in DOMAIN users /\ l.of \in DOMAIN depts \cup {0}
      BY <2>1 DEF Inv, Links, LinksGoToo
    <2>3. CASE t.op = "deleteUser"
      <3>1. l.yhbh # t.yhbh
        BY <1>1, <2>1, <2>3 DEF OfLinks
      <3>2. users' = Without(users, {t.yhbh})
        BY <2>3 DEF CommitUser
      <3> QED
        BY <1>1, <2>2, <3>1, <3>2 DEF Without
    <2>4. CASE t.op # "deleteUser"
      <3>1. users' = With(users, t.yhbh, t.user)
        BY <2>4 DEF CommitUser
      <3>2. DOMAIN users \subseteq DOMAIN users'
        BY <3>1 DEF With
      <3> QED
        BY <1>1, <2>2, <3>2
    <2> QED
      BY <2>3, <2>4
  <1> QED
    BY <1>2, <1>3, <1>4, <1>5, <1>7, <1>8 DEF Inv, Names, Links

\* A department comes or goes; with it goes what its transaction has cut.
LEMMA CommitDeptKeeps ==
  ASSUME Inv, NEW a \in Admin, CommitInsert(a) \/ CommitDelete(a)
  PROVE  Inv'
  <1>1. /\ tx'[a] = Idle
        /\ \A b \in Admin \ {a} : tx'[b] = tx[b]
        /\ Well(tx[a]) /\ OfLinks(tx[a])
        /\ users' = users /\ late' = late /\ auth' = auth /\ first' = first
        /\ links' \subseteq links
    BY DEF CommitInsert, CommitDelete, Inv, Shape, Links
  <1>2. Shape'
    BY <1>1, IdleIsGood DEF CommitInsert, CommitDelete, Inv, Shape
  <1>3. Names'
    <2>1. \A b \in Admin : OfName(tx[b])'
      BY <1>1 DEF Inv, Names, OfName, Storing, Idle
    <2>2. Apart'
      BY <1>1, IdleIsGood DEF Inv, Names, Apart
    <2> QED
      BY <1>1, <2>1, <2>2 DEF Inv, Names
  <1>4. \A b \in Admin : OfLinks(tx[b])'
    BY <1>1, IdleIsGood DEF Inv, Links, OfLinks, Idle
  <1>5. LinksGoToo'
    <2>1. CASE CommitInsert(a)
      <3>1. depts' = With(depts, tx[a].bmbh, tx[a].dept)
        BY <2>1 DEF CommitInsert
      <3>2. DOMAIN depts \subseteq DOMAIN depts'
        BY <3>1 DEF With
      <3> QED
        BY <1>1, <3>2 DEF Inv, Links, LinksGoToo
    <2>2. CASE CommitDelete(a)
      <3>1. /\ depts' = Without(depts, tx[a].gone) /\ links' = links \ tx[a].cut
            /\ tx[a].op = "deleteDept"
        BY <2>2 DEF CommitDelete
      <3>2. \A l \in links' \ late' : l.of \notin tx[a].gone
        BY <1>1, <3>1 DEF OfLinks
      <3> QED
        BY <1>1, <3>1, <3>2 DEF Inv, Links, LinksGoToo, Without
    <2> QED
      BY <2>1, <2>2
  <1> QED
    BY <1>2, <1>3, <1>4, <1>5 DEF Inv, Links

\* Methods of one statement
LEMMA LinkKeeps ==
  ASSUME Inv, NEW l, AddLink(l) \/ DelLink(l)
  PROVE  Inv'
  <1>1. UNCHANGED <<auth, depts, tx, first, users>>
    BY DEF AddLink, DelLink, Alone
  <1>2. Shape' /\ Names'
    BY <1>1 DEF Inv, Shape, Names, Apart, OfName, Storing
  <1>3. CASE AddLink(l)
    <2>1. links' = links \cup {l} /\ late \subseteq late'
      BY <1>3 DEF AddLink
    <2>2. CASE \/ l.yhbh \notin DOMAIN users \/ l.of \notin DOMAIN depts \cup {0}
               \/ \E a \in Admin : \/ /\ tx[a].pc = "commit" /\ tx[a].op = "deleteUser"
                                      /\ tx[a].yhbh = l.yhbh
                                   \/ l.of \in tx[a].gone
      <3>1. late' = late \cup {l}
        BY <1>3, <2>2 DEF AddLink
      <3>2. links' \ late' \subseteq links \ late
        BY <2>1, <3>1
      <3> QED
        BY <1>1, <1>2, <3>2 DEF Inv, Links, OfLinks, LinksGoToo
    <2>3. CASE /\ l.yhbh \in DOMAIN users /\ l.of \in DOMAIN depts \cup {0}
               /\ \A a \in Admin : /\ ~(/\ tx[a].pc = "commit" /\ tx[a].op = "deleteUser"
                                         /\ tx[a].yhbh = l.yhbh)
                                   /\ l.of \notin tx[a].gone
      BY <1>1, <1>2, <2>1, <2>3 DEF Inv, Links, OfLinks, LinksGoToo
    <2> QED
      BY <2>2, <2>3
  <1>4. CASE DelLink(l)
    <2>1. links' \ late' \subseteq links \ late
      BY <1>4 DEF DelLink
    <2> QED
      BY <1>1, <1>2, <2>1 DEF Inv, Links, OfLinks, LinksGoToo
  <1> QED
    BY <1>3, <1>4

LEMMA BmbhKeeps ==
  ASSUME Inv, NEW S, NEW d, UpdateUsersBmbh(S, d)
  PROVE  Inv'
  <1>1. UNCHANGED <<auth, depts, tx, first, links, late>> /\ DOMAIN users' = DOMAIN users
    BY DEF UpdateUsersBmbh, Alone
  <1> QED
    BY <1>1 DEF Inv, Shape, Names, Apart, OfName, Storing, Links, OfLinks, LinksGoToo

-----------------------------------------------------------------------------
(* The theorems *)

LEMMA InitInv == Init => Inv
  <1> SUFFICES ASSUME Init PROVE Inv
    OBVIOUS
  <1>1. Shape
    BY IdleIsGood DEF Init, Shape
  <1>2. Names
    BY IdleIsGood DEF Init, Names, Apart, Idle, OfName, Storing
  <1>3. Links
    BY IdleIsGood DEF Init, Links, LinksGoToo, OfLinks, Idle
  <1> QED
    BY <1>1, <1>2, <1>3 DEF Inv

LEMMA NextInv == Inv /\ [Next]_vars => Inv'
  <1> SUFFICES ASSUME Inv, [Next]_vars PROVE Inv'
    OBVIOUS
  <1>1. ASSUME NEW a \in Admin, Proceed(a) PROVE Inv'
    <2>1. CASE NextKey(a) \/ Reload(a)
      BY <2>1, GotKeyKeeps DEF NextKey, Reload
    <2>2. CASE UsedUp(a)
      BY <2>2, UsedUpKeeps
    <2>3. CASE GivesUp(a)
      BY <2>3, EndStep DEF GivesUp
    <2>4. CASE Check(a) \/ InsertAuth(a)
      BY <2>4, CheckKeeps, InsertAuthKeeps
    <2>5. CASE WriteInsert(a) \/ WriteUpdate(a) \/ WriteDelete(a)
      BY <2>5, WriteKeeps
    <2>6. CASE CommitUser(a)
      BY <2>6, CommitUserKeeps
    <2>7. CASE Parent(a) \/ Visit(a)
      BY <2>7, ParentKeeps, VisitKeeps
    <2>8. CASE CommitInsert(a) \/ CommitDelete(a)
      BY <2>8, CommitDeptKeeps
    <2> QED
      BY <1>1, <2>1, <2>2, <2>3, <2>4, <2>5, <2>6, <2>7, <2>8 DEF Proceed
  <1>2. ASSUME NEW a \in Admin, Rollback(a) PROVE Inv'
    BY <1>2, EndStep DEF Rollback
  <1>3. CASE UNCHANGED vars
    BY <1>3 DEF vars, Inv, Shape, Names, Apart, OfName, Storing, Links, OfLinks, LinksGoToo
  <1> QED
    BY <1>1, <1>2, <1>3, BeginKeeps, LinkKeeps, BmbhKeeps DEF Next

\* Theorem.  A login name logs in the first user that was inserted with it, and
\* nobody else, however many threads insert, rename and delete users at a time.
THEOREM NameOfTheFirst == Spec => []LogsInTheFirst
  <1>1. Inv => LogsInTheFirst
    BY DEF Inv, Names, LogsInTheFirst, LogsInAs
  <1> QED
    BY <1>1, InitInv, NextInv, PTL DEF Spec

\* Theorem.  Except for those added while their user or department went, no role
\* and no department of a user outlives either.
THEOREM LinksAreRemoved == Spec => []LinksGoToo
  <1>1. Inv => LinksGoToo
    BY DEF Inv, Links
  <1> QED
    BY <1>1, InitInv, NextInv, PTL DEF Spec

-----------------------------------------------------------------------------
(* Types *)

UserOp == {"insertUser", "updateUser", "deleteUser"}

\* Numbers are handed out before they are used, parents before their children.
Fits(t, k) ==
    /\ t \in Tx
    /\ t.op \in UserOp /\ t.pc \in {"check", "sqbh", "auth", "write", "commit"} => t.yhbh # 0
    /\ t.op = "insertDept" /\ t.pc # "idle" => t.dept.bmpbh \in 0..k
    /\ t.op = "insertDept" /\ t.pc = "commit" => t.dept.bmpbh \in 1..k
    /\ (t.bmbh # 0) <=> (t.op = "insertDept" /\ t.pc \in {"parent", "commit"})
    /\ t.bmbh # 0 => t.bmbh <= k /\ t.dept.bmpbh < t.bmbh
    /\ t.op = "insertDept" /\ t.pc = "commit" => t.dept.bmcj < t.bmbh
    /\ t.pc = "visit" => t.todo # <<>>
    /\ \A i \in DOMAIN t.todo : t.todo[i] <= k
    /\ \A d \in t.seen : d <= k

DeptsFit ==
    \A d \in DOMAIN depts : /\ d <= keys.dept
                            /\ depts[d].bmpbh < d /\ depts[d].bmcj < d

\* Every transaction draws at most one number of a user or a department.
Draw(pc) == {a \in Admin : tx[a].pc = pc}
Counted ==
    /\ IsFiniteSet(Draw("yhbh")) /\ keys.user + Cardinality(Draw("yhbh")) <= txs + 1
    /\ IsFiniteSet(Draw("bmbh")) /\ keys.dept + Cardinality(Draw("bmbh")) <= txs + 2

TypeInv == TypeOK /\ (\A a \in Admin : Fits(tx[a], keys.dept)) /\ DeptsFit /\ Counted


LEMMA Bounds ==
  ASSUME TypeOK
  PROVE  /\ MaxTx \in Nat /\ txs \in Nat /\ keys.user \in Nat \ {0} /\ keys.dept \in Nat \ {0}
         /\ 1..keys.user \subseteq Yhbh /\ 1..keys.dept \subseteq Bmbh
         /\ keys.user <= MaxTx + 1 /\ keys.dept <= MaxTx + 2 /\ txs <= MaxTx
  BY BoundAssumption DEF TypeOK, Yhbh, Bmbh

LEMMA IdleFits ==
  ASSUME NEW k \in Nat
  PROVE  Idle \in Tx /\ Fits(Idle, k) /\ Idle.pc = "idle"
  <1>1. MaxTx \in Nat
    BY BoundAssumption
  <1>2. Idle.user \in User /\ Idle.dept \in Dept
    BY <1>1, NameAssumption, NumberAssumption DEF Idle, User, Dept, Bmbh
  <1>3. Idle \in Tx
    BY <1>2 DEF Idle, Tx, Op, Pc, Yhbh, Bmbh
  <1> QED
    BY <1>3 DEF Fits, Idle, UserOp

LEMMA FitsOn ==
  ASSUME NEW t, NEW k \in Nat, NEW l \in Nat, k <= l, Fits(t, k)
  PROVE  Fits(t, l)
  <1>1. /\ t.dept.bmpbh \in Nat /\ t.bmbh \in Nat
        /\ \A i \in DOMAIN t.todo : t.todo[i] \in Nat
        /\ \A d \in t.seen : d \in Nat
    BY BoundAssumption, NumberAssumption DEF Fits, Tx, Dept, Bmbh
  <1> QED
    BY <1>1 DEF Fits

LEMMA OthersKept ==
  ASSUME TypeInv, NEW a \in Admin, NEW t, tx' = [tx EXCEPT ![a] = t], Fits(t, keys'.dept),
         keys' \in [user : Yhbh, dept : Bmbh], keys.dept <= keys'.dept
  PROVE  /\ tx' \in [Admin -> Tx] /\ tx'[a] = t
         /\ \A b \in Admin \ {a} : tx'[b] = tx[b]
         /\ \A b \in Admin : Fits(tx'[b], keys'.dept)
  <1>1. tx \in [Admin -> Tx] /\ t \in Tx
    BY DEF TypeInv, TypeOK, Fits
  <1>2. tx' \in [Admin -> Tx] /\ tx'[a] = t /\ \A b \in Admin \ {a} : tx'[b] = tx[b]
    BY <1>1
  <1>3. keys.dept \in Nat /\ keys'.dept \in Nat
    BY BoundAssumption DEF TypeInv, TypeOK, Bmbh
  <1>4. \A b \in Admin \ {a} : Fits(tx[b], keys'.dept)
    BY <1>3, FitsOn DEF TypeInv
  <1> QED
    BY <1>2, <1>4

\* A step that leaves the tables alone has to keep what is said of its thread.
LEMMA TypesKept ==
  ASSUME TypeInv, NEW a \in Admin, NEW t, tx' = [tx EXCEPT ![a] = t], Fits(t, keys'.dept),
         keys' \in [user : Yhbh, dept : Bmbh], keys.dept <= keys'.dept,
         UNCHANGED Tables, txs' \in 0..MaxTx, Counted'
  PROVE  TypeInv'
  <1>1. /\ tx' \in [Admin -> Tx]
        /\ \A b \in Admin : Fits(tx'[b], keys'.dept)
    BY OthersKept
  <1>2. TypeOK'
    BY <1>1 DEF TypeInv, TypeOK, Tables
  <1>3. DeptsFit'
    <2>1. keys.dept \in Nat /\ keys'.dept \in Nat /\ \A d \in DOMAIN depts : d \in Nat
      BY BoundAssumption DEF TypeInv, TypeOK, Bmbh
    <2> QED
      BY <2>1 DEF TypeInv, DeptsFit, Tables
  <1> QED
    BY <1>1, <1>2, <1>3 DEF TypeInv

\* Nobody begins to draw a number.
LEMMA CountKept ==
  ASSUME TypeInv, NEW a \in Admin, \A b \in Admin \ {a} : tx'[b] = tx[b],
         tx'[a].pc \in {"yhbh", "bmbh"} => tx[a].pc = tx'[a].pc,
         keys' = keys, txs' = txs
  PROVE  Counted'
  <1>0. keys.user \in Nat /\ keys.dept \in Nat /\ txs \in Nat
    BY Bounds DEF TypeInv
  <1>1. Draw("yhbh")' \in SUBSET Draw("yhbh") /\ Draw("bmbh")' \in SUBSET Draw("bmbh")
    BY DEF Draw
  <1>2. /\ IsFiniteSet(Draw("yhbh")') /\ Cardinality(Draw("yhbh")') <= Cardinality(Draw("yhbh"))
        /\ Cardinality(Draw("yhbh")) \in Nat /\ Cardinality(Draw("yhbh")') \in Nat
    BY <1>1, FS_Subset, FS_CardinalityType DEF TypeInv, Counted
  <1>3. /\ IsFiniteSet(Draw("bmbh")') /\ Cardinality(Draw("bmbh")') <= Cardinality(Draw("bmbh"))
        /\ Cardinality(Draw("bmbh")) \in Nat /\ Cardinality(Draw("bmbh")') \in Nat
    BY <1>1, FS_Subset, FS_CardinalityType DEF TypeInv, Counted
  <1> HIDE DEF Draw
  <1> QED
    BY <1>0, <1>2, <1>3 DEF TypeInv, Counted

LEMMA FittingStep ==
  ASSUME TypeInv, NEW a \in Admin, NEW t, Goto(a, t), UNCHANGED keys, Fits(t, keys.dept),
         t.pc \in {"yhbh", "bmbh"} => tx[a].pc = t.pc
  PROVE  TypeInv'
  <1>1. /\ tx' = [tx EXCEPT ![a] = t] /\ UNCHANGED Tables /\ txs' = txs
        /\ keys' \in [user : Yhbh, dept : Bmbh] /\ keys.dept <= keys'.dept
        /\ txs' \in 0..MaxTx
    BY Bounds DEF Goto, TypeInv, TypeOK
  <1>2. tx'[a] = t /\ \A b \in Admin \ {a} : tx'[b] = tx[b]
    BY <1>1, OthersKept
  <1>3. Counted'
    BY <1>1, <1>2, CountKept
  <1> QED
    BY <1>1, <1>3, TypesKept

LEMMA EndFits ==
  ASSUME TypeInv, NEW a \in Admin, Ends(a)
  PROVE  TypeInv'
  BY Bounds, IdleFits, FittingStep DEF Ends, TypeInv

\* A method begins: one more transaction, and perhaps one more draw.
LEMMA BeginFits ==
  ASSUME TypeInv, NEW a \in Admin, NEW t, Begin(a, t), Fits(t, keys.dept)
  PROVE  TypeInv'
  <1>1. /\ tx' = [tx EXCEPT ![a] = t] /\ UNCHANGED <<keys, Tables>> /\ txs' = txs + 1
        /\ txs < MaxTx
    BY DEF Begin, Another
  <1>2. /\ keys' \in [user : Yhbh, dept : Bmbh] /\ keys.dept <= keys'.dept
        /\ txs' \in 0..MaxTx /\ txs \in Nat /\ keys.user \in Nat /\ keys.dept \in Nat
    BY <1>1, Bounds DEF TypeInv, TypeOK
  <1>3. tx'[a] = t /\ \A b \in Admin \ {a} : tx'[b] = tx[b]
    BY <1>1, <1>2, OthersKept
  <1>4. Counted'
    <2>1. /\ Draw("yhbh")' \in SUBSET (Draw("yhbh") \cup {a})
          /\ Draw("bmbh")' \in SUBSET (Draw("bmbh") \cup {a})
      BY <1>3 DEF Draw
    <2>2. ASSUME NEW S, NEW T, IsFiniteSet(S), T \in SUBSET (S \cup {a})
          PROVE  /\ IsFiniteSet(T) /\ Cardinality(T) \in Nat /\ Cardinality(S) \in Nat
                 /\ Cardinality(T) <= Cardinality(S) + 1
      <3>0. Cardinality(S) \in Nat
        BY <2>2, FS_CardinalityType
      <3>1. /\ IsFiniteSet(S \cup {a})
            /\ \/ Cardinality(S \cup {a}) = Cardinality(S)
               \/ Cardinality(S \cup {a}) = Cardinality(S) + 1
        BY <2>2, FS_AddElement
      <3>2. /\ IsFiniteSet(T) /\ Cardinality(T) \in Nat
            /\ Cardinality(T) <= Cardinality(S \cup {a})
        BY <2>2, <3>1, FS_Subset, FS_CardinalityType
      <3>3. Cardinality(S \cup {a}) \in Nat
        BY <3>1, FS_CardinalityType
      <3> QED
        BY <3>0, <3>1, <3>2, <3>3
    <2>3. /\ IsFiniteSet(Draw("yhbh")') /\ Cardinality(Draw("yhbh")') \in Nat
          /\ Cardinality(Draw("yhbh")) \in Nat
          /\ Cardinality(Draw("yhbh")') <= Cardinality(Draw("yhbh")) + 1
      BY <2>1, <2>2 DEF TypeInv, Counted
    <2>4. /\ IsFiniteSet(Draw("bmbh")') /\ Cardinality(Draw("bmbh")') \in Nat
          /\ Cardinality(Draw("bmbh")) \in Nat
          /\ Cardinality(Draw("bmbh")') <= Cardinality(Draw("bmbh")) + 1
      BY <2>1, <2>2 DEF TypeInv, Counted
    <2> HIDE DEF Draw
    <2> QED
      BY <1>1, <1>2, <2>3, <2>4 DEF TypeInv, Counted
  <1> QED
    BY <1>1, <1>2, <1>4, TypesKept

LEMMA BeginningsFit ==
  ASSUME TypeInv, NEW a \in Admin, NEW n \in Dlmc, NEW u \in 1..keys.user, NEW d \in 1..keys.dept,
         NEW p \in 1..keys.dept \cup {Root},
         \/ InsertUser(a, n, d) \/ UpdateUser(a, u, n, d) \/ DeleteUser(a, u)
         \/ InsertDept(a, p) \/ DeleteDept(a, d)
  PROVE  TypeInv'
  <1> DEFINE k == keys.dept
  <1>0. /\ k \in Nat /\ d \in Bmbh /\ d <= k /\ d # 0 /\ u \in Yhbh /\ u # 0
        /\ [dlmc |-> n, bmbh |-> d] \in User /\ p \in Bmbh \cup {Root} /\ p \in 0..k
    BY Bounds, NumberAssumption DEF TypeInv, User, Yhbh
  <1>1. /\ Idle \in Tx
        /\ Idle = [f \in Fields |-> Idle[f]] /\ Idle.bmbh = 0 /\ Idle.todo = <<>> /\ Idle.seen = {}
    BY <1>0, IdleFits DEF Idle, Fields
  <1> HIDE DEF k
  <1>2. CASE InsertUser(a, n, d)
    <2> DEFINE t == [Idle EXCEPT !.op = "insertUser", !.pc = "yhbh",
                                 !.user = [dlmc |-> n, bmbh |-> d]]
    <2>1. t \in Tx
      BY <1>0, <1>1 DEF Tx, Op, Pc
    <2>2. Fits(t, k)
      BY <1>1, <2>1 DEF Fits, Fields
    <2>3. Begin(a, t)
      BY <1>2 DEF InsertUser
    <2> HIDE DEF t
    <2> QED
      BY <2>2, <2>3, BeginFits DEF k
  <1>3. CASE UpdateUser(a, u, n, d)
    <2> DEFINE t == [Idle EXCEPT !.op = "updateUser", !.pc = "write", !.yhbh = u,
                                 !.user = [dlmc |-> n, bmbh |-> d]]
    <2>1. t \in Tx
      BY <1>0, <1>1 DEF Tx, Op, Pc
    <2>2. Fits(t, k)
      BY <1>0, <1>1, <2>1 DEF Fits, Fields
    <2>3. Begin(a, t)
      BY <1>3 DEF UpdateUser
    <2> HIDE DEF t
    <2> QED
      BY <2>2, <2>3, BeginFits DEF k
  <1>4. CASE DeleteUser(a, u)
    <2> DEFINE t == [Idle EXCEPT !.op = "deleteUser", !.pc = "write", !.yhbh = u]
    <2>1. t \in Tx
      BY <1>0, <1>1 DEF Tx, Op, Pc
    <2>2. Fits(t, k)
      BY <1>0, <1>1, <2>1 DEF Fits, Fields
    <2>3. Begin(a, t)
      BY <1>4 DEF DeleteUser
    <2> HIDE DEF t
    <2> QED
      BY <2>2, <2>3, BeginFits DEF k
  <1>5. CASE InsertDept(a, p)
    <2> DEFINE e == [Idle.dept EXCEPT !.bmpbh = p]
               t == [Idle EXCEPT !.op = "insertDept", !.pc = "bmbh", !.dept = e]
    <2>0. e \in Dept /\ e.bmpbh = p
      BY <1>0, <1>1 DEF Tx, Dept
    <2>3. Begin(a, t)
      <3>1. t = [Idle EXCEPT !.op = "insertDept", !.pc = "bmbh", !.dept.bmpbh = p]
        OBVIOUS
      <3> QED
        BY <1>5, <3>1 DEF InsertDept
    <2> HIDE DEF e
    <2>1. t \in Tx
      BY <1>0, <1>1, <2>0 DEF Tx, Op, Pc
    <2>2. Fits(t, k)
      BY <1>0, <1>1, <2>0, <2>1 DEF Fits, Fields, UserOp
    <2> HIDE DEF t
    <2> QED
      BY <2>2, <2>3, BeginFits DEF k
  <1>6. CASE DeleteDept(a, d)
    <2> DEFINE one == <<d>>
               t == [Idle EXCEPT !.op = "deleteDept", !.pc = "visit", !.todo = one]
    <2>0. one \in Seq(Bmbh) /\ one # <<>> /\ \A i \in DOMAIN one : one[i] = d
      BY <1>0
    <2>3. Begin(a, t)
      BY <1>6 DEF DeleteDept
    <2> HIDE DEF one
    <2>1. t \in Tx
      BY <1>0, <1>1, <2>0 DEF Tx, Op, Pc
    <2>2. Fits(t, k)
      BY <1>0, <1>1, <2>0, <2>1 DEF Fits, Fields
    <2> HIDE DEF t
    <2> QED
      BY <2>2, <2>3, BeginFits DEF k
  <1> QED
    BY <1>2, <1>3, <1>4, <1>5, <1>6

\* A number is drawn: the thread that counted for it does so no more.
LEMMA DrawFits ==
  ASSUME TypeInv, NEW a \in Admin, NEW t, NEW field \in {"user", "dept"},
         tx[a].pc = IF field = "user" THEN "yhbh" ELSE "bmbh",
         tx' = [tx EXCEPT ![a] = t], t.pc \notin {"yhbh", "bmbh"},
         keys' = [keys EXCEPT ![field] = @ + 1], UNCHANGED <<txs, Tables>>,
         keys.dept <= keys'.dept => Fits(t, keys'.dept)
  PROVE  TypeInv'
  <1>0. /\ keys.user \in Nat /\ keys.dept \in Nat /\ txs \in Nat /\ MaxTx \in Nat
        /\ txs <= MaxTx /\ keys.user > 0 /\ keys.dept > 0
    BY Bounds DEF TypeInv
  <1>1. /\ keys' = [user |-> keys'.user, dept |-> keys'.dept]
        /\ keys'.user = IF field = "user" THEN keys.user + 1 ELSE keys.user
        /\ keys'.dept = IF field = "dept" THEN keys.dept + 1 ELSE keys.dept
    BY DEF TypeInv, TypeOK
  <1>2. keys.dept <= keys'.dept
    BY <1>0, <1>1
  <1>3. tx'[a] = t /\ \A b \in Admin \ {a} : tx'[b] = tx[b]
    BY DEF TypeInv, TypeOK
  <1> DEFINE U == Draw("yhbh")
             D == Draw("bmbh")
  <1>4. /\ U' = IF field = "user" THEN U \ {a} ELSE U
        /\ D' = IF field = "dept" THEN D \ {a} ELSE D
        /\ field = "user" => a \in U
        /\ field = "dept" => a \in D
    BY <1>3 DEF Draw
  <1> HIDE DEF U, D
  <1>5. /\ IsFiniteSet(U) /\ IsFiniteSet(D)
        /\ keys.user + Cardinality(U) <= txs + 1 /\ keys.dept + Cardinality(D) <= txs + 2
    BY DEF TypeInv, Counted, U, D
  <1>6. Cardinality(U) \in Nat /\ Cardinality(D) \in Nat
    BY <1>5, FS_CardinalityType
  <1>7. /\ IsFiniteSet(U') /\ Cardinality(U') \in Nat
        /\ Cardinality(U') = IF field = "user" THEN Cardinality(U) - 1 ELSE Cardinality(U)
    <2>1. CASE field = "user"
      <3>1. IsFiniteSet(U \ {a}) /\ Cardinality(U \ {a}) = Cardinality(U) - 1
        BY <1>4, <1>5, <2>1, FS_RemoveElement
      <3> QED
        BY <1>4, <2>1, <3>1, FS_CardinalityType
    <2>2. CASE field # "user"
      BY <1>4, <1>5, <1>6, <2>2
    <2> QED
      BY <2>1, <2>2
  <1>8. /\ IsFiniteSet(D') /\ Cardinality(D') \in Nat
        /\ Cardinality(D') = IF field = "dept" THEN Cardinality(D) - 1 ELSE Cardinality(D)
    <2>1. CASE field = "dept"
      <3>1. IsFiniteSet(D \ {a}) /\ Cardinality(D \ {a}) = Cardinality(D) - 1
        BY <1>4, <1>5, <2>1, FS_RemoveElement
      <3> QED
        BY <1>4, <2>1, <3>1, FS_CardinalityType
    <2>2. CASE field # "dept"
      BY <1>4, <1>5, <1>6, <2>2
    <2> QED
      BY <2>1, <2>2
  <1>9. /\ keys'.user + Cardinality(U') <= txs' + 1
        /\ keys'.dept + Cardinality(D') <= txs' + 2
    BY <1>0, <1>1, <1>5, <1>6, <1>7, <1>8
  <1>10. Counted'
    BY <1>7, <1>8, <1>9 DEF Counted, U, D
  <1>11. keys' \in [user : Yhbh, dept : Bmbh]
    <2>1. keys'.user \in Yhbh /\ keys'.dept \in Bmbh
      BY <1>0, <1>1, <1>7, <1>8, <1>9 DEF Yhbh, Bmbh
    <2> QED
      BY <1>1, <2>1
  <1>12. txs' \in 0..MaxTx
    BY <1>0
  <1> QED
    BY <1>2, <1>10, <1>11, <1>12, TypesKept

\* Who draws a number has been counted for it.
LEMMA CountsLeft ==
  ASSUME TypeInv, NEW a \in Admin
  PROVE  /\ tx[a].pc = "yhbh" => keys.user <= MaxTx
         /\ tx[a].pc = "bmbh" => keys.dept <= MaxTx + 1
  <1>0. /\ keys.user \in Nat /\ keys.dept \in Nat /\ txs \in Nat /\ MaxTx \in Nat /\ txs <= MaxTx
    BY Bounds DEF TypeInv
  <1>1. ASSUME NEW S, a \in S, IsFiniteSet(S)
        PROVE  Cardinality(S) \in Nat /\ Cardinality(S) # 0
    BY <1>1, FS_CardinalityType, FS_EmptySet
  <1>2. CASE tx[a].pc = "yhbh"
    <2>1. a \in Draw("yhbh")
      BY <1>2 DEF Draw
    <2>2. Cardinality(Draw("yhbh")) \in Nat /\ Cardinality(Draw("yhbh")) # 0
      BY <1>1, <2>1 DEF TypeInv, Counted
    <2> QED
      BY <1>0, <1>2, <2>2 DEF TypeInv, Counted
  <1>3. CASE tx[a].pc = "bmbh"
    <2>1. a \in Draw("bmbh")
      BY <1>3 DEF Draw
    <2>2. Cardinality(Draw("bmbh")) \in Nat /\ Cardinality(Draw("bmbh")) # 0
      BY <1>1, <2>1 DEF TypeInv, Counted
    <2> QED
      BY <1>0, <1>3, <2>2 DEF TypeInv, Counted
  <1> QED
    BY <1>2, <1>3

LEMMA GotKeyFits ==
  ASSUME Inv, TypeInv, NEW a \in Admin, GotKey(a)
  PROVE  TypeInv'
  <1>0. /\ Well(tx[a]) /\ tx[a] \in Tx /\ Fits(tx[a], keys.dept)
        /\ keys.user \in Nat /\ keys.dept \in Nat
        /\ keys = [user |-> keys.user, dept |-> keys.dept]
    BY Bounds DEF Inv, Shape, TypeInv, TypeOK
  <1>1. CASE tx[a].pc = "yhbh"
    <2> DEFINE t == [[tx[a] EXCEPT !.reload = FALSE]
                       EXCEPT !.pc = "check", !.yhbh = Fresh(keys.user)]
    <2>1. /\ keys' = [keys EXCEPT !.user = @ + 1] /\ Goto(a, t)
      BY <1>0, <1>1 DEF GotKey, Fresh, Well, Fields
    <2>2. keys'.user = keys.user + 1 /\ keys'.dept = keys.dept
      BY <1>0, <2>1
    <2>3. t.pc = "check"
      BY <1>0 DEF Tx
    <2>4. ASSUME Fresh(keys.user) \in Yhbh PROVE t \in Tx /\ Fits(t, keys.dept)
      <3>1. t \in Tx
        BY <1>0, <2>4 DEF Tx, Op, Pc
      <3> QED
        BY <1>0, <1>1, <2>4, <3>1 DEF Fits, Tx, Yhbh
    <2>5. Fresh(keys.user) \in Yhbh
      BY <1>0, <1>1, BoundAssumption, CountsLeft DEF Fresh, Yhbh
    <2> HIDE DEF t
    <2> QED
      BY <1>1, <2>1, <2>2, <2>3, <2>4, <2>5, DrawFits DEF Goto
  <1>2. CASE tx[a].pc = "sqbh"
    <2> DEFINE t == [[tx[a] EXCEPT !.reload = FALSE] EXCEPT !.pc = "auth"]
    <2>1. Goto(a, t) /\ UNCHANGED keys
      BY <1>0, <1>2 DEF GotKey, Well, Fields
    <2>2. t \in Tx /\ t.pc = "auth"
      BY <1>0 DEF Tx, Op, Pc
    <2>3. Fits(t, keys.dept)
      BY <1>0, <1>2, <2>2 DEF Fits, Tx, Well
    <2> HIDE DEF t
    <2> QED
      BY <2>1, <2>2, <2>3, FittingStep
  <1>3. CASE tx[a].pc = "bmbh"
    <2> DEFINE t == [[tx[a] EXCEPT !.reload = FALSE]
                       EXCEPT !.pc = "parent", !.bmbh = Fresh(keys.dept)]
    <2>1. /\ keys' = [keys EXCEPT !.dept = @ + 1] /\ Goto(a, t)
      BY <1>0, <1>3 DEF GotKey, Fresh, Well, Fields
    <2>2. keys'.user = keys.user /\ keys'.dept = keys.dept + 1
      BY <1>0, <2>1
    <2>3. t.pc = "parent"
      BY <1>0 DEF Tx
    <2>4. Fresh(keys.dept) \in Bmbh
      BY <1>0, <1>3, BoundAssumption, CountsLeft DEF Fresh, Bmbh
    <2>5. t \in Tx
      BY <1>0, <2>4 DEF Tx, Op, Pc
    <2>6. Fits(t, keys.dept + 1)
      <3>1. Fits(tx[a], keys.dept + 1)
        BY <1>0, FitsOn
      <3>2. /\ tx[a].op = "insertDept" /\ tx[a].dept.bmpbh \in 0..keys.dept
        BY <1>0, <1>3 DEF Fits, Well
      <3>3. /\ t.bmbh = keys.dept + 1 /\ t.op = "insertDept" /\ t.dept = tx[a].dept
            /\ t.todo = tx[a].todo /\ t.seen = tx[a].seen
        BY <1>0, <3>2 DEF Tx, Fresh
      <3> HIDE DEF t
      <3> QED
        BY <1>0, <2>3, <2>5, <3>1, <3>2, <3>3 DEF Fits, UserOp
    <2> HIDE DEF t
    <2> QED
      BY <1>3, <2>1, <2>2, <2>3, <2>6, DrawFits DEF Goto
  <1> QED
    BY <1>0, <1>1, <1>2, <1>3 DEF GotKey, Well, Fields

LEMMA UsedUpFits ==
  ASSUME TypeInv, NEW a \in Admin, UsedUp(a)
  PROVE  TypeInv'
  <1> DEFINE t == [tx[a] EXCEPT !.reload = TRUE]
  <1>1. tx[a] \in Tx /\ Fits(tx[a], keys.dept)
    BY DEF TypeInv, TypeOK
  <1>2. t \in Tx /\ t.pc = tx[a].pc
    BY <1>1 DEF Tx
  <1>3. Fits(t, keys.dept)
    BY <1>1, <1>2 DEF Fits, Tx
  <1>4. Goto(a, t) /\ UNCHANGED keys
    BY DEF UsedUp
  <1> HIDE DEF t
  <1> QED
    BY <1>2, <1>3, <1>4, FittingStep

LEMMA CheckFits ==
  ASSUME Inv, TypeInv, NEW a \in Admin, Check(a)
  PROVE  TypeInv'
  <1> DEFINE t == [tx[a] EXCEPT !.pc = IF tx[a].user.dlmc \in DOMAIN auth
                                       THEN "write" ELSE "sqbh"]
  <1>1. /\ tx[a] \in Tx /\ Fits(tx[a], keys.dept)
        /\ tx[a].pc = "check" /\ tx[a].op = "insertUser"
    BY DEF TypeInv, TypeOK, Check, Inv, Shape, Well
  <1>2. t \in Tx /\ t.pc \in {"write", "sqbh"}
    BY <1>1 DEF Tx, Pc
  <1>3. Fits(t, keys.dept)
    BY <1>1, <1>2 DEF Fits, Tx, UserOp
  <1>4. Goto(a, t) /\ UNCHANGED keys
    BY DEF Check
  <1> HIDE DEF t
  <1> QED
    BY <1>2, <1>3, <1>4, FittingStep

LEMMA InsertAuthFits ==
  ASSUME Inv, TypeInv, NEW a \in Admin, InsertAuth(a)
  PROVE  TypeInv'
  <1>1. CASE Duplicate(a)
    BY <1>1, EndFits DEF InsertAuth
  <1>2. CASE ~Duplicate(a)
    <2> DEFINE t == [tx[a] EXCEPT !.pc = "write", !.sqbh = TRUE]
    <2>1. /\ tx[a] \in Tx /\ Fits(tx[a], keys.dept)
          /\ tx[a].pc = "auth" /\ tx[a].op = "insertUser"
      BY DEF TypeInv, TypeOK, InsertAuth, Inv, Shape, Well
    <2>2. t \in Tx /\ t.pc = "write"
      BY <2>1 DEF Tx, Pc
    <2>3. Fits(t, keys.dept)
      BY <2>1, <2>2 DEF Fits, Tx, UserOp
    <2>4. Goto(a, t) /\ UNCHANGED keys
      BY <1>2 DEF InsertAuth
    <2> HIDE DEF t
    <2> QED
      BY <2>2, <2>3, <2>4, FittingStep
  <1> QED
    BY <1>1, <1>2

LEMMA WriteFits ==
  ASSUME Inv, TypeInv, NEW a \in Admin, WriteInsert(a) \/ WriteUpdate(a) \/ WriteDelete(a)
  PROVE  TypeInv'
  <1>1. CASE Ends(a)
    BY <1>1, EndFits
  <1>2. CASE ~Ends(a)
    <2>1. PICK cut \in SUBSET Link : Written(a, cut) /\ tx[a].pc = "write" /\ tx[a].op \in UserOp
      <3>1. LinksOf(tx[a].yhbh) \in SUBSET Link /\ {} \in SUBSET Link
        BY DEF LinksOf, TypeInv, TypeOK
      <3> QED
        BY <1>2, <3>1 DEF WriteInsert, WriteUpdate, WriteDelete, UserOp
    <2> DEFINE t == [tx[a] EXCEPT !.pc = "commit", !.cut = cut]
    <2>2. tx[a] \in Tx /\ Fits(tx[a], keys.dept)
      BY DEF TypeInv, TypeOK
    <2>3. t \in Tx /\ t.pc = "commit"
      BY <2>2 DEF Tx, Pc
    <2>4. Fits(t, keys.dept)
      BY <2>1, <2>2, <2>3 DEF Fits, Tx, UserOp
    <2>5. Goto(a, t) /\ UNCHANGED keys
      BY <2>1 DEF Written
    <2> HIDE DEF t
    <2> QED
      BY <2>3, <2>4, <2>5, FittingStep
  <1> QED
    BY <1>1, <1>2

LEMMA ParentHasNumber ==
  ASSUME NEW t, NEW k, Fits(t, k), t.op = "insertDept", t.pc = "parent"
  PROVE  t.bmbh \in Bmbh /\ t.dept.bmpbh < t.bmbh
  BY DEF Fits, Tx

LEMMA ParentFits ==
  ASSUME Inv, TypeInv, NEW a \in Admin, Parent(a)
  PROVE  TypeInv'
  <1>1. CASE Ends(a)
    BY <1>1, EndFits
  <1>2. CASE ~Ends(a)
    <2> DEFINE p == tx[a].dept.bmpbh
               e == [tx[a].dept EXCEPT !.bmcj = depts[p].bmcj + 1, !.bmlj = Path(p, tx[a].bmbh)]
               t == [tx[a] EXCEPT !.pc = "commit", !.dept = e]
    <2>1. /\ tx[a] \in Tx /\ Fits(tx[a], keys.dept) /\ p \in DOMAIN depts
          /\ tx[a].pc = "parent" /\ tx[a].op = "insertDept"
      BY <1>2 DEF TypeInv, TypeOK, Parent, Inv, Shape, Well
    <2>2. Goto(a, t) /\ UNCHANGED keys
      <3>1. t = [tx[a] EXCEPT !.pc = "commit", !.dept.bmcj = depts[p].bmcj + 1,
                              !.dept.bmlj = Path(p, tx[a].bmbh)]
        BY <2>1 DEF Tx, Dept
      <3> QED
        BY <1>2, <2>1, <3>1 DEF Parent
    <2>3. /\ tx[a].bmbh \in Bmbh /\ p < tx[a].bmbh /\ p \in Nat
          /\ depts[p] \in Dept /\ depts[p].bmcj \in Nat /\ depts[p].bmcj < p
          /\ p \in 1..keys.dept
      <3>1. tx[a].bmbh \in Bmbh /\ p < tx[a].bmbh
        BY <2>1, ParentHasNumber
      <3>2. depts[p] \in Dept /\ depts[p].bmcj < p /\ p \in Bmbh /\ p <= keys.dept
        BY <2>1 DEF TypeInv, TypeOK, DeptsFit
      <3>3. keys.dept \in Nat
        BY Bounds DEF TypeInv
      <3> HIDE DEF p
      <3> QED
        BY <3>1, <3>2, <3>3, BoundAssumption DEF Dept, Bmbh
    <2>4. e.bmcj \in 0..(MaxTx + 1) /\ e.bmcj < tx[a].bmbh /\ e.bmpbh = p
      <3>1. e.bmcj = depts[p].bmcj + 1 /\ e.bmpbh = p
        BY <2>1 DEF Tx, Dept
      <3>2. MaxTx \in Nat /\ tx[a].bmbh \in Nat /\ tx[a].bmbh <= MaxTx + 2
        BY <2>3, BoundAssumption DEF Bmbh
      <3> HIDE DEF e, p
      <3> QED
        BY <2>3, <3>1, <3>2
    <2>5. e \in Dept
      <3>1. Path(p, tx[a].bmbh) \in Seq(Bmbh)
        BY <2>3 DEF Path, Dept
      <3> QED
        BY <2>1, <2>4, <3>1 DEF Tx, Dept
    <2> HIDE DEF e
    <2>6. t \in Tx /\ t.pc = "commit" /\ t.dept = e /\ t.bmbh = tx[a].bmbh
      BY <2>1, <2>5 DEF Tx, Pc
    <2>7. Fits(t, keys.dept)
      BY <2>1, <2>3, <2>4, <2>6 DEF Fits, Tx, UserOp
    <2> HIDE DEF t
    <2> QED
      BY <2>2, <2>6, <2>7, FittingStep
  <1> QED
    BY <1>1, <1>2

\* What a query finds is a list of all the rows there are.
LEMMA FoundAll ==
  ASSUME NEW S, IsFiniteSet(S), NEW found \in SetToSeqs(S)
  PROVE  found \in Seq(S) /\ \A c \in S : \E i \in DOMAIN found : found[i] = c
  <1> DEFINE n == Cardinality(S)
  <1>1. n \in Nat /\ IsFiniteSet(1..n) /\ Cardinality(1..n) = n
    BY FS_CardinalityType, FS_Interval
  <1>2. found \in Injection(1..n, S)
    <2>1. /\ found \in [1..n -> S]
          /\ \A i, j \in 1..n : i # j => found[i] # found[j]
      BY Zenon DEF SetToSeqs
    <2> HIDE DEF n
    <2> QED
      BY <2>1 DEF Injection, IsInjective
  <1>3. found \in Surjection(1..n, S)
    BY <1>1, <1>2, FS_Injection
  <1> QED
    BY <1>1, <1>3 DEF Surjection

LEMMA ChildrenFit ==
  ASSUME TypeInv, NEW d
  PROVE  IsFiniteSet(DOMAIN depts) /\ IsFiniteSet(Children(d)) /\ Children(d) \subseteq Bmbh
  <1>1. Bmbh = 1..(MaxTx + 2) /\ MaxTx + 2 \in Int /\ 1 \in Int
    BY BoundAssumption DEF Bmbh
  <1>2. IsFiniteSet(Bmbh)
    BY <1>1, FS_Interval
  <1>3. DOMAIN depts \in SUBSET Bmbh /\ Children(d) \in SUBSET Bmbh
    BY DEF TypeInv, TypeOK, Children
  <1> QED
    BY <1>2, <1>3, FS_Subset

LEMMA VisitFits ==
  ASSUME Inv, TypeInv, NEW a \in Admin, Visit(a)
  PROVE  TypeInv'
  <1> DEFINE d == Head(tx[a].todo)
             open(found) == [tx[a] EXCEPT !.seen = @ \cup {d}, !.todo = found \o @]
             close == [tx[a] EXCEPT !.gone = @ \cup {d}, !.todo = Tail(@),
                                    !.cut = @ \cup {l \in links : l.of = d},
                                    !.pc = IF Len(tx[a].todo) = 1 THEN "commit" ELSE "visit"]
  <1>1. /\ tx[a] \in Tx /\ Fits(tx[a], keys.dept)
        /\ tx[a].pc = "visit" /\ tx[a].op = "deleteDept"
    BY DEF Visit, Inv, Shape, Well, TypeInv, TypeOK
  <1>2. tx[a].todo \in Seq(Bmbh) /\ tx[a].todo # <<>> /\ tx[a].seen \subseteq Bmbh
    BY <1>1 DEF Fits, Tx
  <1>3. d \in Bmbh /\ d <= keys.dept /\ d = tx[a].todo[1]
    BY <1>1, <1>2 DEF Fits
  <1>4. ASSUME NEW found \in SetToSeqs(Children(d)), Goto(a, open(found)), UNCHANGED keys
        PROVE  TypeInv'
    <2> DEFINE todo == found \o tx[a].todo
    <2>1. found \in Seq(Children(d)) /\ found \in Seq(Bmbh)
      BY ChildrenFit, FoundAll
    <2>2. \A i \in DOMAIN found : found[i] <= keys.dept
      BY <2>1 DEF Children, TypeInv, DeptsFit
    <2>3. todo \in Seq(Bmbh) /\ todo # <<>> /\ \A i \in DOMAIN todo : todo[i] <= keys.dept
      BY <1>1, <1>2, <2>1, <2>2 DEF Fits
    <2> DEFINE t == [tx[a] EXCEPT !.seen = @ \cup {d}, !.todo = todo]
    <2>4. Goto(a, t)
      BY <1>4
    <2> HIDE DEF todo, d
    <2>5. /\ t \in Tx /\ t.pc = "visit" /\ t.op = "deleteDept" /\ t.todo = todo
          /\ t.seen = tx[a].seen \cup {d} /\ t.bmbh = tx[a].bmbh
      BY <1>1, <1>2, <1>3, <2>3 DEF Tx
    <2> HIDE DEF t
    <2>6. Fits(t, keys.dept)
      BY <1>1, <1>3, <2>3, <2>5 DEF Fits, UserOp
    <2> QED
      BY <1>4, <2>4, <2>5, <2>6, FittingStep
  <1>5. ASSUME Goto(a, close), UNCHANGED keys
        PROVE  TypeInv'
    <2> DEFINE todo == Tail(tx[a].todo)
               cut == tx[a].cut \cup {l \in links : l.of = d}
               pc == IF Len(tx[a].todo) = 1 THEN "commit" ELSE "visit"
               t == [tx[a] EXCEPT !.gone = @ \cup {d}, !.todo = todo, !.cut = cut, !.pc = pc]
    <2>1. /\ todo \in Seq(Bmbh) /\ \A i \in DOMAIN todo : todo[i] <= keys.dept
          /\ pc = "visit" => todo # <<>>
      <3>1. /\ todo \in Seq(Bmbh) /\ Len(todo) = Len(tx[a].todo) - 1
            /\ \A i \in 1..Len(todo) : todo[i] = tx[a].todo[i + 1]
        BY <1>2
      <3>2. \A i \in 1..Len(todo) : i + 1 \in DOMAIN tx[a].todo
        BY <1>2, <3>1
      <3>3. Len(tx[a].todo) # 1 => todo # <<>>
        <4>1. Len(tx[a].todo) \in Nat \ {0}
          BY <1>2
        <4> HIDE DEF todo
        <4>2. todo = <<>> => Len(todo) = 0
          OBVIOUS
        <4> QED
          BY <3>1, <4>1, <4>2
      <3> HIDE DEF todo
      <3> QED
        BY <1>1, <3>1, <3>2, <3>3 DEF Fits
    <2>2. cut \subseteq Link /\ pc \in {"commit", "visit"}
      BY <1>1 DEF Tx, TypeInv, TypeOK
    <2>3. Goto(a, t)
      BY <1>5
    <2> HIDE DEF todo, cut, pc, d
    <2>4. /\ t \in Tx /\ t.pc = pc /\ t.op = "deleteDept" /\ t.todo = todo
          /\ t.seen = tx[a].seen /\ t.bmbh = tx[a].bmbh
      BY <1>1, <1>2, <1>3, <2>1, <2>2 DEF Tx, Pc
    <2> HIDE DEF t
    <2>5. Fits(t, keys.dept)
      BY <1>1, <2>1, <2>2, <2>4 DEF Fits, UserOp
    <2> QED
      BY <1>5, <2>2, <2>3, <2>4, <2>5, FittingStep
  <1> QED
    BY <1>4, <1>5 DEF Visit

\* A transaction that changes tables ends: its thread is idle.
LEMMA CommitFits ==
  ASSUME TypeInv, NEW a \in Admin, tx' = [tx EXCEPT ![a] = Idle], UNCHANGED <<keys, txs>>
  PROVE  /\ tx' \in [Admin -> Tx] /\ \A b \in Admin : Fits(tx'[b], keys'.dept)
         /\ Counted'
  <1>1. /\ keys' \in [user : Yhbh, dept : Bmbh] /\ keys.dept <= keys'.dept
        /\ Fits(Idle, keys'.dept)
    BY Bounds, IdleFits DEF TypeInv, TypeOK
  <1>2. /\ tx' \in [Admin -> Tx] /\ tx'[a] = Idle
        /\ \A b \in Admin \ {a} : tx'[b] = tx[b]
        /\ \A b \in Admin : Fits(tx'[b], keys'.dept)
    BY <1>1, OthersKept
  <1>3. Idle.pc = "idle"
    BY DEF Idle
  <1>4. Counted'
    BY <1>2, <1>3, CountKept
  <1> QED
    BY <1>2, <1>4

LEMMA CommitUserFits ==
  ASSUME TypeInv, NEW a \in Admin, CommitUser(a)
  PROVE  TypeInv'
  <1> DEFINE t == tx[a]
  <1>1. /\ t \in Tx /\ Fits(t, keys.dept) /\ t.pc = "commit" /\ t.op \in UserOp
        /\ UNCHANGED <<depts, keys, txs, late, overlapped>>
    BY DEF CommitUser, TypeInv, TypeOK, UserOp
  <1>2. t.yhbh \in Yhbh /\ t.user \in User /\ t.user.dlmc \in Dlmc
    BY <1>1 DEF Fits, Tx, User
  <1>3. /\ tx' \in [Admin -> Tx] /\ \A b \in Admin : Fits(tx'[b], keys'.dept)
        /\ Counted'
    BY CommitFits DEF CommitUser
  <1>4. DOMAIN users' \subseteq Yhbh /\ users' \in [DOMAIN users' -> User]
    <2>1. CASE t.op = "deleteUser"
      <3>1. users' = [u \in DOMAIN users \ {t.yhbh} |-> users[u]]
        BY <2>1 DEF CommitUser, Without
      <3> QED
        BY <3>1 DEF TypeInv, TypeOK
    <2>2. CASE t.op # "deleteUser"
      <3>1. users' = [u \in DOMAIN users \cup {t.yhbh} |->
                        IF u = t.yhbh THEN t.user ELSE users[u]]
        BY <2>2 DEF CommitUser, With
      <3>2. DOMAIN users \subseteq Yhbh /\ \A u \in DOMAIN users : users[u] \in User
        BY DEF TypeInv, TypeOK
      <3> QED
        BY <1>2, <3>1, <3>2
    <2> QED
      BY <2>1, <2>2
  <1>5. DOMAIN auth' \subseteq Dlmc /\ auth' \in [DOMAIN auth' -> Yhbh]
    <2>1. CASE t.sqbh
      <3>1. auth' = [n \in DOMAIN auth \cup {t.user.dlmc} |->
                       IF n = t.user.dlmc THEN t.yhbh ELSE auth[n]]
        BY <2>1 DEF CommitUser, With
      <3>2. DOMAIN auth \subseteq Dlmc /\ \A n \in DOMAIN auth : auth[n] \in Yhbh
        BY DEF TypeInv, TypeOK
      <3> QED
        BY <1>2, <3>1, <3>2
    <2>2. CASE ~t.sqbh
      BY <2>2 DEF CommitUser, TypeInv, TypeOK
    <2> QED
      BY <2>1, <2>2
  <1>6. DOMAIN first' \subseteq Dlmc /\ first' \in [DOMAIN first' -> Yhbh]
    <2>1. CASE t.op = "insertUser" /\ t.user.dlmc \notin DOMAIN first
      <3>1. first' = [n \in DOMAIN first \cup {t.user.dlmc} |->
                        IF n = t.user.dlmc THEN t.yhbh ELSE first[n]]
        BY <2>1 DEF CommitUser, With
      <3>2. DOMAIN first \subseteq Dlmc /\ \A n \in DOMAIN first : first[n] \in Yhbh
        BY DEF TypeInv, TypeOK
      <3> QED
        BY <1>2, <3>1, <3>2
    <2>2. CASE ~(t.op = "insertUser" /\ t.user.dlmc \notin DOMAIN first)
      <3>1. first' = first
        BY <2>2 DEF CommitUser
      <3> QED
        BY <3>1 DEF TypeInv, TypeOK
    <2> QED
      BY <2>1, <2>2
  <1>7. links' \subseteq Link
    BY DEF CommitUser, TypeInv, TypeOK
  <1>8. TypeOK'
    BY <1>1, <1>3, <1>4, <1>5, <1>6, <1>7 DEF TypeInv, TypeOK
  <1> QED
    BY <1>1, <1>3, <1>8 DEF TypeInv, DeptsFit

LEMMA CommitInsertFits ==
  ASSUME TypeInv, NEW a \in Admin, CommitInsert(a)
  PROVE  TypeInv'
  <1> DEFINE t == tx[a]
  <1>1. /\ t \in Tx /\ Fits(t, keys.dept) /\ t.pc = "commit" /\ t.op = "insertDept"
        /\ UNCHANGED <<users, auth, links, keys, txs, first, late>>
        /\ overlapped' \in BOOLEAN
    BY DEF CommitInsert, TypeInv, TypeOK
  <1>2. /\ t.bmbh \in Bmbh /\ t.bmbh <= keys.dept /\ t.dept \in Dept
        /\ t.dept.bmpbh < t.bmbh /\ t.dept.bmcj < t.bmbh
    BY <1>1 DEF Fits, Tx
  <1>3. /\ tx' \in [Admin -> Tx] /\ \A b \in Admin : Fits(tx'[b], keys'.dept)
        /\ Counted'
    BY <1>1, CommitFits DEF CommitInsert
  <1>4. depts' = [d \in DOMAIN depts \cup {t.bmbh} |-> IF d = t.bmbh THEN t.dept ELSE depts[d]]
    BY DEF CommitInsert, With
  <1> HIDE DEF t
  <1>5. DOMAIN depts' \subseteq Bmbh /\ depts' \in [DOMAIN depts' -> Dept]
    <2>1. DOMAIN depts \subseteq Bmbh /\ \A d \in DOMAIN depts : depts[d] \in Dept
      BY DEF TypeInv, TypeOK
    <2> QED
      BY <1>2, <1>4, <2>1
  <1>6. DeptsFit'
    BY <1>1, <1>2, <1>4 DEF TypeInv, DeptsFit
  <1>7. TypeOK'
    BY <1>1, <1>3, <1>5 DEF TypeInv, TypeOK
  <1> QED
    BY <1>3, <1>6, <1>7 DEF TypeInv

LEMMA CommitDeleteFits ==
  ASSUME TypeInv, NEW a \in Admin, CommitDelete(a)
  PROVE  TypeInv'
  <1>1. UNCHANGED <<users, auth, keys, txs, first, late>> /\ overlapped' \in BOOLEAN
    BY DEF CommitDelete, TypeInv, TypeOK
  <1>2. /\ tx' \in [Admin -> Tx] /\ \A b \in Admin : Fits(tx'[b], keys'.dept)
        /\ Counted'
    BY <1>1, CommitFits DEF CommitDelete
  <1>3. depts' = [d \in DOMAIN depts \ tx[a].gone |-> depts[d]] /\ links' \subseteq Link
    BY DEF CommitDelete, Without, TypeInv, TypeOK
  <1>4. DOMAIN depts' \subseteq Bmbh /\ depts' \in [DOMAIN depts' -> Dept]
    BY <1>3 DEF TypeInv, TypeOK
  <1>5. DeptsFit'
    BY <1>1, <1>3 DEF TypeInv, DeptsFit
  <1>6. TypeOK'
    BY <1>1, <1>2, <1>3, <1>4 DEF TypeInv, TypeOK
  <1> QED
    BY <1>2, <1>5, <1>6 DEF TypeInv

LEMMA AloneFits ==
  ASSUME TypeInv, Alone, Another,
         links' \subseteq Link, late' \subseteq Link,
         DOMAIN users' \subseteq Yhbh, users' \in [DOMAIN users' -> User]
  PROVE  TypeInv'
  <1>1. /\ UNCHANGED <<auth, depts, tx, keys, first, overlapped>> /\ txs' = txs + 1 /\ txs < MaxTx
        /\ MaxTx \in Nat /\ txs \in Nat /\ keys.user \in Nat /\ keys.dept \in Nat
    BY Bounds DEF Alone, Another, TypeInv
  <1>2. TypeOK'
    BY <1>1 DEF TypeInv, TypeOK
  <1>3. Counted'
    <2> DEFINE U == Draw("yhbh")
               D == Draw("bmbh")
    <2>1. U' = U /\ D' = D
      BY <1>1 DEF Draw
    <2> HIDE DEF U, D
    <2>2. /\ IsFiniteSet(U) /\ keys.user + Cardinality(U) <= txs + 1
          /\ IsFiniteSet(D) /\ keys.dept + Cardinality(D) <= txs + 2
      BY DEF TypeInv, Counted, U, D
    <2>3. Cardinality(U) \in Nat /\ Cardinality(D) \in Nat
      BY <2>2, FS_CardinalityType
    <2>4. /\ IsFiniteSet(U') /\ keys'.user + Cardinality(U') <= txs' + 1
          /\ IsFiniteSet(D') /\ keys'.dept + Cardinality(D') <= txs' + 2
      BY <1>1, <2>1, <2>2, <2>3
    <2> QED
      BY <2>4 DEF Counted, U, D
  <1> QED
    BY <1>1, <1>2, <1>3 DEF TypeInv, DeptsFit

LEMMA OneStepsFit ==
  ASSUME TypeInv, NEW u \in 1..keys.user, NEW d \in 1..keys.dept \cup {0},
         NEW S, NEW e \in 1..keys.dept,
         \/ AddLink([of |-> d, yhbh |-> u]) \/ DelLink([of |-> d, yhbh |-> u])
         \/ UpdateUsersBmbh(S, e)
  PROVE  TypeInv'
  <1> DEFINE l == [of |-> d, yhbh |-> u]
  <1>1. l \in Link /\ e \in Bmbh
    BY Bounds DEF TypeInv, Link
  <1> HIDE DEF l
  <1>2. CASE AddLink(l) \/ DelLink(l)
    <2>1. Alone /\ Another /\ users' = users
      BY <1>2 DEF AddLink, DelLink
    <2>2. links' \subseteq Link /\ late' \subseteq Link
      BY <1>1, <1>2 DEF AddLink, DelLink, TypeInv, TypeOK
    <2> QED
      BY <2>1, <2>2, AloneFits DEF TypeInv, TypeOK
  <1>3. CASE UpdateUsersBmbh(S, e)
    <2>1. /\ Alone /\ Another /\ UNCHANGED <<links, late>>
          /\ users' = [u_1 \in DOMAIN users |-> IF u_1 \in S THEN [users[u_1] EXCEPT !.bmbh = e]
                                             ELSE users[u_1]]
      BY <1>3 DEF UpdateUsersBmbh
    <2>2. users \in [DOMAIN users -> User]
      BY DEF TypeInv, TypeOK
    <2>3. \A v \in DOMAIN users : [users[v] EXCEPT !.bmbh = e] \in User
      BY <1>1, <2>2 DEF User
    <2>4. DOMAIN users' \subseteq Yhbh /\ users' \in [DOMAIN users' -> User]
      BY <2>1, <2>2, <2>3 DEF TypeInv, TypeOK
    <2> QED
      BY <2>1, <2>4, AloneFits DEF TypeInv, TypeOK
  <1> QED
    BY <1>2, <1>3 DEF l

LEMMA InitFits == Init => TypeInv
  <1> SUFFICES ASSUME Init PROVE TypeInv
    OBVIOUS
  <1>0. MaxTx \in Nat /\ Shipped \in Dlmc /\ Root = 0
    BY BoundAssumption, NameAssumption, NumberAssumption
  <1>1. \A a \in Admin : tx[a] \in Tx /\ Fits(tx[a], keys.dept) /\ tx[a].pc = "idle"
    BY IdleFits DEF Init
  <1>2. DOMAIN users \subseteq Yhbh /\ users \in [DOMAIN users -> User]
    <2>1. users = <<[dlmc |-> Shipped, bmbh |-> 1]>> /\ [dlmc |-> Shipped, bmbh |-> 1] \in User
      BY <1>0 DEF Init, User, Bmbh
    <2>2. DOMAIN users = {1} /\ users[1] \in User
      BY <2>1
    <2> QED
      BY <1>0, <2>1, <2>2 DEF Yhbh
  <1>3. /\ DOMAIN auth \subseteq Dlmc /\ auth \in [DOMAIN auth -> Yhbh]
        /\ DOMAIN first \subseteq Dlmc /\ first \in [DOMAIN first -> Yhbh]
    BY <1>0 DEF Init, Yhbh
  <1>4. /\ DOMAIN depts = {1, 2} /\ depts[1] \in Dept /\ depts[2] \in Dept
        /\ depts[1].bmpbh = 0 /\ depts[1].bmcj = 0 /\ depts[2].bmpbh = 1 /\ depts[2].bmcj = 1
        /\ depts = [d \in {1, 2} |-> depts[d]]
    <2> DEFINE x == [bmpbh |-> Root, bmcj |-> 0, bmlj |-> <<1>>]
               y == [bmpbh |-> 1, bmcj |-> 1, bmlj |-> <<1, 2>>]
    <2>1. depts = <<x, y>>
      BY DEF Init
    <2>2. <<1>> \in Seq(Bmbh) /\ <<1, 2>> \in Seq(Bmbh)
      BY <1>0 DEF Bmbh
    <2>3. x \in Dept /\ y \in Dept /\ x.bmpbh = 0 /\ x.bmcj = 0 /\ y.bmpbh = 1 /\ y.bmcj = 1
      BY <1>0, <2>2 DEF Dept, Bmbh
    <2> HIDE DEF x, y
    <2> QED
      BY <2>1, <2>3
  <1>5. /\ keys = [user |-> 1, dept |-> 2] /\ txs = 0 /\ links = {} /\ late = {}
        /\ overlapped = FALSE /\ tx = [a \in Admin |-> tx[a]]
    BY DEF Init
  <1>6. TypeOK
    <2>1. DOMAIN depts \subseteq Bmbh /\ depts \in [DOMAIN depts -> Dept]
      BY <1>0, <1>4 DEF Bmbh
    <2>2. keys \in [user : Yhbh, dept : Bmbh] /\ txs \in 0..MaxTx
      BY <1>0, <1>5 DEF Yhbh, Bmbh
    <2> QED
      BY <1>1, <1>2, <1>3, <1>5, <2>1, <2>2 DEF TypeOK
  <1>7. DeptsFit
    BY <1>4, <1>5 DEF DeptsFit
  <1>8. Counted
    <2>1. Draw("yhbh") = {} /\ Draw("bmbh") = {}
      BY <1>1 DEF Draw
    <2>2. /\ IsFiniteSet(Draw("yhbh")) /\ Cardinality(Draw("yhbh")) = 0
          /\ IsFiniteSet(Draw("bmbh")) /\ Cardinality(Draw("bmbh")) = 0
      BY <2>1, FS_EmptySet
    <2> QED
      BY <1>5, <2>2 DEF Counted
  <1> QED
    BY <1>1, <1>6, <1>7, <1>8 DEF TypeInv

LEMMA NextFits == Inv /\ TypeInv /\ [Next]_vars => TypeInv'
  <1> SUFFICES ASSUME Inv, TypeInv, [Next]_vars PROVE TypeInv'
    OBVIOUS
  <1>1. ASSUME NEW a \in Admin, Proceed(a) PROVE TypeInv'
    <2>1. CASE NextKey(a) \/ Reload(a)
      BY <2>1, GotKeyFits DEF NextKey, Reload
    <2>2. CASE UsedUp(a)
      BY <2>2, UsedUpFits
    <2>3. CASE GivesUp(a)
      BY <2>3, EndFits DEF GivesUp
    <2>4. CASE Check(a) \/ InsertAuth(a)
      BY <2>4, CheckFits, InsertAuthFits
    <2>5. CASE WriteInsert(a) \/ WriteUpdate(a) \/ WriteDelete(a)
      BY <2>5, WriteFits
    <2>6. CASE CommitUser(a)
      BY <2>6, CommitUserFits
    <2>7. CASE Parent(a) \/ Visit(a)
      BY <2>7, ParentFits, VisitFits
    <2>8. CASE CommitInsert(a) \/ CommitDelete(a)
      BY <2>8, CommitInsertFits, CommitDeleteFits
    <2> QED
      BY <1>1, <2>1, <2>2, <2>3, <2>4, <2>5, <2>6, <2>7, <2>8 DEF Proceed
  <1>2. ASSUME NEW a \in Admin, Rollback(a) PROVE TypeInv'
    BY <1>2, EndFits DEF Rollback
  <1>3. CASE UNCHANGED vars
    <2>1. UNCHANGED <<users, auth, depts, links, tx, keys, txs, first, late, overlapped>>
      BY <1>3 DEF vars
    <2>2. TypeOK' /\ DeptsFit' /\ \A a \in Admin : Fits(tx[a], keys.dept)'
      BY <2>1 DEF TypeInv, TypeOK, DeptsFit, Fits
    <2>3. Counted'
      BY <2>1 DEF TypeInv, Counted, Draw
    <2> QED
      BY <2>2, <2>3 DEF TypeInv
  <1>4. /\ ShownUsers \subseteq 1..keys.user /\ ShownDepts \subseteq 1..keys.dept
        /\ 1 \in 1..keys.user /\ 1 \in 1..keys.dept /\ Shipped \in Dlmc
    BY Bounds, NameAssumption DEF ShownUsers, ShownDepts, TypeInv
  <1>5. ASSUME NEW a \in Admin, NEW n \in Dlmc, NEW d \in ShownDepts,
               InsertUser(a, n, d) \/ \E u \in ShownUsers : UpdateUser(a, u, n, d)
        PROVE  TypeInv'
    BY <1>4, <1>5, BeginningsFit
  <1>6. ASSUME NEW a \in Admin, NEW u \in ShownUsers, DeleteUser(a, u)
        PROVE  TypeInv'
    BY <1>4, <1>6, BeginningsFit
  <1>7. ASSUME NEW a \in Admin, \/ \E d \in ShownDepts \cup {Root} : InsertDept(a, d)
                                \/ \E d \in ShownDepts : DeleteDept(a, d)
        PROVE  TypeInv'
    BY <1>4, <1>7, BeginningsFit
  <1>8. ASSUME NEW u \in ShownUsers, NEW d \in ShownDepts \cup {0},
               AddLink([of |-> d, yhbh |-> u]) \/ DelLink([of |-> d, yhbh |-> u])
        PROVE  TypeInv'
    BY <1>4, <1>8, OneStepsFit
  <1>9. ASSUME NEW S, NEW d \in ShownDepts, UpdateUsersBmbh(S, d)
        PROVE  TypeInv'
    BY <1>4, <1>9, OneStepsFit
  <1> QED
    BY <1>1, <1>2, <1>3, <1>5, <1>6, <1>7, <1>8, <1>9 DEF Next

\* Theorem.  The variables keep their types: no number is used that was not handed
\* out, a user that is stored has one, and the level of a department stays within
\* the number of departments there ever were.
THEOREM TypesAreRight == Spec => []TypeOK
  <1>1. Init => Inv /\ TypeInv
    BY InitInv, InitFits
  <1>2. Inv /\ TypeInv /\ [Next]_vars => (Inv /\ TypeInv)'
    BY NextInv, NextFits
  <1>3. TypeInv => TypeOK
    BY DEF TypeInv
  <1> QED
    BY <1>1, <1>2, <1>3, PTL DEF Spec

-----------------------------------------------------------------------------
(* Departments *)

\* The number of a department that is being inserted is nobody else's.
Pending ==
    \A a \in Admin : tx[a].bmbh # 0 =>
        /\ tx[a].bmbh \notin DOMAIN depts
        /\ \A b \in Admin \ {a} : tx[b].bmbh # tx[a].bmbh

Met(t) == {t.todo[i] : i \in DOMAIN t.todo} \cup t.seen

\* What a deletion has met begins with one department and goes on with the
\* children of those it has seen.
FromOne(t) ==
    \A d \in Met(t) \cap DOMAIN depts :
        depts[d].bmpbh \notin t.seen => \A c \in Met(t) : d <= c

\* A department that was seen is deleted after its children.
ChildrenFirst(t) ==
    /\ t.gone \subseteq t.seen
    /\ \A c \in DOMAIN depts : depts[c].bmpbh \in t.gone => c \in t.gone
    /\ \A i \in DOMAIN t.todo : t.todo[i] \in t.seen \ t.gone =>
         \A c \in DOMAIN depts : depts[c].bmpbh = t.todo[i] =>
             c \in t.gone \/ \E j \in 1..(i - 1) : t.todo[j] = c

Deleting(t) ==
    /\ FromOne(t) /\ ChildrenFirst(t)
    /\ \A b \in Admin : tx[b].bmbh \notin Met(t)

Parented ==
    /\ \A d \in DOMAIN depts : depts[d].bmpbh \in DOMAIN depts \cup {Root}
    /\ \A a \in Admin : tx[a].op = "insertDept" /\ tx[a].pc = "commit" =>
         tx[a].dept.bmpbh \in DOMAIN depts

\* Unless a department was put under one that was going
DeptInv ==
    /\ Pending
    /\ ~overlapped => Parented /\ \A a \in Admin : tx[a].op = "deleteDept" => Deleting(tx[a])

LEMMA MetFit ==
  ASSUME NEW t, NEW k, Fits(t, k)
  PROVE  /\ Met(t) \subseteq Bmbh /\ \A d \in Met(t) : d <= k
         /\ t.seen \subseteq Met(t)
  BY DEF Fits, Tx, Met

\* A step that leaves the departments alone has to keep what is said of its thread.
LEMMA DeptsKept ==
  ASSUME TypeInv, TypeInv', DeptInv, NEW a \in Admin,
         \A b \in Admin \ {a} : tx'[b] = tx[b], UNCHANGED <<depts, overlapped>>,
         tx'[a].bmbh # 0 =>
            /\ tx'[a].bmbh \notin DOMAIN depts
            /\ \A b \in Admin \ {a} : tx[b].bmbh # tx'[a].bmbh
            /\ ~overlapped => \A b \in Admin \ {a} : tx[b].op = "deleteDept" =>
                                 tx'[a].bmbh \notin Met(tx[b]),
         ~overlapped =>
            /\ tx'[a].op = "insertDept" /\ tx'[a].pc = "commit" =>
                  tx'[a].dept.bmpbh \in DOMAIN depts
            /\ tx'[a].op = "deleteDept" =>
                  /\ FromOne(tx'[a]) /\ ChildrenFirst(tx'[a])
                  /\ \A b \in Admin \ {a} : tx[b].bmbh \notin Met(tx'[a])
  PROVE  DeptInv'
  <1>1. Pending'
    BY DEF DeptInv, Pending
  <1>2. ASSUME ~overlapped PROVE Parented'
    BY <1>2 DEF DeptInv, Parented
  <1>3. ASSUME ~overlapped, NEW b \in Admin, tx'[b].op = "deleteDept" PROVE Deleting(tx[b])'
    <2>0. 0 \notin Met(tx'[b]) /\ 0 \notin Met(tx'[a])
      BY MetFit DEF TypeInv, Bmbh
    <2>1. CASE b = a
      <3>1. FromOne(tx[a])' /\ ChildrenFirst(tx[a])'
        BY <1>3, <2>1 DEF FromOne, ChildrenFirst, Met
      <3>2. tx'[a].bmbh = 0
        BY <1>3, <2>1 DEF TypeInv, Fits
      <3>3. \A c \in Admin : tx'[c].bmbh \notin Met(tx'[a])
        BY <1>3, <2>0, <2>1, <3>2
      <3> QED
        BY <2>1, <3>1, <3>3 DEF Deleting, Met
    <2>2. CASE b # a
      <3>1. tx'[b] = tx[b] /\ Deleting(tx[b])
        BY <1>3, <2>2 DEF DeptInv
      <3>2. FromOne(tx[b])' /\ ChildrenFirst(tx[b])'
        BY <3>1 DEF Deleting, FromOne, ChildrenFirst, Met
      <3>3. \A c \in Admin : tx'[c].bmbh \notin Met(tx'[b])
        <4> SUFFICES ASSUME NEW c \in Admin PROVE tx'[c].bmbh \notin Met(tx'[b])
          OBVIOUS
        <4>1. CASE c = a
          BY <1>3, <2>0, <2>2, <3>1, <4>1
        <4>2. CASE c # a
          BY <3>1, <4>2 DEF Deleting
        <4> QED
          BY <4>1, <4>2
      <3> QED
        BY <3>2, <3>3 DEF Deleting, Met
    <2> QED
      BY <2>1, <2>2
  <1> QED
    BY <1>1, <1>2, <1>3 DEF DeptInv

\* A step after which its thread neither inserts nor deletes departments yet, or
\* is not beyond its key.
Plain(a) ==
    /\ \A b \in Admin \ {a} : tx'[b] = tx[b]
    /\ tx'[a].op = "insertDept" => tx'[a].pc \notin {"parent", "commit"}
    /\ UNCHANGED <<depts, overlapped>>

LEMMA PlainGoto ==
  ASSUME TypeInv, NEW a \in Admin, NEW t,
         tx' = [tx EXCEPT ![a] = t], UNCHANGED <<depts, overlapped>>,
         t.op = "insertDept" => t.pc \notin {"parent", "commit"}
  PROVE  Plain(a) /\ tx'[a] = t
  BY DEF TypeInv, TypeOK, Plain

LEMMA PlainDepts ==
  ASSUME TypeInv, TypeInv', DeptInv, NEW a \in Admin, Plain(a), tx'[a].op # "deleteDept"
  PROVE  DeptInv'
  <1>1. tx'[a].bmbh = 0
    BY DEF TypeInv, Fits, Plain
  <1> QED
    BY <1>1, DeptsKept DEF Plain

LEMMA EndPlain ==
  ASSUME TypeInv, NEW a \in Admin,
         tx' = [tx EXCEPT ![a] = Idle], UNCHANGED <<depts, overlapped>>
  PROVE  Plain(a) /\ tx'[a].op # "deleteDept"
  <1>1. Idle.op = "insertUser"
    BY DEF Idle
  <1> QED
    BY <1>1, PlainGoto

LEMMA BeginningsPlain ==
  ASSUME TypeInv, NEW a \in Admin, NEW n, NEW u, NEW d,
         \/ InsertUser(a, n, d) \/ UpdateUser(a, u, n, d) \/ DeleteUser(a, u)
         \/ InsertDept(a, d)
  PROVE  Plain(a) /\ tx'[a].op # "deleteDept"
  <1>0. Idle = [f \in Fields |-> Idle[f]]
    BY DEF Idle, Fields
  <1>1. PICK t : /\ Begin(a, t) /\ t.op # "deleteDept" /\ t.pc \notin {"parent", "commit"}
    <2>1. CASE InsertUser(a, n, d)
      <3> DEFINE t == [Idle EXCEPT !.op = "insertUser", !.pc = "yhbh",
                                   !.user = [dlmc |-> n, bmbh |-> d]]
      <3>1. t.op = "insertUser" /\ t.pc = "yhbh" /\ Begin(a, t)
        BY <1>0, <2>1 DEF InsertUser, Fields
      <3> HIDE DEF t
      <3> QED
        BY <3>1
    <2>2. CASE UpdateUser(a, u, n, d)
      <3> DEFINE t == [Idle EXCEPT !.op = "updateUser", !.pc = "write", !.yhbh = u,
                                   !.user = [dlmc |-> n, bmbh |-> d]]
      <3>1. t.op = "updateUser" /\ t.pc = "write" /\ Begin(a, t)
        BY <1>0, <2>2 DEF UpdateUser, Fields
      <3> HIDE DEF t
      <3> QED
        BY <3>1
    <2>3. CASE DeleteUser(a, u)
      <3> DEFINE t == [Idle EXCEPT !.op = "deleteUser", !.pc = "write", !.yhbh = u]
      <3>1. t.op = "deleteUser" /\ t.pc = "write" /\ Begin(a, t)
        BY <1>0, <2>3 DEF DeleteUser, Fields
      <3> HIDE DEF t
      <3> QED
        BY <3>1
    <2>4. CASE InsertDept(a, d)
      <3> DEFINE e == [Idle.dept EXCEPT !.bmpbh = d]
                 t == [Idle EXCEPT !.op = "insertDept", !.pc = "bmbh", !.dept = e]
      <3>1. t.op = "insertDept" /\ t.pc = "bmbh" /\ Begin(a, t)
        BY <1>0, <2>4 DEF InsertDept, Fields
      <3> HIDE DEF t
      <3> QED
        BY <3>1
    <2> QED
      BY <2>1, <2>2, <2>3, <2>4
  <1> QED
    BY <1>1, PlainGoto DEF Begin, Tables

\* A deletion has met the department a page named.
LEMMA DeleteBegins ==
  ASSUME TypeInv, TypeInv', DeptInv, NEW a \in Admin, NEW s \in ShownDepts, DeleteDept(a, s)
  PROVE  DeptInv' /\ Plain(a)
  <1> DEFINE one == <<s>>
             t == [Idle EXCEPT !.op = "deleteDept", !.pc = "visit", !.todo = one]
  <1>0. DOMAIN one = {1} /\ one[1] = s /\ s \in Nat
    BY DEF ShownDepts
  <1>1. Begin(a, t)
    BY DEF DeleteDept
  <1> HIDE DEF one
  <1>2. t.op = "deleteDept" /\ t.todo = one /\ t.seen = {} /\ t.gone = {} /\ t.bmbh = 0
    BY DEF Idle
  <1> HIDE DEF t
  <1>3. tx'[a] = t /\ (\A b \in Admin \ {a} : tx'[b] = tx[b]) /\ UNCHANGED <<depts, overlapped>>
    BY <1>1 DEF Begin, Tables, TypeInv, TypeOK
  <1>4. Met(t) = {s}
    BY <1>0, <1>2 DEF Met
  <1>5. FromOne(t) /\ ChildrenFirst(t)
    BY <1>0, <1>2, <1>4 DEF FromOne, ChildrenFirst
  <1>6. \A b \in Admin : tx[b].bmbh \notin Met(t)
    BY <1>4 DEF ShownDepts
  <1> QED
    BY <1>2, <1>3, <1>5, <1>6, DeptsKept DEF Plain


\* Steps of a thread that works on a user.
LEMMA UserStepsPlain ==
  ASSUME Inv, TypeInv, NEW a \in Admin,
         \/ UsedUp(a) \/ Check(a) \/ InsertAuth(a)
         \/ WriteInsert(a) \/ WriteUpdate(a) \/ WriteDelete(a)
  PROVE  Plain(a) /\ tx'[a].op # "deleteDept"
  <1>1. CASE Ends(a)
    BY <1>1, EndPlain DEF Ends, Goto, Tables
  <1>2. CASE ~Ends(a)
    <2>0. tx[a] \in Tx /\ Well(tx[a])
      BY DEF TypeInv, TypeOK, Inv, Shape
    <2>1. PICK t : /\ Goto(a, t) /\ t.op # "deleteDept"
                   /\ t.op = "insertDept" => t.pc \notin {"parent", "commit"}
      <3>1. CASE UsedUp(a)
        <4> DEFINE t == [tx[a] EXCEPT !.reload = TRUE]
        <4>1. /\ Goto(a, t) /\ t.op = tx[a].op /\ t.pc = tx[a].pc
              /\ tx[a].pc \in {"yhbh", "sqbh", "bmbh"}
          BY <2>0, <3>1 DEF UsedUp, Tx
        <4>2. t.op # "deleteDept" /\ t.op = "insertDept" => t.pc \notin {"parent", "commit"}
          BY <4>1
        <4>3. t.op # "deleteDept"
          BY <2>0, <4>1 DEF Well
        <4> HIDE DEF t
        <4> QED
          BY <4>1, <4>2, <4>3
      <3>2. CASE Check(a)
        <4> DEFINE t == [tx[a] EXCEPT !.pc = IF tx[a].user.dlmc \in DOMAIN auth
                                             THEN "write" ELSE "sqbh"]
        <4>1. Goto(a, t) /\ t.op = "insertUser"
          BY <2>0, <3>2 DEF Check, Tx, Well
        <4> HIDE DEF t
        <4> QED
          BY <4>1
      <3>3. CASE InsertAuth(a)
        <4> DEFINE t == [tx[a] EXCEPT !.pc = "write", !.sqbh = TRUE]
        <4>1. Goto(a, t) /\ t.op = "insertUser"
          BY <1>2, <2>0, <3>3 DEF InsertAuth, Tx, Well
        <4> HIDE DEF t
        <4> QED
          BY <4>1
      <3>4. CASE WriteInsert(a) \/ WriteUpdate(a) \/ WriteDelete(a)
        <4>1. PICK cut : Written(a, cut) /\ tx[a].op \in UserOp
          BY <1>2, <3>4 DEF WriteInsert, WriteUpdate, WriteDelete, UserOp
        <4> DEFINE t == [tx[a] EXCEPT !.pc = "commit", !.cut = cut]
        <4>2. Goto(a, t) /\ t.op \in UserOp
          BY <2>0, <4>1 DEF Written, Tx
        <4> HIDE DEF t
        <4> QED
          BY <4>2 DEF UserOp
      <3> QED
        BY <3>1, <3>2, <3>3, <3>4
    <2> QED
      BY <2>1, PlainGoto DEF Goto, Tables
  <1> QED
    BY <1>1, <1>2

\* A key of a user or of an auth row.
LEMMA UserKeyPlain ==
  ASSUME Inv, TypeInv, NEW a \in Admin, GotKey(a), tx[a].pc # "bmbh"
  PROVE  Plain(a) /\ tx'[a].op # "deleteDept"
  <1>0. tx[a] \in Tx /\ Well(tx[a])
    BY DEF TypeInv, TypeOK, Inv, Shape
  <1>1. tx[a].pc \in {"yhbh", "sqbh"}
    BY <1>0 DEF GotKey, Well, Fields
  <1>2. PICK t : Goto(a, t) /\ t.op = "insertUser"
    <2> DEFINE r == [tx[a] EXCEPT !.reload = FALSE]
               s == [r EXCEPT !.pc = "check", !.yhbh = Fresh(keys.user)]
               t == [r EXCEPT !.pc = "auth"]
    <2>1. tx[a].op = "insertUser" /\ r.pc = tx[a].pc
      BY <1>0, <1>1 DEF Well, Tx
    <2>2. Goto(a, s) \/ Goto(a, t)
      BY <1>1, <2>1 DEF GotKey
    <2>3. s.op = "insertUser" /\ t.op = "insertUser"
      BY <1>0, <2>1 DEF Tx
    <2> HIDE DEF s, t
    <2> QED
      BY <2>2, <2>3
  <1> QED
    BY <1>2, PlainGoto DEF Goto, Tables

\* The key of a department: nobody has it, and it was not met.
LEMMA DeptKeyDrawn ==
  ASSUME Inv, TypeInv, NEW a \in Admin, GotKey(a), tx[a].pc = "bmbh"
  PROVE  /\ tx'[a].op = "insertDept" /\ tx'[a].pc = "parent" /\ tx'[a].bmbh = keys.dept + 1
         /\ \A b \in Admin \ {a} : tx'[b] = tx[b]
         /\ UNCHANGED <<depts, overlapped>>
  <1>0. tx[a] \in Tx /\ Well(tx[a])
    BY DEF TypeInv, TypeOK, Inv, Shape
  <1> DEFINE t == [[tx[a] EXCEPT !.reload = FALSE]
                     EXCEPT !.pc = "parent", !.bmbh = Fresh(keys.dept)]
  <1>1. Goto(a, t)
    BY <1>0 DEF GotKey, Well, Fields
  <1>2. t.op = "insertDept" /\ t.pc = "parent" /\ t.bmbh = keys.dept + 1
    BY <1>0 DEF Well, Tx, Fresh
  <1> HIDE DEF t
  <1> QED
    BY <1>1, <1>2 DEF Goto, Tables, TypeInv, TypeOK

LEMMA GotKeyDepts ==
  ASSUME Inv, TypeInv, TypeInv', DeptInv, NEW a \in Admin, GotKey(a)
  PROVE  DeptInv'
  <1>1. CASE tx[a].pc # "bmbh"
    BY <1>1, UserKeyPlain, PlainDepts
  <1>2. CASE tx[a].pc = "bmbh"
    <2> DEFINE t == tx'[a]
    <2>1. /\ t.op = "insertDept" /\ t.pc = "parent" /\ t.bmbh = keys.dept + 1
          /\ \A b \in Admin \ {a} : tx'[b] = tx[b]
          /\ UNCHANGED <<depts, overlapped>>
      BY <1>2, DeptKeyDrawn
    <2>2. keys.dept \in Nat
      BY Bounds DEF TypeInv
    <2>3. keys.dept + 1 \notin DOMAIN depts
      BY <2>2 DEF TypeInv, DeptsFit
    <2>4. \A b \in Admin \ {a} : tx[b].bmbh # keys.dept + 1
      <3> SUFFICES ASSUME NEW b \in Admin PROVE tx[b].bmbh # keys.dept + 1
        OBVIOUS
      <3>1. tx[b].bmbh <= keys.dept \/ tx[b].bmbh = 0
        BY DEF TypeInv, Fits
      <3> QED
        BY <2>2, <3>1
    <2>5. \A b \in Admin \ {a} : keys.dept + 1 \notin Met(tx[b])
      BY <2>2, MetFit DEF TypeInv
    <2> QED
      BY <2>1, <2>3, <2>4, <2>5, DeptsKept
  <1> QED
    BY <1>1, <1>2

\* The row is made from that of its parent.
LEMMA ParentFound ==
  ASSUME Inv, TypeInv, NEW a \in Admin, Parent(a), ~Ends(a)
  PROVE  /\ tx[a].op = "insertDept" /\ tx[a].pc = "parent" /\ tx[a].bmbh # 0
         /\ tx'[a].op = "insertDept" /\ tx'[a].pc = "commit" /\ tx'[a].bmbh = tx[a].bmbh
         /\ tx'[a].dept.bmpbh = tx[a].dept.bmpbh /\ tx[a].dept.bmpbh \in DOMAIN depts
         /\ tx'[a].dept.bmcj = depts[tx[a].dept.bmpbh].bmcj + 1
         /\ tx'[a].dept.bmlj = Append(depts[tx[a].dept.bmpbh].bmlj, tx[a].bmbh)
         /\ \A b \in Admin \ {a} : tx'[b] = tx[b]
         /\ UNCHANGED <<depts, overlapped>>
  <1> DEFINE p == tx[a].dept.bmpbh
             e == [tx[a].dept EXCEPT !.bmcj = depts[p].bmcj + 1, !.bmlj = Path(p, tx[a].bmbh)]
             t == [tx[a] EXCEPT !.pc = "commit", !.dept = e]
  <1>1. /\ tx[a] \in Tx /\ p \in DOMAIN depts
        /\ tx[a].pc = "parent" /\ tx[a].op = "insertDept" /\ tx[a].bmbh # 0
    BY DEF TypeInv, TypeOK, Parent, Inv, Shape, Well, Fits
  <1>2. Goto(a, t)
    <2>1. t = [tx[a] EXCEPT !.pc = "commit", !.dept.bmcj = depts[p].bmcj + 1,
                            !.dept.bmlj = Path(p, tx[a].bmbh)]
      BY <1>1 DEF Tx, Dept
    <2> QED
      BY <1>1, <2>1 DEF Parent
  <1>3. e.bmpbh = p /\ e.bmcj = depts[p].bmcj + 1 /\ e.bmlj = Append(depts[p].bmlj, tx[a].bmbh)
    BY <1>1 DEF Tx, Dept, Path
  <1> HIDE DEF e
  <1>4. t.op = "insertDept" /\ t.pc = "commit" /\ t.bmbh = tx[a].bmbh /\ t.dept = e
    BY <1>1 DEF Tx
  <1> HIDE DEF t
  <1>5. tx'[a] = t /\ (\A b \in Admin \ {a} : tx'[b] = tx[b]) /\ UNCHANGED <<depts, overlapped>>
    BY <1>2 DEF Goto, Tables, TypeInv, TypeOK
  <1> QED
    BY <1>1, <1>3, <1>4, <1>5

LEMMA ParentDepts ==
  ASSUME Inv, TypeInv, TypeInv', DeptInv, NEW a \in Admin, Parent(a)
  PROVE  DeptInv'
  <1>1. CASE Ends(a)
    BY <1>1, EndPlain, PlainDepts DEF Ends, Goto, Tables
  <1>2. CASE ~Ends(a)
    <2>1. /\ tx[a].bmbh # 0 /\ tx'[a].bmbh = tx[a].bmbh /\ tx'[a].op = "insertDept"
          /\ tx'[a].dept.bmpbh \in DOMAIN depts
          /\ \A b \in Admin \ {a} : tx'[b] = tx[b]
          /\ UNCHANGED <<depts, overlapped>>
      BY <1>2, ParentFound
    <2>2. /\ tx[a].bmbh \notin DOMAIN depts
          /\ \A b \in Admin \ {a} : tx[b].bmbh # tx[a].bmbh
          /\ ~overlapped => \A b \in Admin \ {a} : tx[b].op = "deleteDept" =>
                               tx[a].bmbh \notin Met(tx[b])
      BY <2>1 DEF DeptInv, Pending, Deleting
    <2> QED
      BY <2>1, <2>2, DeptsKept
  <1> QED
    BY <1>1, <1>2

\* A department is seen: none of its children was.
LEMMA Opens ==
  ASSUME TypeInv, DeptInv, ~overlapped, NEW a \in Admin,
         tx[a].op = "deleteDept", tx[a].pc = "visit",
         NEW d, d = Head(tx[a].todo), d \notin tx[a].seen,
         NEW found \in SetToSeqs(Children(d)),
         NEW t, t.todo = found \o tx[a].todo, t.seen = tx[a].seen \cup {d}, t.gone = tx[a].gone
  PROVE  /\ FromOne(t) /\ ChildrenFirst(t)
         /\ \A b \in Admin \ {a} : tx[b].bmbh \notin Met(t)
  <1> DEFINE s == tx[a]
             m == Len(found)
             n == Len(s.todo)
  <1>1. /\ s \in Tx /\ s.todo \in Seq(Bmbh) /\ s.todo # <<>> /\ FromOne(s) /\ ChildrenFirst(s)
        /\ \A b \in Admin : tx[b].bmbh \notin Met(s)
    BY DEF TypeInv, TypeOK, Fits, Tx, DeptInv, Deleting
  <1>2. \A k \in DOMAIN s.todo : s.todo[k] \in s.seen \ s.gone =>
           \A c \in DOMAIN depts : depts[c].bmpbh = s.todo[k] =>
               c \in s.gone \/ \E j \in 1..(k - 1) : s.todo[j] = c
    BY <1>1 DEF ChildrenFirst
  <1>3. /\ found \in Seq(Children(d)) /\ found \in Seq(Bmbh)
        /\ \A c \in Children(d) : \E i \in DOMAIN found : found[i] = c
    BY ChildrenFit, FoundAll
  <1>4. /\ m \in Nat /\ n \in Nat \ {0} /\ d = s.todo[1] /\ Len(t.todo) = m + n
        /\ DOMAIN found = 1..m /\ DOMAIN s.todo = 1..n /\ DOMAIN t.todo = 1..(m + n)
        /\ \A i \in 1..m : t.todo[i] = found[i]
        /\ \A i \in 1..n : t.todo[m + i] = s.todo[i]
    BY <1>1, <1>3
  <1>5. \A i \in DOMAIN t.todo : \/ i \in 1..m /\ t.todo[i] \in Children(d)
                                 \/ \E j \in 1..n : i = m + j /\ t.todo[i] = s.todo[j]
    <2> SUFFICES ASSUME NEW i \in 1..(m + n)
                 PROVE  \/ i \in 1..m /\ t.todo[i] \in Children(d)
                        \/ \E j \in 1..n : i = m + j /\ t.todo[i] = s.todo[j]
      BY <1>4
    <2>1. CASE i <= m
      BY <1>3, <1>4, <2>1
    <2>2. CASE i > m
      <3>1. i - m \in 1..n /\ i = m + (i - m)
        BY <1>4, <2>2
      <3>2. t.todo[m + (i - m)] = s.todo[i - m]
        BY ONLY <1>4, <3>1
      <3> QED
        BY ONLY <3>1, <3>2
    <2> QED
      BY <1>4, <2>1, <2>2
  <1>6. d \in Met(s) /\ d \in Bmbh
    BY <1>1, <1>4 DEF Met
  <1>7. Met(t) \subseteq Met(s) \cup Children(d) /\ Met(s) \subseteq Bmbh
    <2>1. ASSUME NEW x \in Met(t) PROVE x \in Met(s) \cup Children(d)
      <3>1. CASE x \in t.seen
        BY <1>6, <3>1 DEF Met
      <3>2. CASE x \notin t.seen
        <4>1. PICK i \in DOMAIN t.todo : x = t.todo[i]
          BY <2>1, <3>2 DEF Met
        <4>2. CASE t.todo[i] \in Children(d)
          BY <4>1, <4>2
        <4>3. ASSUME NEW j \in 1..n, t.todo[i] = s.todo[j] PROVE x \in Met(s)
          <5>1. j \in DOMAIN s.todo
            BY <1>4
          <5> HIDE DEF s
          <5> QED
            BY ONLY <4>1, <4>3, <5>1 DEF Met
        <4>4. t.todo[i] \in Children(d) \/ \E j \in 1..n : t.todo[i] = s.todo[j]
          BY ONLY <1>5, <4>1
        <4> QED
          BY ONLY <4>1, <4>2, <4>3, <4>4
      <3> QED
        BY <3>1, <3>2
    <2>2. Met(s) \subseteq Bmbh
      BY MetFit DEF TypeInv
    <2> QED
      BY <2>1, <2>2
  <1>8. \A c \in Children(d) : c \in DOMAIN depts /\ depts[c].bmpbh = d /\ d < c /\ c \in Nat
    BY BoundAssumption DEF Children, TypeInv, TypeOK, DeptsFit, Bmbh
  <1>9. Bmbh \subseteq Nat
    BY BoundAssumption DEF Bmbh
  <1>10. \A c \in Children(d) : c \notin s.seen
    <2> SUFFICES ASSUME NEW c \in Children(d), c \in s.seen PROVE FALSE
      OBVIOUS
    <2>1. c \in Met(s) \cap DOMAIN depts /\ depts[c].bmpbh \notin s.seen
      BY <1>8 DEF Met
    <2>2. c <= d
      BY <1>1, <1>6, <2>1 DEF FromOne
    <2> QED
      BY <1>6, <1>8, <1>9, <2>2
  <1>11. FromOne(t)
    <2> SUFFICES ASSUME NEW x \in Met(t) \cap DOMAIN depts, depts[x].bmpbh \notin t.seen,
                        NEW c \in Met(t)
                 PROVE  x <= c
      BY DEF FromOne
    <2>1. x \in Met(s)
      BY <1>7, <1>8
    <2>2. \A e \in Met(s) : x <= e
      BY <1>1, <2>1 DEF FromOne
    <2>3. CASE c \in Met(s)
      BY <2>2, <2>3
    <2>4. CASE c \in Children(d)
      <3>1. x <= d /\ d < c /\ x \in Nat /\ d \in Nat /\ c \in Nat
        BY <1>6, <1>7, <1>8, <1>9, <2>1, <2>2, <2>4
      <3> QED
        BY <3>1
    <2> QED
      BY <1>7, <2>3, <2>4
  <1>12. ChildrenFirst(t)
    <2>1. /\ t.gone \subseteq t.seen
          /\ \A c \in DOMAIN depts : depts[c].bmpbh \in t.gone => c \in t.gone
      BY <1>1 DEF ChildrenFirst
    <2>2. ASSUME NEW i \in DOMAIN t.todo, t.todo[i] \in t.seen \ t.gone,
                 NEW c \in DOMAIN depts, depts[c].bmpbh = t.todo[i]
          PROVE  c \in t.gone \/ \E j \in 1..(i - 1) : t.todo[j] = c
      <3>1. PICK k \in 1..n : i = m + k /\ t.todo[i] = s.todo[k]
        <4>1. CASE t.todo[i] \in Children(d)
          BY <1>6, <1>8, <1>9, <1>10, <2>2, <4>1
        <4> QED
          BY <1>5, <2>2, <4>1
      <3>2. CASE s.todo[k] = d
        <4>1. c \in Children(d)
          BY <2>2, <3>1, <3>2 DEF Children
        <4>2. PICK j \in 1..m : t.todo[j] = c
          BY <1>3, <1>4, <4>1
        <4>3. j \in 1..(i - 1)
          BY <1>4, <3>1
        <4> QED
          BY <4>2, <4>3
      <3>3. CASE s.todo[k] # d
        <4>1. s.todo[k] \in s.seen \ s.gone
          BY <2>2, <3>1, <3>3
        <4>2. c \in s.gone \/ \E j \in 1..(k - 1) : s.todo[j] = c
          <5>1. k \in DOMAIN s.todo /\ depts[c].bmpbh = s.todo[k]
            BY <1>4, <2>2, <3>1
          <5> HIDE DEF s
          <5>2. \A e \in DOMAIN depts : depts[e].bmpbh = s.todo[k] =>
                   e \in s.gone \/ \E j \in 1..(k - 1) : s.todo[j] = e
            BY ONLY <1>2, <4>1, <5>1
          <5> QED
            BY ONLY <2>2, <5>1, <5>2
        <4>3. ASSUME NEW j \in 1..(k - 1), s.todo[j] = c
              PROVE  m + j \in 1..(i - 1) /\ t.todo[m + j] = c
          <5>1. /\ m \in Nat /\ n \in Nat /\ i = m + k
                /\ \A e \in 1..n : t.todo[m + e] = s.todo[e]
            BY <1>4, <3>1
          <5> HIDE DEF s, m, n
          <5>2. j \in 1..n /\ m + j \in 1..(i - 1)
            BY ONLY <5>1
          <5> QED
            BY ONLY <4>3, <5>1, <5>2
        <4> QED
          BY <4>2, <4>3
      <3> QED
        BY <3>2, <3>3
    <2> QED
      BY <2>1, <2>2 DEF ChildrenFirst
  <1>13. \A b \in Admin : tx[b].bmbh \notin Met(t)
    <2> SUFFICES ASSUME NEW b \in Admin, tx[b].bmbh \in Children(d) PROVE FALSE
      BY <1>1, <1>7
    <2>1. tx[b].bmbh \in DOMAIN depts /\ tx[b].bmbh # 0
      BY <1>6, <1>8, <1>9
    <2> QED
      BY <2>1 DEF DeptInv, Pending
  <1> QED
    BY <1>11, <1>12, <1>13

\* A department is deleted: its children are.
LEMMA Closes ==
  ASSUME TypeInv, DeptInv, ~overlapped, NEW a \in Admin,
         tx[a].op = "deleteDept", tx[a].pc = "visit",
         NEW d, d = Head(tx[a].todo), d \in tx[a].seen,
         NEW t, t.todo = Tail(tx[a].todo), t.seen = tx[a].seen, t.gone = tx[a].gone \cup {d}
  PROVE  /\ FromOne(t) /\ ChildrenFirst(t)
         /\ \A b \in Admin \ {a} : tx[b].bmbh \notin Met(t)
  <1> DEFINE s == tx[a]
             n == Len(s.todo)
  <1>1. /\ s \in Tx /\ s.todo \in Seq(Bmbh) /\ s.todo # <<>> /\ FromOne(s) /\ ChildrenFirst(s)
        /\ \A b \in Admin : tx[b].bmbh \notin Met(s)
    BY DEF TypeInv, TypeOK, Fits, Tx, DeptInv, Deleting
  <1>2. \A k \in DOMAIN s.todo : s.todo[k] \in s.seen \ s.gone =>
          \A c \in DOMAIN depts : depts[c].bmpbh = s.todo[k] =>
              c \in s.gone \/ \E j \in 1..(k - 1) : s.todo[j] = c
    BY <1>1 DEF ChildrenFirst
  <1>3. /\ n \in Nat \ {0} /\ d = s.todo[1] /\ DOMAIN s.todo = 1..n
        /\ DOMAIN t.todo = 1..(n - 1) /\ \A i \in 1..(n - 1) : t.todo[i] = s.todo[i + 1]
    BY <1>1
  <1>4. \A i \in 1..(n - 1) : i + 1 \in 1..n
    BY <1>3
  <1>5. Met(t) \subseteq Met(s)
    BY <1>3, <1>4 DEF Met
  <1>6. FromOne(t)
    BY <1>1, <1>5 DEF FromOne
  <1>7. \A c \in DOMAIN depts : depts[c].bmpbh = d => c \in s.gone
    <2> SUFFICES ASSUME NEW c \in DOMAIN depts, depts[c].bmpbh = d PROVE c \in s.gone
      OBVIOUS
    <2>1. CASE d \in s.gone
      BY <1>1, <2>1 DEF ChildrenFirst
    <2>2. CASE d \notin s.gone
      <3>1. 1 \in DOMAIN s.todo /\ s.todo[1] \in s.seen \ s.gone
        BY <1>3, <2>2
      <3>2. c \in s.gone \/ \E j \in 1..(1 - 1) : s.todo[j] = c
        BY <1>2, <3>1
      <3> QED
        BY <3>2
    <2> QED
      BY <2>1, <2>2
  <1>8. ChildrenFirst(t)
    <2>1. /\ t.gone \subseteq t.seen
          /\ \A c \in DOMAIN depts : depts[c].bmpbh \in t.gone => c \in t.gone
      BY <1>1, <1>7 DEF ChildrenFirst
    <2>2. ASSUME NEW i \in DOMAIN t.todo, t.todo[i] \in t.seen \ t.gone,
                 NEW c \in DOMAIN depts, depts[c].bmpbh = t.todo[i]
          PROVE  c \in t.gone \/ \E j \in 1..(i - 1) : t.todo[j] = c
      <3>1. /\ i \in 1..(n - 1) /\ i + 1 \in DOMAIN s.todo /\ t.todo[i] = s.todo[i + 1]
            /\ s.todo[i + 1] \in s.seen \ s.gone
        BY <1>3, <1>4, <2>2
      <3>2. c \in s.gone \/ \E j \in 1..((i + 1) - 1) : s.todo[j] = c
        <4>1. depts[c].bmpbh = s.todo[i + 1]
          BY <2>2, <3>1
        <4> HIDE DEF s
        <4>2. \A e \in DOMAIN depts : depts[e].bmpbh = s.todo[i + 1] =>
                 e \in s.gone \/ \E j \in 1..((i + 1) - 1) : s.todo[j] = e
          BY ONLY <1>2, <3>1
        <4> QED
          BY ONLY <2>2, <4>1, <4>2
      <3>3. ASSUME NEW j \in 1..((i + 1) - 1), s.todo[j] = c, c # d
            PROVE  j - 1 \in 1..(i - 1) /\ t.todo[j - 1] = c
        <4>1. j # 1
          BY <1>3, <3>3
        <4>2. j - 1 \in 1..(n - 1) /\ j - 1 \in 1..(i - 1) /\ (j - 1) + 1 = j
          <5>1. n \in Nat /\ i \in 1..(n - 1)
            BY <1>3, <3>1
          <5> HIDE DEF n
          <5> QED
            BY ONLY <4>1, <5>1
        <4> QED
          BY <1>3, <3>3, <4>2
      <3> QED
        BY <3>2, <3>3
    <2> QED
      BY <2>1, <2>2 DEF ChildrenFirst
  <1> QED
    BY <1>1, <1>5, <1>6, <1>8

LEMMA VisitDepts ==
  ASSUME Inv, TypeInv, TypeInv', DeptInv, NEW a \in Admin, Visit(a)
  PROVE  DeptInv' /\ Plain(a)
  <1> DEFINE d == Head(tx[a].todo)
             open(found) == [tx[a] EXCEPT !.seen = @ \cup {d}, !.todo = found \o @]
             close == [tx[a] EXCEPT !.gone = @ \cup {d}, !.todo = Tail(@),
                                    !.cut = @ \cup {l \in links : l.of = d},
                                    !.pc = IF Len(tx[a].todo) = 1 THEN "commit" ELSE "visit"]
  <1>1. tx[a] \in Tx /\ tx[a].pc = "visit" /\ tx[a].op = "deleteDept"
    BY DEF Visit, Inv, Shape, Well, TypeInv, TypeOK
  <1>2. PICK t : /\ Goto(a, t) /\ t.op = "deleteDept"
                 /\ ~overlapped => /\ FromOne(t) /\ ChildrenFirst(t)
                                   /\ \A b \in Admin \ {a} : tx[b].bmbh \notin Met(t)
    <2>1. CASE d \notin tx[a].seen
      <3>1. PICK found \in SetToSeqs(Children(d)) : Goto(a, open(found))
        BY <2>1 DEF Visit
      <3> DEFINE t == open(found)
      <3>2. /\ t.op = "deleteDept" /\ t.todo = found \o tx[a].todo
            /\ t.seen = tx[a].seen \cup {d} /\ t.gone = tx[a].gone
        BY <1>1 DEF Tx
      <3>3. Goto(a, t)
        BY <3>1
      <3> HIDE DEF t, d
      <3> QED
        BY <1>1, <2>1, <3>2, <3>3, Opens DEF d
    <2>2. CASE d \in tx[a].seen
      <3>1. Goto(a, close)
        BY <2>2 DEF Visit
      <3>2. /\ close.op = "deleteDept" /\ close.todo = Tail(tx[a].todo)
            /\ close.seen = tx[a].seen /\ close.gone = tx[a].gone \cup {d}
        BY <1>1 DEF Tx
      <3> HIDE DEF close, d
      <3> QED
        BY <1>1, <2>2, <3>1, <3>2, Closes DEF d
    <2> QED
      BY <2>1, <2>2
  <1>3. tx'[a] = t /\ (\A b \in Admin \ {a} : tx'[b] = tx[b]) /\ UNCHANGED <<depts, overlapped>>
    BY <1>2 DEF Goto, Tables, TypeInv, TypeOK
  <1>4. tx'[a].bmbh = 0
    BY <1>2, <1>3 DEF TypeInv, Fits
  <1> QED
    BY <1>2, <1>3, <1>4, DeptsKept DEF Plain

\* A department comes: nobody has met it, and nobody has seen its parent.
LEMMA CommitInsertDepts ==
  ASSUME TypeInv, TypeInv', DeptInv, NEW a \in Admin, CommitInsert(a)
  PROVE  DeptInv'
  <1> DEFINE n == tx[a].bmbh
             p == tx[a].dept.bmpbh
  <1>1. /\ tx'[a] = Idle /\ \A b \in Admin \ {a} : tx'[b] = tx[b]
        /\ tx[a].op = "insertDept" /\ tx[a].pc = "commit" /\ n # 0
        /\ overlapped' = (overlapped \/ Goes(p))
        /\ depts' = [d \in DOMAIN depts \cup {n} |-> IF d = n THEN tx[a].dept ELSE depts[d]]
    BY DEF CommitInsert, With, TypeInv, TypeOK, Fits
  <1>2. /\ n \notin DOMAIN depts /\ DOMAIN depts' = DOMAIN depts \cup {n}
        /\ depts'[n].bmpbh = p /\ \A d \in DOMAIN depts : depts'[d] = depts[d]
        /\ \A b \in Admin \ {a} : tx[b].bmbh # n
    BY <1>1 DEF DeptInv, Pending
  <1>3. Idle.bmbh = 0 /\ Idle.op = "insertUser"
    BY DEF Idle
  <1> HIDE DEF n, p
  <1>4. Pending'
    BY <1>1, <1>2, <1>3 DEF DeptInv, Pending
  <1>5. ASSUME ~overlapped' PROVE Parented'
    <2>1. Parented /\ p \in DOMAIN depts
      BY <1>1, <1>5 DEF DeptInv, Parented, p
    <2> QED
      BY <1>1, <1>2, <1>3, <2>1 DEF Parented
  <1>6. ASSUME ~overlapped', NEW b \in Admin, tx'[b].op = "deleteDept" PROVE Deleting(tx[b])'
    <2>1. /\ b # a /\ tx'[b] = tx[b] /\ Deleting(tx[b]) /\ p \notin tx[b].seen
      BY <1>1, <1>3, <1>6 DEF DeptInv, Goes
    <2>2. n \notin Met(tx[b]) /\ 0 \notin Met(tx[b])
      BY <2>1, MetFit DEF Deleting, n, TypeInv, Bmbh
    <2>3. FromOne(tx[b])'
      BY <1>2, <2>1, <2>2 DEF Deleting, FromOne, Met
    <2>4. ChildrenFirst(tx[b])'
      <3>1. /\ tx[b].gone \subseteq tx[b].seen
            /\ \A c \in DOMAIN depts' : depts'[c].bmpbh \in tx[b].gone => c \in tx[b].gone
        BY <1>2, <2>1 DEF Deleting, ChildrenFirst
      <3>2. ASSUME NEW i \in DOMAIN tx[b].todo, tx[b].todo[i] \in tx[b].seen \ tx[b].gone,
                   NEW c \in DOMAIN depts', depts'[c].bmpbh = tx[b].todo[i]
            PROVE  c \in tx[b].gone \/ \E j \in 1..(i - 1) : tx[b].todo[j] = c
        <4>1. c \in DOMAIN depts /\ depts[c].bmpbh = tx[b].todo[i]
          BY <1>2, <2>1, <3>2
        <4> QED
          BY <2>1, <3>2, <4>1 DEF Deleting, ChildrenFirst
      <3> QED
        BY <2>1, <3>1, <3>2 DEF ChildrenFirst
    <2>5. \A c \in Admin : tx'[c].bmbh \notin Met(tx[b])
      BY <1>1, <1>3, <2>1, <2>2 DEF Deleting
    <2> QED
      BY <2>1, <2>3, <2>4, <2>5 DEF Deleting, Met
  <1> QED
    BY <1>4, <1>5, <1>6 DEF DeptInv

\* Departments go, and with each its children.
LEMMA CommitDeleteDepts ==
  ASSUME TypeInv, TypeInv', DeptInv, NEW a \in Admin, CommitDelete(a)
  PROVE  DeptInv'
  <1> DEFINE g == tx[a].gone
  <1>1. /\ tx'[a] = Idle /\ \A b \in Admin \ {a} : tx'[b] = tx[b]
        /\ tx[a].op = "deleteDept"
        /\ depts' = [d \in DOMAIN depts \ g |-> depts[d]]
        /\ ~overlapped' => /\ ~overlapped
                           /\ \A b \in Others(a) :
                                tx[b].op = "insertDept" => tx[b].dept.bmpbh \notin g
    BY DEF CommitDelete, Without, TypeInv, TypeOK
  <1>2. DOMAIN depts' = DOMAIN depts \ g /\ \A d \in DOMAIN depts' : depts'[d] = depts[d]
    BY <1>1
  <1>3. Idle.bmbh = 0 /\ Idle.op = "insertUser"
    BY DEF Idle
  <1>4. Pending'
    BY <1>1, <1>2, <1>3 DEF DeptInv, Pending
  <1>5. ASSUME ~overlapped' PROVE Parented'
    <2>1. Parented /\ \A c \in DOMAIN depts : depts[c].bmpbh \in g => c \in g
      BY <1>1, <1>5 DEF DeptInv, Deleting, ChildrenFirst
    <2>2. \A d \in DOMAIN depts' : depts'[d].bmpbh \in DOMAIN depts' \cup {Root}
      BY <1>2, <2>1 DEF Parented
    <2>3. \A b \in Admin : tx'[b].op = "insertDept" /\ tx'[b].pc = "commit" =>
            tx'[b].dept.bmpbh \in DOMAIN depts'
      BY <1>1, <1>2, <1>3, <1>5, <2>1 DEF Parented, Others
    <2> QED
      BY <2>2, <2>3 DEF Parented
  <1>6. ASSUME ~overlapped', NEW b \in Admin, tx'[b].op = "deleteDept" PROVE Deleting(tx[b])'
    <2>1. /\ b # a /\ tx'[b] = tx[b] /\ Deleting(tx[b])
      BY <1>1, <1>3, <1>6 DEF DeptInv
    <2>2. 0 \notin Met(tx[b])
      BY MetFit DEF TypeInv, Bmbh
    <2>3. FromOne(tx[b])' /\ ChildrenFirst(tx[b])'
      BY <1>2, <2>1 DEF Deleting, FromOne, ChildrenFirst, Met
    <2>4. \A c \in Admin : tx'[c].bmbh \notin Met(tx[b])
      BY <1>1, <1>3, <2>1, <2>2 DEF Deleting
    <2> QED
      BY <2>1, <2>3, <2>4 DEF Deleting, Met
  <1> QED
    BY <1>4, <1>5, <1>6 DEF DeptInv

-----------------------------------------------------------------------------
(* The line of a department *)

Grown(up, met) == met \cup {up[d] : d \in met \cap DOMAIN up}
Closed(up, S) == \A d \in S \cap DOMAIN up : up[d] \in S

\* Line is the least set that has c and, with a row, its parent: the recursion
\* that defines it has a solution (hull), and only one.
LEMMA LineIsLeast ==
  ASSUME NEW up, IsFiniteSet(DOMAIN up), NEW c
  PROVE  /\ c \in Line(up, c) /\ Closed(up, Line(up, c))
         /\ \A S : c \in S /\ Closed(up, S) => Line(up, c) \subseteq S
  <1> DEFINE U == DOMAIN up \cup {up[d] : d \in DOMAIN up} \cup {c}
             Hull(met) == {e \in U : \A S \in SUBSET U :
                                        met \subseteq S /\ Closed(up, S) => e \in S}
             Solves(g) == g = [met \in SUBSET U |->
                                 IF Grown(up, met) = met THEN met ELSE g[Grown(up, met)]]
             hull == [met \in SUBSET U |-> Hull(met)]
             line == CHOOSE g : Solves(g)
  <1>1. Line(up, c) = line[{c}]
    BY DEF Line, Grown
  <1>2. \A met \in SUBSET U :
          /\ Grown(up, met) \in SUBSET U
          /\ met \subseteq Grown(up, met)
          /\ Grown(up, met) = met <=> Closed(up, met)
    BY DEF Grown, Closed
  <1>3. \A met \in SUBSET U : met \subseteq Hull(met) /\ Hull(met) \in SUBSET U
    OBVIOUS
  <1>4. ASSUME NEW met \in SUBSET U, Grown(up, met) = met
        PROVE  Hull(met) = met
    BY <1>2, <1>3, <1>4
  <1>5. ASSUME NEW met \in SUBSET U
        PROVE  Hull(met) = Hull(Grown(up, met))
    <2>1. \A S \in SUBSET U : Closed(up, S) => (met \subseteq S <=> Grown(up, met) \subseteq S)
      BY DEF Grown, Closed
    <2> QED
      BY <2>1
  <1>6. Solves(hull)
    <2> SUFFICES ASSUME NEW met \in SUBSET U
                 PROVE  Hull(met) = IF Grown(up, met) = met THEN met ELSE hull[Grown(up, met)]
      OBVIOUS
    <2>1. hull[Grown(up, met)] = Hull(Grown(up, met))
      <3>1. Grown(up, met) \in SUBSET U
        BY <1>2
      <3> HIDE DEF Hull, U
      <3> QED
        BY <3>1
    <2>2. CASE Grown(up, met) = met
      BY <1>4, <2>2
    <2>3. CASE Grown(up, met) # met
      BY <1>5, <2>1, <2>3
    <2> QED
      BY <2>2, <2>3
  <1>7. Solves(line)
    <2> HIDE DEF Solves
    <2> QED
      BY <1>6
  <1>8. IsFiniteSet(U)
    <2> DEFINE P == {up[d] : d \in DOMAIN up}
               f == [d \in DOMAIN up |-> up[d]]
    <2>1. f \in Surjection(DOMAIN up, P)
      BY DEF Surjection
    <2>2. IsFiniteSet(P)
      BY <2>1, FS_Surjection
    <2>3. IsFiniteSet(DOMAIN up \cup P)
      BY <2>2, FS_Union
    <2> QED
      BY <2>3, FS_AddElement
  <1>9. ASSUME NEW met \in SUBSET U
        PROVE  line[met] = Hull(met)
    <2> DEFINE Bad == {S \in SUBSET U : line[U \ S] # Hull(U \ S)}
               R == StrictSubsetOrdering(U)
    <2> SUFFICES ASSUME Bad # {} PROVE FALSE
      <3>1. U \ (U \ met) = met
        OBVIOUS
      <3> HIDE DEF U, Hull, line
      <3> QED
        BY <3>1
    <2>1. IsWellFoundedOn(R, SUBSET U)
      BY <1>8, FS_StrictSubsetOrderingWellFounded, FS_FiniteSubsetsOfFinite
    <2>2. PICK S \in Bad : \A T \in Bad : <<T, S>> \notin R
      <3> HIDE DEF R
      <3>1. Bad \in SUBSET (SUBSET U)
        OBVIOUS
      <3> HIDE DEF Bad
      <3> QED
        BY <2>1, <3>1, WFMin
    <2> DEFINE m == U \ S
               n == Grown(up, m)
    <2>3. m \in SUBSET U /\ n \in SUBSET U /\ m \subseteq n /\ line[m] # Hull(m)
      <3>1. m \in SUBSET U /\ line[m] # Hull(m)
        <4> HIDE DEF line, Hull, U
        <4> QED
          OBVIOUS
      <3> HIDE DEF m, line, Hull, U
      <3> QED
        BY <1>2, <3>1
    <2>4. line[m] = IF n = m THEN m ELSE line[n]
      <3>1. m \in SUBSET U
        OBVIOUS
      <3> HIDE DEF m, line, U
      <3> QED
        BY <1>7, <3>1
    <2>5. n # m
      BY <1>4, <2>3, <2>4
    <2>6. U \ n \in Bad
      <3>1. U \ (U \ n) = n /\ U \ n \in SUBSET U
        BY <2>3
      <3>2. line[n] # Hull(n)
        BY <1>5, <2>3, <2>4, <2>5
      <3> HIDE DEF line, Hull, U, n
      <3> QED
        BY <3>1, <3>2
    <2>7. <<U \ n, S>> \in R
      BY <2>3, <2>5 DEF StrictSubsetOrdering
    <2> QED
      BY <2>2, <2>6, <2>7
  <1> HIDE DEF line
  <1>10. Line(up, c) = Hull({c})
    BY <1>1, <1>9
  <1>11. c \in Hull({c})
    BY <1>3
  <1>12. Closed(up, Hull({c}))
    BY DEF Closed
  <1>13. ASSUME NEW S, c \in S, Closed(up, S)
         PROVE  Hull({c}) \subseteq S
    <2>1. Closed(up, S \cap U) /\ S \cap U \in SUBSET U /\ c \in S \cap U
      BY <1>13 DEF Closed
    <2> QED
      BY <2>1
  <1> QED
    BY <1>10, <1>11, <1>12, <1>13

\* A row whose number is below its parent's cannot be the end of a line.
LEMMA DownToRoot ==
  ASSUME NEW up, IsFiniteSet(DOMAIN up), DOMAIN up \subseteq Nat,
         \A d \in DOMAIN up : up[d] \in DOMAIN up \cup {Root},
         \A d \in DOMAIN up : up[d] \in DOMAIN up => up[d] < d,
         NEW c \in DOMAIN up
  PROVE  Climbs(up, c)
  <1> DEFINE T == Line(up, c) \cap DOMAIN up
  <1>1. c \in Line(up, c) /\ Closed(up, Line(up, c))
    BY LineIsLeast
  <1>2. PICK m \in T : \A k \in T : ~ (<<k, m>> \in OpToRel(<, Nat))
    <2>1. T \subseteq Nat /\ T # {}
      BY <1>1
    <2> HIDE DEF T
    <2> QED
      BY <2>1, NatLessThanWellFounded, WFMin
  <1>3. up[m] \in Line(up, c)
    BY <1>1 DEF Closed
  <1>4. up[m] \notin DOMAIN up
    <2> SUFFICES ASSUME up[m] \in DOMAIN up PROVE FALSE
      OBVIOUS
    <2>1. up[m] < m /\ up[m] \in Nat /\ m \in Nat /\ up[m] \in T
      BY <1>3
    <2> QED
      BY <1>2, <2>1 DEF OpToRel
  <1> QED
    BY <1>3, <1>4 DEF Climbs

-----------------------------------------------------------------------------
(* Every department hangs *)

LEMMA InitDepts == Init => DeptInv
  <1> SUFFICES ASSUME Init PROVE DeptInv
    OBVIOUS
  <1>1. \A a \in Admin : tx[a].bmbh = 0 /\ tx[a].op = "insertUser"
    BY DEF Init, Idle
  <1>2. DOMAIN depts = {1, 2} /\ depts[1].bmpbh = Root /\ depts[2].bmpbh = 1
    <2> DEFINE x == [bmpbh |-> Root, bmcj |-> 0, bmlj |-> <<1>>]
               y == [bmpbh |-> 1, bmcj |-> 1, bmlj |-> <<1, 2>>]
    <2>1. depts = <<x, y>> /\ x.bmpbh = Root /\ y.bmpbh = 1
      BY DEF Init
    <2> HIDE DEF x, y
    <2> QED
      BY <2>1
  <1> QED
    BY <1>1, <1>2 DEF DeptInv, Pending, Parented

\* The steps that only keep what is said of departments.
LEMMA PlainSteps ==
  ASSUME Inv, TypeInv, NEW a \in Admin,
         \/ tx[a].pc # "bmbh" /\ (NextKey(a) \/ Reload(a))
         \/ GivesUp(a) \/ UsedUp(a) \/ Check(a) \/ InsertAuth(a) \/ CommitUser(a) \/ Rollback(a)
         \/ WriteInsert(a) \/ WriteUpdate(a) \/ WriteDelete(a)
  PROVE  Plain(a) /\ tx'[a].op # "deleteDept"
  <1>1. CASE tx[a].pc # "bmbh" /\ (NextKey(a) \/ Reload(a))
    BY <1>1, UserKeyPlain DEF NextKey, Reload
  <1>2. CASE GivesUp(a) \/ Rollback(a)
    BY <1>2, EndPlain DEF GivesUp, Rollback, Ends, Goto, Tables
  <1>3. CASE \/ UsedUp(a) \/ Check(a) \/ InsertAuth(a)
             \/ WriteInsert(a) \/ WriteUpdate(a) \/ WriteDelete(a)
    BY <1>3, UserStepsPlain
  <1>4. CASE CommitUser(a)
    BY <1>4, EndPlain DEF CommitUser
  <1> QED
    BY <1>1, <1>2, <1>3, <1>4

\* Every step is one of these.
LEMMA Cases ==
  ASSUME Inv, TypeInv, TypeInv', DeptInv, [Next]_vars
  PROVE  \/ UNCHANGED <<depts, tx, overlapped>>
         \/ \E a \in Admin :
              \/ Plain(a) /\ DeptInv'
              \/ tx[a].pc = "bmbh" /\ GotKey(a)
              \/ Parent(a) /\ ~Ends(a)
              \/ CommitInsert(a) \/ CommitDelete(a)
  <1>1. ASSUME NEW a \in Admin, Plain(a), tx'[a].op # "deleteDept" PROVE Plain(a) /\ DeptInv'
    BY <1>1, PlainDepts
  <1>2. ASSUME NEW a \in Admin, Proceed(a) \/ Rollback(a)
        PROVE  \/ Plain(a) /\ DeptInv'
               \/ tx[a].pc = "bmbh" /\ GotKey(a)
               \/ Parent(a) /\ ~Ends(a)
               \/ CommitInsert(a) \/ CommitDelete(a)
    <2>1. CASE tx[a].pc = "bmbh" /\ (NextKey(a) \/ Reload(a))
      BY <2>1 DEF NextKey, Reload
    <2>2. CASE \/ tx[a].pc # "bmbh" /\ (NextKey(a) \/ Reload(a))
               \/ GivesUp(a) \/ UsedUp(a) \/ Check(a) \/ InsertAuth(a) \/ CommitUser(a)
               \/ Rollback(a) \/ WriteInsert(a) \/ WriteUpdate(a) \/ WriteDelete(a)
      BY <1>1, <2>2, PlainSteps
    <2>3. CASE Parent(a) /\ Ends(a)
      BY <1>1, <2>3, EndPlain DEF Ends, Goto, Tables
    <2>4. CASE Visit(a)
      BY <2>4, VisitDepts
    <2> QED
      BY <1>2, <2>1, <2>2, <2>3, <2>4 DEF Proceed
  <1>3. ASSUME NEW a \in Admin, NEW n, NEW u, NEW d \in ShownDepts,
               InsertUser(a, n, d) \/ UpdateUser(a, u, n, d) \/ DeleteDept(a, d)
        PROVE  Plain(a) /\ DeptInv'
    BY <1>1, <1>3, BeginningsPlain, DeleteBegins
  <1>4. ASSUME NEW a \in Admin, NEW u, DeleteUser(a, u) \/ InsertDept(a, u)
        PROVE  Plain(a) /\ DeptInv'
    BY <1>1, <1>4, BeginningsPlain
  <1>5. ASSUME NEW l, NEW S, NEW d, AddLink(l) \/ DelLink(l) \/ UpdateUsersBmbh(S, d)
        PROVE  UNCHANGED <<depts, tx, overlapped>>
    BY <1>5 DEF AddLink, DelLink, UpdateUsersBmbh, Alone
  <1>6. CASE UNCHANGED vars
    BY <1>6 DEF vars
  <1> QED
    BY <1>2, <1>3, <1>4, <1>5, <1>6 DEF Next

LEMMA NextDepts == Inv /\ TypeInv /\ DeptInv /\ [Next]_vars => DeptInv'
  <1> SUFFICES ASSUME Inv, TypeInv, DeptInv, [Next]_vars PROVE DeptInv'
    OBVIOUS
  <1>0. TypeInv'
    BY NextFits
  <1>1. CASE UNCHANGED <<depts, tx, overlapped>>
    BY <1>1 DEF DeptInv, Pending, Parented, Deleting, FromOne, ChildrenFirst, Met
  <1>2. ASSUME NEW a \in Admin,
               \/ GotKey(a) \/ Parent(a) \/ CommitInsert(a) \/ CommitDelete(a)
        PROVE  DeptInv'
    BY <1>0, <1>2, GotKeyDepts, ParentDepts, CommitInsertDepts, CommitDeleteDepts
  <1> QED
    BY <1>0, <1>1, <1>2, Cases

\* Theorem.  Unless a department was put under one that was being deleted, every
\* department hangs on the root, whatever is inserted and deleted at a time, in
\* whatever order the children of a department are found (deleteBean).
THEOREM DeptsHang == Spec => []EveryDeptHangs
  <1>1. Init => Inv /\ TypeInv /\ DeptInv
    BY InitInv, InitFits, InitDepts
  <1>2. Inv /\ TypeInv /\ DeptInv /\ [Next]_vars => (Inv /\ TypeInv /\ DeptInv)'
    BY NextInv, NextFits, NextDepts
  <1>3. TypeInv /\ DeptInv => EveryDeptHangs
    <2> SUFFICES ASSUME TypeInv, DeptInv, ~overlapped, NEW d \in DOMAIN depts
                 PROVE  Climbs(Bmpbh, d)
      BY DEF EveryDeptHangs
    <2>1. /\ DOMAIN Bmpbh = DOMAIN depts /\ \A c \in DOMAIN depts : Bmpbh[c] = depts[c].bmpbh
      BY DEF Bmpbh
    <2>2. IsFiniteSet(DOMAIN depts) /\ DOMAIN depts \subseteq Nat
      BY ChildrenFit, BoundAssumption DEF TypeInv, TypeOK, Bmbh
    <2>3. \A c \in DOMAIN depts : depts[c].bmpbh \in DOMAIN depts \cup {Root} /\ depts[c].bmpbh < c
      BY DEF DeptInv, Parented, TypeInv, DeptsFit
    <2> HIDE DEF Bmpbh
    <2> QED
      BY <2>1, <2>2, <2>3, DownToRoot
  <1> QED
    BY <1>1, <1>2, <1>3, PTL DEF Spec

-----------------------------------------------------------------------------
(* Levels and paths *)

\* A row made from that of department p.
MadeFrom(row, c, p) ==
    row.bmcj = depts[p].bmcj + 1 /\ row.bmlj = Append(depts[p].bmlj, c)

\* Only department 1 is at the top, and the others were made from their parents.
Paths ==
    /\ \A c \in DOMAIN depts :
        /\ depts[c].bmpbh = Root <=> c = 1
        /\ depts[c].bmpbh \in DOMAIN depts => MadeFrom(depts[c], c, depts[c].bmpbh)
    /\ 1 \in DOMAIN depts => depts[1].bmlj = <<1>>

\* Those being inserted will be too, and nothing is under them yet.
ToCome ==
    /\ \A a \in Admin : tx[a].op = "insertDept" /\ tx[a].pc = "commit" =>
        /\ tx[a].dept.bmpbh \in DOMAIN depts =>
             MadeFrom(tx[a].dept, tx[a].bmbh, tx[a].dept.bmpbh)
        /\ \A b \in Admin : tx[b].bmbh # tx[a].dept.bmpbh
    /\ \A a \in Admin, c \in DOMAIN depts : tx[a].bmbh # 0 => depts[c].bmpbh # tx[a].bmbh

PathInv == Paths /\ ToCome

LEMMA InitPaths == Init => PathInv
  <1> SUFFICES ASSUME Init PROVE PathInv
    OBVIOUS
  <1> DEFINE x == [bmpbh |-> Root, bmcj |-> 0, bmlj |-> <<1>>]
             y == [bmpbh |-> 1, bmcj |-> 1, bmlj |-> <<1, 2>>]
  <1>1. \A a \in Admin : tx[a].bmbh = 0 /\ tx[a].op = "insertUser"
    BY DEF Init, Idle
  <1>2. /\ DOMAIN depts = {1, 2} /\ depts[1] = x /\ depts[2] = y
    <2>1. depts = <<x, y>>
      BY DEF Init
    <2> HIDE DEF x, y
    <2> QED
      BY <2>1
  <1>3. /\ x.bmpbh = Root /\ x.bmcj = 0 /\ x.bmlj = <<1>>
        /\ y.bmpbh = 1 /\ y.bmcj = 1 /\ y.bmlj = Append(<<1>>, 2)
    OBVIOUS
  <1> HIDE DEF x, y
  <1>4. Root = 0
    BY NumberAssumption
  <1>5. Paths
    <2>1. /\ depts[1].bmpbh = 0 /\ depts[1].bmlj = <<1>> /\ depts[1].bmcj = 0
          /\ depts[2].bmpbh = 1
      BY ONLY <1>2, <1>3, <1>4
    <2>2. MadeFrom(depts[2], 2, 1)
      <3>1. depts[2].bmcj = 1 /\ depts[2].bmlj = Append(depts[1].bmlj, 2)
        BY ONLY <1>2, <1>3
      <3> QED
        BY ONLY <2>1, <3>1 DEF MadeFrom
    <2> QED
      BY ONLY <1>2, <1>4, <2>1, <2>2 DEF Paths
  <1> QED
    BY <1>1, <1>5 DEF PathInv, ToCome

\* A step of a thread that does not touch departments has to keep what is said of it.
LEMMA PathsKept ==
  ASSUME PathInv, TypeInv, TypeInv', NEW a \in Admin, UNCHANGED depts,
         \A b \in Admin \ {a} : tx'[b] = tx[b],
         tx'[a].bmbh # 0 =>
            /\ \A c \in DOMAIN depts : depts[c].bmpbh # tx'[a].bmbh
            /\ \A b \in Admin \ {a} : tx[b].op = "insertDept" /\ tx[b].pc = "commit" =>
                 tx[b].dept.bmpbh # tx'[a].bmbh,
         tx'[a].op = "insertDept" /\ tx'[a].pc = "commit" =>
            /\ tx'[a].dept.bmpbh \in DOMAIN depts =>
                 MadeFrom(tx'[a].dept, tx'[a].bmbh, tx'[a].dept.bmpbh)
            /\ \A b \in Admin : tx'[b].bmbh # tx'[a].dept.bmpbh
  PROVE  PathInv'
  <1>1. Paths'
    BY DEF PathInv, Paths, MadeFrom
  <1>2. \A b \in Admin : tx'[b].op = "insertDept" /\ tx'[b].pc = "commit" =>
          tx'[b].dept.bmpbh # 0
    <2> SUFFICES ASSUME NEW b \in Admin, tx'[b].op = "insertDept", tx'[b].pc = "commit"
                 PROVE  tx'[b].dept.bmpbh # 0
      OBVIOUS
    <2>1. tx'[b].dept.bmpbh \in 1..keys'.dept
      BY DEF TypeInv, Fits
    <2> QED
      BY <2>1
  <1>3. ToCome'
    <2>1. ASSUME NEW b \in Admin, tx'[b].op = "insertDept", tx'[b].pc = "commit"
          PROVE  /\ tx'[b].dept.bmpbh \in DOMAIN depts =>
                       MadeFrom(tx'[b].dept, tx'[b].bmbh, tx'[b].dept.bmpbh)
                 /\ \A c \in Admin : tx'[c].bmbh # tx'[b].dept.bmpbh
      <3>1. CASE b = a
        BY <2>1, <3>1
      <3>2. CASE b # a
        <4>1. tx'[b] = tx[b]
          BY <3>2
        <4>2. ASSUME NEW c \in Admin PROVE tx'[c].bmbh # tx'[b].dept.bmpbh
          <5>1. CASE c = a /\ tx'[a].bmbh = 0
            BY <1>2, <2>1, <5>1
          <5>2. CASE c = a /\ tx'[a].bmbh # 0
            BY <2>1, <3>2, <4>1, <5>2
          <5>3. CASE c # a
            BY <2>1, <4>1, <5>3 DEF PathInv, ToCome
          <5> QED
            BY <5>1, <5>2, <5>3
        <4> QED
          BY <2>1, <4>1, <4>2 DEF PathInv, ToCome
      <3> QED
        BY <3>1, <3>2
    <2>2. ASSUME NEW b \in Admin, NEW c \in DOMAIN depts, tx'[b].bmbh # 0
          PROVE  depts[c].bmpbh # tx'[b].bmbh
      BY <2>2 DEF PathInv, ToCome
    <2> QED
      BY <2>1, <2>2 DEF ToCome, MadeFrom
  <1> QED
    BY <1>1, <1>3 DEF PathInv

LEMMA KeyPaths ==
  ASSUME Inv, TypeInv, TypeInv', PathInv, NEW a \in Admin, GotKey(a), tx[a].pc = "bmbh"
  PROVE  PathInv'
  <1>1. /\ tx'[a].pc = "parent" /\ tx'[a].bmbh = keys.dept + 1
        /\ \A b \in Admin \ {a} : tx'[b] = tx[b]
        /\ UNCHANGED depts
    BY DeptKeyDrawn
  <1>2. keys.dept \in Nat
    BY Bounds DEF TypeInv
  <1>3. \A c \in DOMAIN depts : depts[c].bmpbh # keys.dept + 1
    <2> SUFFICES ASSUME NEW c \in DOMAIN depts PROVE depts[c].bmpbh # keys.dept + 1
      OBVIOUS
    <2>1. c <= keys.dept /\ depts[c].bmpbh < c /\ c \in Nat /\ depts[c].bmpbh \in Nat
      BY BoundAssumption, NumberAssumption DEF TypeInv, TypeOK, DeptsFit, Dept, Bmbh
    <2> QED
      BY <1>2, <2>1
  <1>4. \A b \in Admin : tx[b].op = "insertDept" /\ tx[b].pc = "commit" =>
          tx[b].dept.bmpbh # keys.dept + 1
    <2> SUFFICES ASSUME NEW b \in Admin, tx[b].op = "insertDept", tx[b].pc = "commit"
                 PROVE  tx[b].dept.bmpbh # keys.dept + 1
      OBVIOUS
    <2>1. tx[b].dept.bmpbh \in 1..keys.dept
      BY DEF TypeInv, Fits
    <2> QED
      BY <1>2, <2>1
  <1> QED
    BY <1>1, <1>3, <1>4, PathsKept

LEMMA ParentPaths ==
  ASSUME Inv, TypeInv, TypeInv', DeptInv, PathInv, NEW a \in Admin, Parent(a), ~Ends(a)
  PROVE  PathInv'
  <1> DEFINE p == tx[a].dept.bmpbh
  <1>1. /\ tx[a].bmbh # 0 /\ tx'[a].bmbh = tx[a].bmbh /\ tx'[a].dept.bmpbh = p
        /\ p \in DOMAIN depts /\ MadeFrom(tx'[a].dept, tx'[a].bmbh, p)
        /\ \A b \in Admin \ {a} : tx'[b] = tx[b]
        /\ UNCHANGED depts
    BY ParentFound DEF MadeFrom
  <1>2. p # 0
    BY <1>1, BoundAssumption DEF TypeInv, TypeOK, Bmbh
  <1>3. \A b \in Admin : tx'[b].bmbh # p
    BY <1>1, <1>2 DEF DeptInv, Pending
  <1>4. \A c \in DOMAIN depts : depts[c].bmpbh # tx[a].bmbh
    BY <1>1 DEF PathInv, ToCome
  <1>5. \A b \in Admin : tx[b].op = "insertDept" /\ tx[b].pc = "commit" =>
          tx[b].dept.bmpbh # tx[a].bmbh
    BY DEF PathInv, ToCome
  <1> QED
    BY <1>1, <1>3, <1>4, <1>5, PathsKept

LEMMA PlainPaths ==
  ASSUME TypeInv, TypeInv', PathInv, NEW a \in Admin, Plain(a)
  PROVE  PathInv'
  <1>1. tx'[a].bmbh = 0
    BY DEF Plain, TypeInv, Fits
  <1> QED
    BY <1>1, PathsKept DEF Plain


\* The new row was made from its parent's, and nothing was put under it before.
LEMMA CommitInsertPaths ==
  ASSUME TypeInv, DeptInv, PathInv, NEW a \in Admin, CommitInsert(a)
  PROVE  PathInv'
  <1>0. PICK n, p : n = tx[a].bmbh /\ p = tx[a].dept.bmpbh
    OBVIOUS
  <1>1. /\ tx'[a] = Idle /\ \A b \in Admin \ {a} : tx'[b] = tx[b]
        /\ tx[a].op = "insertDept" /\ tx[a].pc = "commit" /\ n # 0
        /\ depts' = [d \in DOMAIN depts \cup {n} |-> IF d = n THEN tx[a].dept ELSE depts[d]]
    BY <1>0 DEF CommitInsert, With, TypeInv, TypeOK, Fits
  <1>2. /\ n \notin DOMAIN depts /\ DOMAIN depts' = DOMAIN depts \cup {n}
        /\ depts'[n] = tx[a].dept /\ \A d \in DOMAIN depts : depts'[d] = depts[d]
        /\ \A b \in Admin \ {a} : tx[b].bmbh # n
    BY <1>0, <1>1 DEF DeptInv, Pending
  <1>3. Idle.bmbh = 0 /\ Idle.op = "insertUser"
    BY DEF Idle
  <1>4. p # n /\ p # Root /\ n # 1
    <2>1. p \in 1..keys.dept /\ p < n /\ n \in Nat
      BY <1>0, <1>1, BoundAssumption DEF TypeInv, TypeOK, Fits, Tx, Bmbh
    <2> QED
      BY <2>1, NumberAssumption
  <1>5. p \in DOMAIN depts => MadeFrom(tx[a].dept, n, p)
    BY <1>0, <1>1 DEF PathInv, ToCome
  <1>6. \A c \in DOMAIN depts : depts[c].bmpbh # n
    BY <1>0, <1>1 DEF PathInv, ToCome
  <1>7. Paths'
    <2>1. ASSUME NEW c \in DOMAIN depts
          PROVE  /\ depts'[c].bmpbh = Root <=> c = 1
                 /\ depts'[c].bmpbh \in DOMAIN depts' => MadeFrom(depts[c], c, depts[c].bmpbh)'
      <3>1. depts'[c] = depts[c] /\ depts[c].bmpbh # n
        BY <1>2, <1>6
      <3>2. /\ depts[c].bmpbh = Root <=> c = 1
            /\ depts[c].bmpbh \in DOMAIN depts => MadeFrom(depts[c], c, depts[c].bmpbh)
        BY DEF PathInv, Paths
      <3> QED
        BY <1>2, <3>1, <3>2 DEF MadeFrom
    <2>2. /\ depts'[n].bmpbh # Root /\ n # 1
          /\ depts'[n].bmpbh \in DOMAIN depts' => MadeFrom(depts[n], n, depts[n].bmpbh)'
      <3>1. depts'[n].bmpbh = p
        BY <1>0, <1>2
      <3>2. p \in DOMAIN depts' => depts'[p] = depts[p] /\ p \in DOMAIN depts
        BY <1>2, <1>4
      <3> QED
        BY <1>2, <1>4, <1>5, <3>1, <3>2 DEF MadeFrom
    <2>3. 1 \in DOMAIN depts' => depts'[1].bmlj = <<1>>
      BY <1>2, <1>4 DEF PathInv, Paths
    <2> QED
      BY <1>2, <2>1, <2>2, <2>3 DEF Paths
  <1>8. ToCome'
    <2>1. ASSUME NEW b \in Admin, tx'[b].op = "insertDept", tx'[b].pc = "commit"
          PROVE  /\ tx'[b].dept.bmpbh \in DOMAIN depts' =>
                       MadeFrom(tx[b].dept, tx[b].bmbh, tx[b].dept.bmpbh)'
                 /\ \A c \in Admin : tx'[c].bmbh # tx'[b].dept.bmpbh
      <3>1. b # a /\ tx'[b] = tx[b]
        BY <1>1, <1>3, <2>1
      <3>2. \A c \in Admin : tx[c].bmbh # tx[b].dept.bmpbh
        BY <2>1, <3>1 DEF PathInv, ToCome
      <3>3. tx[b].dept.bmpbh # 0 /\ tx[b].dept.bmpbh # n
        <4>1. tx[b].dept.bmpbh \in 1..keys.dept
          BY <2>1, <3>1 DEF TypeInv, Fits
        <4> QED
          BY <1>0, <3>2, <4>1
      <3>4. tx[b].dept.bmpbh \in DOMAIN depts =>
              MadeFrom(tx[b].dept, tx[b].bmbh, tx[b].dept.bmpbh)
        BY <2>1, <3>1 DEF PathInv, ToCome
      <3>5. \A c \in Admin : tx'[c].bmbh # tx'[b].dept.bmpbh
        BY <1>1, <1>3, <3>1, <3>2, <3>3
      <3>6. tx'[b].dept.bmpbh \in DOMAIN depts' =>
              /\ tx[b].dept.bmpbh \in DOMAIN depts
              /\ depts'[tx[b].dept.bmpbh] = depts[tx[b].dept.bmpbh]
        BY <1>2, <3>1, <3>3
      <3> QED
        BY <3>1, <3>4, <3>5, <3>6 DEF MadeFrom
    <2>2. ASSUME NEW b \in Admin, NEW c \in DOMAIN depts', tx'[b].bmbh # 0
          PROVE  depts'[c].bmpbh # tx'[b].bmbh
      <3>1. b # a /\ tx'[b] = tx[b]
        BY <1>1, <1>3, <2>2
      <3>2. CASE c = n
        BY <1>0, <1>1, <1>2, <3>1, <3>2 DEF PathInv, ToCome
      <3>3. CASE c # n
        BY <1>2, <2>2, <3>1, <3>3 DEF PathInv, ToCome
      <3> QED
        BY <3>2, <3>3
    <2> QED
      BY <2>1, <2>2 DEF ToCome
  <1> QED
    BY <1>7, <1>8 DEF PathInv

LEMMA CommitDeletePaths ==
  ASSUME TypeInv, PathInv, NEW a \in Admin, CommitDelete(a)
  PROVE  PathInv'
  <1>1. /\ tx'[a] = Idle /\ \A b \in Admin \ {a} : tx'[b] = tx[b]
        /\ depts' = [d \in DOMAIN depts \ tx[a].gone |-> depts[d]]
    BY DEF CommitDelete, Without, TypeInv, TypeOK
  <1>2. DOMAIN depts' \subseteq DOMAIN depts /\ \A d \in DOMAIN depts' : depts'[d] = depts[d]
    BY <1>1
  <1>3. Idle.bmbh = 0 /\ Idle.op = "insertUser"
    BY DEF Idle
  <1>4. Paths'
    BY <1>2 DEF PathInv, Paths, MadeFrom
  <1>5. ToCome'
    <2>1. ASSUME NEW b \in Admin, tx'[b].op = "insertDept", tx'[b].pc = "commit"
          PROVE  /\ tx'[b].dept.bmpbh \in DOMAIN depts' =>
                       MadeFrom(tx[b].dept, tx[b].bmbh, tx[b].dept.bmpbh)'
                 /\ \A c \in Admin : tx'[c].bmbh # tx'[b].dept.bmpbh
      <3>1. tx'[b] = tx[b]
        BY <1>1, <1>3, <2>1
      <3>2. /\ tx[b].dept.bmpbh \in DOMAIN depts =>
                 MadeFrom(tx[b].dept, tx[b].bmbh, tx[b].dept.bmpbh)
            /\ \A c \in Admin : tx[c].bmbh # tx[b].dept.bmpbh
        BY <2>1, <3>1 DEF PathInv, ToCome
      <3>3. tx[b].dept.bmpbh # 0
        <4>1. tx[b].dept.bmpbh \in 1..keys.dept
          BY <2>1, <3>1 DEF TypeInv, Fits
        <4> QED
          BY <4>1
      <3> QED
        BY <1>1, <1>2, <1>3, <3>1, <3>2, <3>3 DEF MadeFrom
    <2>2. ASSUME NEW b \in Admin, NEW c \in DOMAIN depts', tx'[b].bmbh # 0
          PROVE  depts'[c].bmpbh # tx'[b].bmbh
      <3>1. tx'[b] = tx[b]
        BY <1>1, <1>3, <2>2
      <3> QED
        BY <1>2, <2>2, <3>1 DEF PathInv, ToCome
    <2> QED
      BY <2>1, <2>2 DEF ToCome
  <1> QED
    BY <1>4, <1>5 DEF PathInv

LEMMA NextPaths == Inv /\ TypeInv /\ DeptInv /\ PathInv /\ [Next]_vars => PathInv'
  <1> SUFFICES ASSUME Inv, TypeInv, DeptInv, PathInv, [Next]_vars PROVE PathInv'
    OBVIOUS
  <1>0. TypeInv'
    BY NextFits
  <1>1. CASE UNCHANGED <<depts, tx, overlapped>>
    BY <1>1 DEF PathInv, Paths, ToCome, MadeFrom
  <1>2. ASSUME NEW a \in Admin,
               \/ Plain(a)
               \/ tx[a].pc = "bmbh" /\ GotKey(a)
               \/ Parent(a) /\ ~Ends(a)
               \/ CommitInsert(a) \/ CommitDelete(a)
        PROVE  PathInv'
    BY <1>0, <1>2, PlainPaths, KeyPaths, ParentPaths, CommitInsertPaths, CommitDeletePaths
  <1> QED
    BY <1>0, <1>1, <1>2, Cases

-----------------------------------------------------------------------------
(* What AddItem does *)

\* One turn of addTreeItems, where s is what the recursion returned.
Added(t, up, d, s) ==
    IF up[d] = Root THEN AttachTop(t, d)
    ELSE LET r == IF up[d] \in DOMAIN t.at THEN t ELSE s
         IN  Attach(r, d, r.at[up[d]])

\* The rows that climb have parents of a smaller rank, so the recursion ends.
Ranked(up, rank, N) ==
    /\ N \in Nat /\ rank \in [Climbers(up) -> 0..N]
    /\ \A d \in Climbers(up) : up[d] = Root \/ (up[d] \in Climbers(up) /\ rank[up[d]] < rank[d])

LEMMA AddItemTurns ==
  ASSUME NEW up, NEW rank, NEW N, Ranked(up, rank, N), NEW t, NEW c \in Climbers(up)
  PROVE  AddItem(t, up, c) = Added(t, up, c, AddItem(t, up, up[c]))
  <1> DEFINE Solves(g, D) == g = [d \in D |-> Added(t, up, d, g[up[d]])]
             D(n) == {d \in Climbers(up) : rank[d] < n}
             Bad == {n \in Nat : ~ \E g : Solves(g, D(n))}
             add == CHOOSE g : Solves(g, Climbers(up))
  <1>1. \A e : AddItem(t, up, e) = add[e]
    BY DEF AddItem, Added
  <1>2. Bad = {}
    <2> SUFFICES ASSUME Bad # {} PROVE FALSE
      OBVIOUS
    <2>1. PICK n \in Bad : \A m \in Bad : ~ (<<m, n>> \in OpToRel(<, Nat))
      <3> HIDE DEF Bad
      <3>1. Bad \subseteq Nat
        BY DEF Bad
      <3> QED
        BY <3>1, NatLessThanWellFounded, WFMin
    <2>2. n # 0
      <3>1. D(0) = {}
        BY DEF Ranked
      <3>2. Solves([d \in {} |-> 0], D(0))
        BY <3>1
      <3> QED
        BY <2>1, <3>2
    <2>3. PICK g : Solves(g, D(n - 1))
      <3>0. n \in Nat
        OBVIOUS
      <3>1. n - 1 \in Nat /\ n - 1 < n
        BY ONLY <2>2, <3>0
      <3>2. n \in Nat /\ <<n - 1, n>> \in OpToRel(<, Nat)
        BY <2>1, <3>1 DEF OpToRel
      <3>3. n - 1 \notin Bad
        BY ONLY <2>1, <3>2
      <3> QED
        BY <3>1, <3>3
    <2> DEFINE h == [d \in D(n) |-> Added(t, up, d, g[up[d]])]
    <2>4. \A d \in D(n) : up[d] # Root => up[d] \in D(n) /\ up[d] \in D(n - 1)
      <3> SUFFICES ASSUME NEW d \in Climbers(up), rank[d] < n, up[d] # Root
                   PROVE  up[d] \in Climbers(up) /\ rank[up[d]] < n /\ rank[up[d]] < n - 1
        OBVIOUS
      <3>1. n \in Nat /\ N \in Nat /\ rank[d] \in 0..N /\ up[d] \in Climbers(up)
        BY <2>1 DEF Ranked
      <3>2. rank[up[d]] \in 0..N /\ rank[up[d]] < rank[d]
        BY <3>1 DEF Ranked
      <3> QED
        BY <3>1, <3>2
    <2>5. \A d \in D(n - 1) : d \in D(n) /\ h[d] = g[d]
      <3> SUFFICES ASSUME NEW d \in Climbers(up), rank[d] < n - 1
                   PROVE  d \in D(n) /\ h[d] = g[d]
        OBVIOUS
      <3>1. n \in Nat /\ N \in Nat /\ rank[d] \in 0..N
        BY <2>1 DEF Ranked
      <3>2. d \in D(n) /\ d \in D(n - 1)
        BY <3>1
      <3>3. g[d] = Added(t, up, d, g[up[d]])
        BY <2>3, <3>2
      <3> HIDE DEF D
      <3> QED
        BY <3>2, <3>3
    <2>6. ASSUME NEW d \in D(n)
          PROVE  Added(t, up, d, g[up[d]]) = Added(t, up, d, h[up[d]])
      BY <2>4, <2>5 DEF Added
    <2>7. Solves(h, D(n))
      <3> HIDE DEF D
      <3> QED
        BY <2>6
    <2> QED
      BY <2>1, <2>7
  <1>3. Solves(add, Climbers(up))
    <2>1. N + 1 \in Nat /\ D(N + 1) = Climbers(up)
      BY DEF Ranked
    <2>2. \E g : Solves(g, Climbers(up))
      <3> HIDE DEF D, Solves
      <3> QED
        BY <1>2, <2>1
    <2> HIDE DEF Solves
    <2> QED
      BY <2>2
  <1> HIDE DEF add
  <1> QED
    BY <1>1, <1>3


-----------------------------------------------------------------------------
(* A tree that is being made *)

\* The keys are each in one node, which the map tells, and that is in the list
\* of its parent.
Grows(t, up, K) ==
    /\ \E n \in Nat : DOMAIN t.nodes = 1..n /\ Len(t.nodes) = n
    /\ DOMAIN t.at = K
    /\ \A k \in K : t.at[k] \in DOMAIN t.nodes /\ t.nodes[t.at[k]].key = k
    /\ \A i \in DOMAIN t.nodes :
         LET n == t.nodes[i]
         IN  /\ n.key \in K /\ t.at[n.key] = i
             /\ IF n.over = 0 THEN up[n.key] = Root
                ELSE n.over \in DOMAIN t.nodes /\ up[n.key] = t.nodes[n.over].key

LEMMA NoTreeGrows == \A up : Grows(NoTree, up, {})
  BY DEF Grows, NoTree

\* A node is put in that was not there, under its parent.
LEMMA AttachGrows ==
  ASSUME NEW t, NEW up, NEW K, Grows(t, up, K), NEW c, c \notin K, NEW i,
         IF i = 0 THEN up[c] = Root ELSE i \in DOMAIN t.nodes /\ up[c] = t.nodes[i].key
  PROVE  Grows(Attach(t, c, i), up, K \cup {c})
  <1> DEFINE m == [key |-> c, over |-> i]
             s == Append(t.nodes, m)
             at == [d \in DOMAIN t.at \cup {c} |-> IF d = c THEN Len(t.nodes) + 1 ELSE t.at[d]]
             r == Attach(t, c, i)
  <1>1. PICK n \in Nat : DOMAIN t.nodes = 1..n /\ Len(t.nodes) = n
    BY DEF Grows
  <1>2. r.nodes = s /\ r.at = at
    BY DEF Attach
  <1>3. /\ DOMAIN s = 1..(n + 1) /\ Len(s) = n + 1 /\ s[n + 1] = m
        /\ \A j \in 1..n : s[j] = t.nodes[j]
    BY <1>1
  <1>4. m.key = c /\ m.over = i
    OBVIOUS
  <1>5. n + 1 \notin 1..n /\ n + 1 # 0 /\ \A j \in 1..(n + 1) : j \in 1..n \/ j = n + 1
    OBVIOUS
  <1>6. /\ DOMAIN at = K \cup {c} /\ at[c] = n + 1
        /\ \A k \in K : at[k] = t.at[k] /\ at[k] \in 1..n /\ t.nodes[at[k]].key = k
    BY <1>1 DEF Grows
  <1> HIDE DEF m, s, at, r
  <1>7. \A k \in K \cup {c} : at[k] \in 1..(n + 1) /\ s[at[k]].key = k
    <2>1. s[at[c]].key = c /\ at[c] \in 1..(n + 1)
      BY <1>3, <1>4, <1>6
    <2>2. ASSUME NEW k \in K PROVE at[k] \in 1..(n + 1) /\ s[at[k]].key = k
      BY <1>3, <1>6
    <2> QED
      BY <2>1, <2>2
  <1>8. ASSUME NEW j \in 1..(n + 1)
        PROVE  /\ s[j].key \in K \cup {c} /\ at[s[j].key] = j
               /\ IF s[j].over = 0 THEN up[s[j].key] = Root
                  ELSE s[j].over \in 1..(n + 1) /\ up[s[j].key] = s[s[j].over].key
    <2>1. CASE j = n + 1
      <3>1. s[j].key = c /\ s[j].over = i
        BY <1>3, <1>4, <2>1
      <3>2. CASE i = 0
        BY <1>6, <2>1, <3>1, <3>2
      <3>3. CASE i # 0
        BY <1>1, <1>3, <1>6, <2>1, <3>1, <3>3
      <3> QED
        BY <3>2, <3>3
    <2>2. CASE j \in 1..n
      <3>1. s[j] = t.nodes[j]
        BY <1>3, <2>2
      <3>2. /\ s[j].key \in K /\ t.at[s[j].key] = j
            /\ IF s[j].over = 0 THEN up[s[j].key] = Root
               ELSE s[j].over \in 1..n /\ up[s[j].key] = t.nodes[s[j].over].key
        BY <1>1, <2>2, <3>1 DEF Grows
      <3>3. CASE s[j].over = 0
        BY <1>6, <3>2, <3>3
      <3>4. CASE s[j].over # 0
        BY <1>3, <1>6, <3>2, <3>4
      <3> QED
        BY <3>3, <3>4
    <2> QED
      BY <1>5, <2>1, <2>2
  <1>9. n + 1 \in Nat /\ DOMAIN r.nodes = 1..(n + 1) /\ Len(r.nodes) = n + 1
    BY <1>2, <1>3
  <1>10. DOMAIN r.at = K \cup {c}
    BY <1>2, <1>6
  <1>11. \A k \in K \cup {c} : r.at[k] \in DOMAIN r.nodes /\ r.nodes[r.at[k]].key = k
    BY <1>2, <1>3, <1>7
  <1>12. \A j \in DOMAIN r.nodes :
           /\ r.nodes[j].key \in K \cup {c} /\ r.at[r.nodes[j].key] = j
           /\ IF r.nodes[j].over = 0 THEN up[r.nodes[j].key] = Root
              ELSE /\ r.nodes[j].over \in DOMAIN r.nodes
                   /\ up[r.nodes[j].key] = r.nodes[r.nodes[j].over].key
    BY <1>2, <1>3, <1>8
  <1>13. Grows(r, up, K \cup {c})
    BY ONLY <1>9, <1>10, <1>11, <1>12 DEF Grows
  <1> QED
    BY <1>13 DEF r

\* Such a tree has as many nodes as keys.
LEMMA GrownHasNoTwins ==
  ASSUME NEW t, NEW up, NEW K, Grows(t, up, K)
  PROVE  Keys(t) = K /\ Len(t.nodes) = Cardinality(Keys(t))
  <1>1. PICK n \in Nat : DOMAIN t.nodes = 1..n /\ Len(t.nodes) = n
    BY DEF Grows
  <1>2. Keys(t) = K
    <2>1. Keys(t) \subseteq K
      BY DEF Keys, Grows
    <2>2. ASSUME NEW k \in K PROVE k \in Keys(t)
      BY DEF Keys, Grows
    <2> QED
      BY <2>1, <2>2
  <1> DEFINE f == [i \in 1..n |-> t.nodes[i].key]
  <1>3. f \in Bijection(1..n, K)
    <2>1. f \in [1..n -> K]
      BY <1>1 DEF Grows
    <2>2. \A i, j \in 1..n : f[i] = f[j] => i = j
      BY <1>1 DEF Grows
    <2>3. \A k \in K : \E i \in 1..n : f[i] = k
      BY <1>1 DEF Grows
    <2> HIDE DEF f
    <2> QED
      BY <2>1, <2>2, <2>3 DEF Bijection, Injection, Surjection, IsInjective
  <1>4. Cardinality(K) = n
    <2> HIDE DEF f
    <2>1. ExistsBijection(1..n, K)
      BY <1>3 DEF ExistsBijection
    <2> QED
      BY <2>1, FS_CountingElements
  <1> QED
    BY <1>1, <1>2, <1>4


-----------------------------------------------------------------------------
(* The rows one after the other *)

DeptsTree(up, rows) == Construct(up, rows, Latest, LAMBDA d : d)

\* g has the tree of every subset of the rows.
Turns(g, up, rows) ==
    /\ g[{}] = NoTree
    /\ \A s \in SUBSET rows : s # {} => g[s] = AddItem(g[s \ {Latest(s)}], up, Latest(s))

LEMMA ConstructTurns ==
  ASSUME NEW up, NEW rows, IsFiniteSet(rows),
         \A s \in SUBSET rows : s # {} => Latest(s) \in s
  PROVE  \E g : DeptsTree(up, rows) = g[rows] /\ Turns(g, up, rows)
  <1> DEFINE Turn(g, s) == IF s = {} THEN NoTree ELSE AddItem(g[s \ {Latest(s)}], up, Latest(s))
             Solves(g, D) == g = [s \in D |-> Turn(g, s)]
             iter == CHOOSE g : Solves(g, SUBSET rows)
  <1>1. DeptsTree(up, rows) = iter[rows]
    BY DEF DeptsTree, Construct, MapThenFoldSet
  <1> DEFINE D(n) == {s \in SUBSET rows : Cardinality(s) < n}
             Bad == {n \in Nat : ~ \E g : Solves(g, D(n))}
  <1>2. \A s \in SUBSET rows : IsFiniteSet(s) /\ Cardinality(s) \in Nat
                               /\ Cardinality(s) <= Cardinality(rows)
    BY FS_Subset, FS_CardinalityType
  <1>3. ASSUME NEW s \in SUBSET rows, s # {}
        PROVE  /\ s \ {Latest(s)} \in SUBSET rows
               /\ Cardinality(s \ {Latest(s)}) < Cardinality(s)
    <2>1. Latest(s) \in s /\ IsFiniteSet(s) /\ Cardinality(s) \in Nat
      BY <1>2, <1>3
    <2>2. Cardinality(s \ {Latest(s)}) = Cardinality(s) - 1
      BY <2>1, FS_RemoveElement
    <2> QED
      BY <2>1, <2>2
  <1>4. Bad = {}
    <2> SUFFICES ASSUME Bad # {} PROVE FALSE
      OBVIOUS
    <2>1. PICK n \in Bad : \A m \in Bad : ~ (<<m, n>> \in OpToRel(<, Nat))
      <3>1. Bad \subseteq Nat
        OBVIOUS
      <3> HIDE DEF Bad
      <3> QED
        BY <3>1, NatLessThanWellFounded, WFMin
    <2>2. n \in Nat
      OBVIOUS
    <2>3. n # 0
      <3>1. D(0) = {}
        BY <1>2
      <3>2. Solves([s \in {} |-> NoTree], D(0))
        BY <3>1
      <3> QED
        BY <2>1, <3>2
    <2>4. PICK g : Solves(g, D(n - 1))
      <3>1. n - 1 \in Nat /\ n - 1 < n
        BY ONLY <2>2, <2>3
      <3>2. <<n - 1, n>> \in OpToRel(<, Nat)
        BY ONLY <2>2, <3>1 DEF OpToRel
      <3>3. n - 1 \notin Bad
        BY ONLY <2>1, <3>2
      <3> HIDE DEF D, Solves
      <3> QED
        BY <3>1, <3>3
    <2> DEFINE h == [s \in D(n) |-> Turn(g, s)]
    <2>5. \A s \in D(n) : s # {} => s \ {Latest(s)} \in D(n - 1)
      <3> SUFFICES ASSUME NEW s \in SUBSET rows, Cardinality(s) < n, s # {}
                   PROVE  Cardinality(s \ {Latest(s)}) < n - 1
        BY <1>3
      <3>1. s \ {Latest(s)} \in SUBSET rows /\ Cardinality(s \ {Latest(s)}) < Cardinality(s)
        BY <1>3
      <3>2. Cardinality(s) \in Nat /\ Cardinality(s \ {Latest(s)}) \in Nat
        BY <1>2, <3>1
      <3> QED
        BY <2>2, <3>1, <3>2
    <2>6. \A s \in D(n - 1) : s \in D(n) /\ h[s] = g[s]
      <3> SUFFICES ASSUME NEW s \in SUBSET rows, Cardinality(s) < n - 1
                   PROVE  s \in D(n) /\ h[s] = g[s]
        OBVIOUS
      <3>0. Cardinality(s) \in Nat
        BY <1>2
      <3>1. s \in D(n) /\ s \in D(n - 1)
        BY <2>2, <3>0
      <3>2. g[s] = Turn(g, s)
        BY <2>4, <3>1
      <3> HIDE DEF D, Turn
      <3> QED
        BY <3>1, <3>2
    <2>7. \A s \in D(n) : Turn(g, s) = Turn(h, s)
      <3> HIDE DEF D, h
      <3> QED
        BY <2>5, <2>6
    <2>8. Solves(h, D(n))
      <3> HIDE DEF D, Turn
      <3> QED
        BY <2>7
    <2> QED
      BY <2>1, <2>8
  <1>5. Solves(iter, SUBSET rows)
    <2>1. PICK k \in Nat : D(k) = SUBSET rows
      <3>1. Cardinality(rows) + 1 \in Nat /\ D(Cardinality(rows) + 1) = SUBSET rows
        BY <1>2, FS_CardinalityType
      <3> HIDE DEF D
      <3> QED
        BY <3>1
    <2>2. \E g : Solves(g, SUBSET rows)
      <3> HIDE DEF D, Solves
      <3>1. \E g : Solves(g, D(k))
        BY ONLY <1>4
      <3> QED
        BY ONLY <2>1, <3>1
    <2> HIDE DEF Solves
    <2> QED
      BY <2>2
  <1> HIDE DEF iter
  <1>6. {} \in SUBSET rows
    OBVIOUS
  <1>7. Turns(iter, up, rows)
    BY <1>5, <1>6 DEF Turns
  <1> QED
    BY <1>1, <1>7


Ups(up, s) == {up[e] : e \in s} \ {Root}

\* AddItem puts in a row, and what it hangs on if that is not a row itself.
LEMMA AddItemGrows ==
  ASSUME NEW up, NEW rank, NEW N, Ranked(up, rank, N), Root \notin DOMAIN up,
         NEW t, NEW K, Grows(t, up, K), NEW x \in Climbers(up), x \notin K, up[x] # x,
         up[x] \in K \cup {Root} \/ up[up[x]] = Root
  PROVE  Grows(AddItem(t, up, x), up, K \cup {x} \cup ({up[x]} \ {Root}))
  <1> DEFINE q == up[x]
             s == AddItem(t, up, q)
  <1>1. AddItem(t, up, x) = Added(t, up, x, s) /\ DOMAIN t.at = K
    BY AddItemTurns DEF Grows
  <1>2. \A u, k : Grows(u, up, k) => \A j \in k : /\ u.at[j] \in DOMAIN u.nodes /\ u.at[j] # 0
                                                  /\ u.nodes[u.at[j]].key = j
    BY DEF Grows
  <1>3. CASE q = Root
    <2>1. AddItem(t, up, x) = Attach(t, x, 0)
      BY <1>1, <1>3 DEF Added, AttachTop
    <2>2. Grows(Attach(t, x, 0), up, K \cup {x})
      BY <1>3, AttachGrows
    <2> QED
      BY <1>3, <2>1, <2>2
  <1>4. CASE q # Root /\ q \in K
    <2>1. AddItem(t, up, x) = Attach(t, x, t.at[q])
      BY <1>1, <1>4 DEF Added
    <2>2. Grows(Attach(t, x, t.at[q]), up, K \cup {x})
      BY <1>2, <1>4, AttachGrows
    <2> QED
      BY <1>4, <2>1, <2>2
  <1>5. CASE q # Root /\ q \notin K
    <2>1. q \in Climbers(up) /\ up[q] = Root
      BY <1>5 DEF Ranked
    <2>2. s = Attach(t, q, 0)
      <3>1. s = Added(t, up, q, AddItem(t, up, up[q]))
        BY <2>1, AddItemTurns
      <3> QED
        BY <1>1, <1>5, <2>1, <3>1 DEF Added, AttachTop
    <2>3. Grows(s, up, K \cup {q})
      BY <1>5, <2>1, <2>2, AttachGrows
    <2>4. AddItem(t, up, x) = Attach(s, x, s.at[q])
      BY <1>1, <1>5 DEF Added
    <2>5. Grows(Attach(s, x, s.at[q]), up, (K \cup {q}) \cup {x})
      <3> HIDE DEF s
      <3>1. s.at[q] \in DOMAIN s.nodes /\ s.at[q] # 0 /\ s.nodes[s.at[q]].key = q
        BY <1>2, <2>3
      <3> QED
        BY <2>3, <3>1, AttachGrows
    <2>6. K \cup {x} \cup ({q} \ {Root}) = (K \cup {q}) \cup {x}
      BY <1>5
    <2> HIDE DEF s
    <2> QED
      BY ONLY <2>4, <2>5, <2>6
  <1> QED
    BY <1>3, <1>4, <1>5

LEMMA TreeGrows ==
  ASSUME NEW up, NEW rank, NEW N, Ranked(up, rank, N), Root \notin DOMAIN up,
         NEW rows \in SUBSET Climbers(up), IsFiniteSet(rows),
         \A s \in SUBSET rows : s # {} => Latest(s) \in s /\ \A e \in s : up[e] # Latest(s),
         \A e \in rows : up[e] \in rows \cup {Root} \/ up[up[e]] = Root
  PROVE  Grows(DeptsTree(up, rows), up, rows \cup Ups(up, rows))
  <1>0. PICK g : DeptsTree(up, rows) = g[rows] /\ Turns(g, up, rows)
    <2>1. IsFiniteSet(rows) /\ \A s \in SUBSET rows : s # {} => Latest(s) \in s
      OBVIOUS
    <2> QED
      BY ONLY <2>1, ConstructTurns
  <1>1. /\ g[{}] = NoTree
        /\ \A s \in SUBSET rows : s # {} => g[s] = AddItem(g[s \ {Latest(s)}], up, Latest(s))
    BY <1>0 DEF Turns
  <1> DEFINE Whole(s) == \A e \in s : up[e] \in rows => up[e] \in s
             Right(s) == Grows(g[s], up, s \cup Ups(up, s))
             Bad == {s \in SUBSET rows : Whole(s) /\ ~Right(s)}
             R == StrictSubsetOrdering(rows)
  <1>2. Bad = {}
    <2> SUFFICES ASSUME Bad # {} PROVE FALSE
      OBVIOUS
    <2>1. IsWellFoundedOn(R, SUBSET rows)
      BY FS_StrictSubsetOrderingWellFounded, FS_FiniteSubsetsOfFinite
    <2>2. PICK s \in Bad : \A r \in Bad : <<r, s>> \notin R
      <3> HIDE DEF R
      <3>1. Bad \in SUBSET (SUBSET rows)
        OBVIOUS
      <3> HIDE DEF Bad
      <3> QED
        BY <2>1, <3>1, WFMin
    <2>3. s \in SUBSET rows /\ Whole(s) /\ ~Right(s)
      OBVIOUS
    <2>4. s # {}
      <3>1. {} \cup Ups(up, {}) = {}
        BY DEF Ups
      <3>2. Right({})
        BY <1>1, <3>1, NoTreeGrows
      <3> QED
        BY <2>3, <3>2
    <2> DEFINE x == Latest(s)
               r == s \ {x}
               K == r \cup Ups(up, r)
    <2>5. x \in s /\ \A e \in s : up[e] # x
      BY <2>3, <2>4
    <2>6. r \in SUBSET rows /\ <<r, s>> \in R
      BY <2>3, <2>5 DEF StrictSubsetOrdering
    <2> HIDE DEF x
    <2>7. Whole(r)
      BY <2>3, <2>5
    <2>8. Grows(g[r], up, K)
      <3> HIDE DEF Whole
      <3>1. r \in Bad \/ Right(r)
        BY <2>6, <2>7
      <3> HIDE DEF Bad, r, R
      <3>2. Right(r)
        BY <2>2, <2>6, <3>1
      <3> QED
        BY <3>2
    <2>9. x \in Climbers(up) /\ x \notin K /\ up[x] # x
      BY <2>3, <2>5 DEF Ups
    <2>10. up[x] \in K \cup {Root} \/ up[up[x]] = Root
      <3>1. CASE up[x] \in rows
        BY <2>3, <2>5, <3>1
      <3>2. CASE up[x] \notin rows
        BY <2>3, <2>5, <3>2
      <3> QED
        BY <3>1, <3>2
    <2>11. K \cup {x} \cup ({up[x]} \ {Root}) = s \cup Ups(up, s)
      <3>1. s = r \cup {x}
        BY <2>5
      <3>2. Ups(up, s) = Ups(up, r) \cup ({up[x]} \ {Root})
        BY <3>1 DEF Ups
      <3> QED
        BY <3>1, <3>2
    <2>12. g[s] = AddItem(g[r], up, x)
      BY <1>1, <2>3, <2>4 DEF x
    <2>13. Grows(AddItem(g[r], up, x), up, K \cup {x} \cup ({up[x]} \ {Root}))
      <3> HIDE DEF K, r
      <3> QED
        BY <2>8, <2>9, <2>10, AddItemGrows
    <2> QED
      BY <2>3, <2>11, <2>12, <2>13
  <1>3. Whole(rows) /\ rows \in SUBSET rows
    OBVIOUS
  <1> HIDE DEF Whole
  <1> QED
    BY <1>0, <1>2, <1>3

-----------------------------------------------------------------------------
(* Tables whose rows all hang on the root *)

LEMMA LineTurns ==
  ASSUME NEW up, IsFiniteSet(DOMAIN up), NEW c
  PROVE  Line(up, c) = IF c \in DOMAIN up THEN {c} \cup Line(up, up[c]) ELSE {c}
  <1>1. /\ c \in Line(up, c) /\ Closed(up, Line(up, c))
        /\ \A S : c \in S /\ Closed(up, S) => Line(up, c) \subseteq S
    BY LineIsLeast
  <1>2. CASE c \notin DOMAIN up
    <2>1. c \in {c} /\ Closed(up, {c})
      BY <1>2 DEF Closed
    <2>2. Line(up, c) \subseteq {c}
      BY ONLY <1>1, <2>1
    <2> QED
      BY <1>1, <1>2, <2>2
  <1>3. CASE c \in DOMAIN up
    <2>1. /\ up[c] \in Line(up, up[c]) /\ Closed(up, Line(up, up[c]))
          /\ \A S : up[c] \in S /\ Closed(up, S) => Line(up, up[c]) \subseteq S
      BY LineIsLeast
    <2>2. up[c] \in Line(up, c)
      BY <1>1, <1>3 DEF Closed
    <2>3. Line(up, up[c]) \subseteq Line(up, c)
      BY ONLY <1>1, <2>1, <2>2
    <2>4. c \in {c} \cup Line(up, up[c]) /\ Closed(up, {c} \cup Line(up, up[c]))
      BY <2>1 DEF Closed
    <2>5. Line(up, c) \subseteq {c} \cup Line(up, up[c])
      BY ONLY <1>1, <2>4
    <2> QED
      BY <1>1, <1>3, <2>3, <2>5
  <1> QED
    BY <1>2, <1>3

Hangs(up) ==
    /\ IsFiniteSet(DOMAIN up) /\ Root \notin DOMAIN up
    /\ \A c \in DOMAIN up : Climbs(up, c)

\* A parent is a row or the root, and some row of every line is at the top.
LEMMA HangingRows ==
  ASSUME NEW up, Hangs(up), NEW c \in DOMAIN up
  PROVE  /\ up[c] \in DOMAIN up \cup {Root}
         /\ \E d \in DOMAIN up : d \in Line(up, c) /\ up[d] = Root
  <1>1. IsFiniteSet(DOMAIN up) /\ Root \in Line(up, c) /\ c # Root /\ Root \notin DOMAIN up
    BY DEF Hangs, Climbs
  <1>2. up[c] \in DOMAIN up \cup {Root}
    <2> SUFFICES ASSUME up[c] \notin DOMAIN up PROVE up[c] = Root
      OBVIOUS
    <2>1. Line(up, c) = {c} \cup Line(up, up[c]) /\ Line(up, up[c]) = {up[c]}
      BY <1>1, LineTurns
    <2> QED
      BY <1>1, <2>1
  <1>3. \E d \in DOMAIN up : d \in Line(up, c) /\ up[d] = Root
    <2> SUFFICES ASSUME \A d \in DOMAIN up : d \in Line(up, c) => up[d] # Root PROVE FALSE
      OBVIOUS
    <2>1. c \in Line(up, c) /\ Closed(up, Line(up, c))
      BY <1>1, LineIsLeast
    <2>2. c \in Line(up, c) \ {Root} /\ Closed(up, Line(up, c) \ {Root})
      BY <1>1, <2>1 DEF Closed
    <2>3. Line(up, c) \subseteq Line(up, c) \ {Root}
      BY ONLY <1>1, <2>2, LineIsLeast
    <2> QED
      BY <1>1, <2>3
  <1> QED
    BY <1>2, <1>3

\* What is above the rows is what they hang on.
LEMMA LinesOfRows ==
  ASSUME NEW up, IsFiniteSet(DOMAIN up), Root \notin DOMAIN up,
         NEW rows \in SUBSET DOMAIN up,
         \A e \in rows : up[e] \in rows \cup {Root} \/ up[up[e]] = Root
  PROVE  rows \cup Ups(up, rows) = (UNION {Line(up, c) : c \in rows}) \ {Root}
  <1> DEFINE S == rows \cup Ups(up, rows) \cup {Root}
  <1>1. Closed(up, S)
    BY DEF Closed, Ups
  <1>2. ASSUME NEW c \in rows PROVE Line(up, c) \subseteq S
    <2>1. c \in S
      OBVIOUS
    <2> HIDE DEF S
    <2> QED
      BY <1>1, <2>1, LineIsLeast
  <1>3. ASSUME NEW c \in rows PROVE c \in Line(up, c) /\ up[c] \in Line(up, c)
    BY LineIsLeast DEF Closed
  <1>4. (UNION {Line(up, c) : c \in rows}) \ {Root} \subseteq rows \cup Ups(up, rows)
    BY <1>2
  <1>5. rows \cup Ups(up, rows) \subseteq (UNION {Line(up, c) : c \in rows}) \ {Root}
    <2>1. ASSUME NEW x \in rows PROVE x \in (UNION {Line(up, c) : c \in rows}) \ {Root}
      BY <1>3
    <2>2. ASSUME NEW x \in Ups(up, rows) PROVE x \in (UNION {Line(up, c) : c \in rows}) \ {Root}
      <3>1. PICK e \in rows : x = up[e] /\ x # Root
        BY DEF Ups
      <3> QED
        BY <1>3, <3>1
    <2> QED
      BY <2>1, <2>2
  <1> QED
    BY <1>4, <1>5

\* A tree that grew from the rows is what it should be.
LEMMA GrownShows ==
  ASSUME NEW up, IsFiniteSet(DOMAIN up), Root \notin DOMAIN up,
         NEW rows \in SUBSET DOMAIN up,
         \A e \in rows : up[e] \in rows \cup {Root} \/ up[up[e]] = Root,
         NEW t, Grows(t, up, rows \cup Ups(up, rows))
  PROVE  ShowsOnce(t, up, rows)
  <1>1. /\ Keys(t) = (UNION {Line(up, c) : c \in rows}) \ {Root}
        /\ Len(t.nodes) = Cardinality(Keys(t))
    BY GrownHasNoTwins, LinesOfRows
  <1>2. \A i \in DOMAIN t.nodes :
          up[t.nodes[i].key] = IF t.nodes[i].over = 0 THEN Root
                               ELSE t.nodes[t.nodes[i].over].key
    BY DEF Grows
  <1> QED
    BY <1>1, <1>2 DEF ShowsOnce


-----------------------------------------------------------------------------
(* The order of the query, and LIKE *)

LEMMA Topmost ==
  ASSUME NEW S, S # {}, NEW N \in Nat, NEW f \in [S -> 0..N]
  PROVE  \E m \in S : \A x \in S : f[x] <= f[m]
  <1> DEFINE T == {n \in Nat : \E x \in S : n = N - f[x]}
  <1>1. \A x \in S : N - f[x] \in T
    OBVIOUS
  <1>2. PICK n \in T : \A k \in T : ~ (<<k, n>> \in OpToRel(<, Nat))
    <2>1. T \subseteq Nat /\ T # {}
      BY <1>1
    <2> HIDE DEF T
    <2> QED
      BY <2>1, NatLessThanWellFounded, WFMin
  <1>3. PICK m \in S : n = N - f[m]
    OBVIOUS
  <1>4. ASSUME NEW x \in S PROVE f[x] <= f[m]
    <2>1. N - f[x] \in T /\ N - f[x] \in Nat /\ n \in Nat
      BY <1>1
    <2>2. ~ (N - f[x] < n)
      BY <1>2, <2>1 DEF OpToRel
    <2>3. f[x] \in 0..N /\ f[m] \in 0..N
      OBVIOUS
    <2> HIDE DEF T
    <2> QED
      BY ONLY <1>3, <2>2, <2>3, N \in Nat
  <1> QED
    BY <1>4

LEMMA LatestIsLast ==
  ASSUME TypeOK, NEW D \in SUBSET DOMAIN depts, D # {}
  PROVE  /\ Latest(D) \in D
         /\ \A c \in D : \/ depts[c].bmcj < depts[Latest(D)].bmcj
                         \/ depts[c].bmcj = depts[Latest(D)].bmcj /\ c <= Latest(D)
  <1> DEFINE f == [d \in D |-> depts[d].bmcj]
  <1>1. MaxTx \in Nat /\ \A d \in D : d \in 1..(MaxTx + 2) /\ f[d] \in 0..(MaxTx + 1)
    BY BoundAssumption DEF TypeOK, Dept, Bmbh
  <1>2. PICK m \in D : \A d \in D : f[d] <= f[m]
    <2>1. MaxTx + 1 \in Nat /\ f \in [D -> 0..(MaxTx + 1)]
      BY <1>1
    <2> HIDE DEF f
    <2> QED
      BY <2>1, Topmost
  <1> DEFINE E == {d \in D : f[d] = f[m]}
             g == [d \in E |-> d]
  <1>3. PICK l \in E : \A d \in E : d <= l
    <2>1. MaxTx + 2 \in Nat /\ g \in [E -> 0..(MaxTx + 2)] /\ E # {}
      BY <1>1
    <2>2. \A d \in E : g[d] = d
      OBVIOUS
    <2> HIDE DEF E, g
    <2>3. PICK l \in E : \A d \in E : g[d] <= g[l]
      BY <2>1, Topmost
    <2> QED
      BY <2>2, <2>3
  <1>4. l \in D /\ \A c \in D : \/ depts[c].bmcj < depts[l].bmcj
                                \/ depts[c].bmcj = depts[l].bmcj /\ c <= l
    <2> SUFFICES ASSUME NEW c \in D, ~ (depts[c].bmcj < depts[l].bmcj)
                 PROVE  depts[c].bmcj = depts[l].bmcj /\ c <= l
      OBVIOUS
    <2>1. f[c] <= f[m] /\ f[l] = f[m] /\ f[c] \in 0..(MaxTx + 1) /\ f[l] \in 0..(MaxTx + 1)
      BY <1>1, <1>2, <1>3
    <2>2. f[c] = depts[c].bmcj /\ f[l] = depts[l].bmcj
      BY <1>3
    <2> HIDE DEF f
    <2>3. f[c] = f[m]
      BY <1>1, <2>1, <2>2
    <2> QED
      BY <1>3, <2>1, <2>2, <2>3
  <1> QED
    BY <1>4 DEF Latest

LEMMA PrefixElements ==
  ASSUME NEW S, NEW s \in Seq(S), NEW t \in Seq(S)
  PROVE  IsPrefix(s, t) <=> Len(s) <= Len(t) /\ \A i \in 1..Len(s) : s[i] = t[i]
  <1> SUFFICES ASSUME Len(s) <= Len(t)
               PROVE  SubSeq(s, 1, Len(s)) = SubSeq(t, 1, Len(s))
                        <=> \A i \in 1..Len(s) : s[i] = t[i]
    BY DEF IsPrefix
  <1>1. /\ SubSeq(s, 1, Len(s)) = [i \in 1..Len(s) |-> s[i]]
        /\ SubSeq(t, 1, Len(s)) = [i \in 1..Len(s) |-> t[i]]
    OBVIOUS
  <1> QED
    BY <1>1

\* The prefixes of a path are itself and those of the path it was made from.
LEMMA PrefixOfAppended ==
  ASSUME NEW S, NEW s \in Seq(S), NEW t \in Seq(S), NEW x \in S
  PROVE  IsPrefix(s, Append(t, x)) <=> IsPrefix(s, t) \/ s = Append(t, x)
  <1>0. PICK r, n, m : r = Append(t, x) /\ n = Len(t) /\ m = Len(s)
    OBVIOUS
  <1>1. /\ r \in Seq(S) /\ n \in Nat /\ m \in Nat /\ Len(r) = n + 1
        /\ \A i \in 1..n : r[i] = t[i]
    BY <1>0
  <1>2. IsPrefix(s, r) <=> m <= n + 1 /\ \A i \in 1..m : s[i] = r[i]
    <2>1. IsPrefix(s, r) <=> Len(s) <= Len(r) /\ \A i \in 1..Len(s) : s[i] = r[i]
      <3>1. r \in Seq(S) /\ s \in Seq(S)
        BY <1>1
      <3> QED
        BY ONLY <3>1, PrefixElements
    <2> QED
      BY <1>0, <1>1, <2>1
  <1>3. IsPrefix(s, t) <=> m <= n /\ \A i \in 1..m : s[i] = t[i]
    BY <1>0, PrefixElements
  <1>4. s = r <=> m = n + 1 /\ \A i \in 1..m : s[i] = r[i]
    BY <1>0, <1>1
  <1>5. CASE m <= n
    <2>1. \A i \in 1..m : r[i] = t[i]
      BY <1>1, <1>5
    <2> QED
      BY <1>0, <1>1, <1>2, <1>3, <1>4, <1>5, <2>1
  <1>6. CASE ~ (m <= n)
    <2>1. m <= n + 1 <=> m = n + 1
      BY <1>1, <1>6
    <2> QED
      BY <1>0, <1>2, <1>3, <1>4, <1>6, <2>1
  <1> QED
    BY <1>5, <1>6


-----------------------------------------------------------------------------
(* The trees of departments *)

\* What BMLJ LIKE the path of d finds is d and what is below it.
PathsFit(c) ==
    \A d \in DOMAIN depts :
        IsPrefix(depts[d].bmlj, depts[c].bmlj) <=> d \in Line(Bmpbh, c)

LEMMA BmpbhHangs ==
  ASSUME TypeInv
  PROVE  /\ IsFiniteSet(DOMAIN depts) /\ DOMAIN depts \subseteq Nat \ {Root}
         /\ DOMAIN Bmpbh = DOMAIN depts /\ \A c \in DOMAIN depts : Bmpbh[c] = depts[c].bmpbh
         /\ (\A d \in DOMAIN depts : Climbs(Bmpbh, d)) => Hangs(Bmpbh)
  <1>1. /\ DOMAIN Bmpbh = DOMAIN depts /\ \A c \in DOMAIN depts : Bmpbh[c] = depts[c].bmpbh
    BY DEF Bmpbh
  <1>2. IsFiniteSet(DOMAIN depts) /\ DOMAIN depts \subseteq Nat \ {Root}
    BY ChildrenFit, BoundAssumption, NumberAssumption DEF TypeInv, TypeOK, Bmbh
  <1> HIDE DEF Bmpbh
  <1> QED
    BY <1>1, <1>2 DEF Hangs

LEMMA OwnNumberLast ==
  ASSUME TypeInv, PathInv, NEW c \in DOMAIN depts, depts[c].bmpbh \in DOMAIN depts \cup {Root}
  PROVE  Len(depts[c].bmlj) \in Nat \ {0} /\ depts[c].bmlj[Len(depts[c].bmlj)] = c
  <1>1. CASE depts[c].bmpbh = Root
    <2>1. c = 1 /\ depts[c].bmlj = <<1>>
      BY <1>1 DEF PathInv, Paths
    <2>2. Len(<<1>>) = 1 /\ <<1>>[1] = 1
      OBVIOUS
    <2> QED
      BY <2>1, <2>2
  <1>2. CASE depts[c].bmpbh \in DOMAIN depts
    <2>1. PICK q : q = depts[depts[c].bmpbh].bmlj /\ q \in Seq(Bmbh) /\ c \in Bmbh
      BY <1>2 DEF TypeInv, TypeOK, Dept
    <2>2. depts[c].bmlj = Append(q, c)
      BY <1>2, <2>1 DEF PathInv, Paths, MadeFrom
    <2>3. Len(q) \in Nat /\ Len(Append(q, c)) = Len(q) + 1 /\ Append(q, c)[Len(q) + 1] = c
      BY ONLY <2>1
    <2> QED
      BY ONLY <2>2, <2>3
  <1> QED
    BY <1>1, <1>2

LEMMA PathsAreLines ==
  ASSUME TypeInv, PathInv, Hangs(Bmpbh), NEW c \in DOMAIN depts
  PROVE  PathsFit(c)
  <1>0. /\ IsFiniteSet(DOMAIN depts) /\ DOMAIN depts \subseteq Nat \ {Root}
        /\ DOMAIN Bmpbh = DOMAIN depts /\ \A d \in DOMAIN depts : Bmpbh[d] = depts[d].bmpbh
    BY BmpbhHangs
  <1>1. \A d \in DOMAIN depts : depts[d].bmpbh \in DOMAIN depts \cup {Root}
    BY <1>0, HangingRows
  <1>2. \A d \in DOMAIN depts : depts[d].bmlj \in Seq(Bmbh) /\ d \in Bmbh
    BY DEF TypeInv, TypeOK, Dept
  <1> DEFINE Bad == {d \in DOMAIN depts : ~PathsFit(d)}
  <1>3. ASSUME NEW d \in DOMAIN depts, \A e \in DOMAIN depts : e < d => PathsFit(e)
        PROVE  PathsFit(d)
    <2> SUFFICES ASSUME NEW e \in DOMAIN depts
                 PROVE  IsPrefix(depts[e].bmlj, depts[d].bmlj) <=> e \in Line(Bmpbh, d)
      BY DEF PathsFit
    <2> DEFINE p == depts[d].bmpbh
    <2>1. PICK u, v : /\ u = depts[e].bmlj /\ v = depts[d].bmlj
                      /\ u \in Seq(Bmbh) /\ v \in Seq(Bmbh)
                      /\ Len(u) \in Nat \ {0} /\ u[Len(u)] = e
                      /\ Len(v) \in Nat \ {0} /\ v[Len(v)] = d
      BY <1>1, <1>2, OwnNumberLast
    <2>2. Line(Bmpbh, d) = {d} \cup Line(Bmpbh, p)
      BY <1>0, LineTurns
    <2>3. u = v <=> e = d
      BY <2>1
    <2>4. CASE p = Root
      <3>1. Line(Bmpbh, p) = {Root}
        BY <1>0, <2>4, LineTurns
      <3>2. v = <<1>> /\ d = 1
        BY <2>1, <2>4 DEF PathInv, Paths
      <3>3. IsPrefix(u, v) <=> u = v
        <4>1. IsPrefix(u, v) <=> Len(u) <= Len(v) /\ \A i \in 1..Len(u) : u[i] = v[i]
          BY ONLY <2>1, PrefixElements
        <4>2. Len(v) = 1 /\ v[1] = 1
          BY <3>2
        <4>3. u = v <=> Len(u) = Len(v) /\ \A i \in 1..Len(u) : u[i] = v[i]
          BY ONLY <2>1
        <4> QED
          BY ONLY <2>1, <4>1, <4>2, <4>3
      <3>4. e \in Line(Bmpbh, d) <=> e = d
        BY <1>0, <2>2, <3>1
      <3> QED
        BY ONLY <2>1, <2>3, <3>3, <3>4
    <2>5. CASE p \in DOMAIN depts
      <3>1. PICK w : w = depts[p].bmlj /\ w \in Seq(Bmbh) /\ d \in Bmbh /\ v = Append(w, d)
        BY <1>2, <2>1, <2>5 DEF PathInv, Paths, MadeFrom
      <3>2. IsPrefix(u, v) <=> IsPrefix(u, w) \/ u = v
        <4>1. u \in Seq(Bmbh) /\ w \in Seq(Bmbh) /\ d \in Bmbh
          BY <2>1, <3>1
        <4>2. IsPrefix(u, Append(w, d)) <=> IsPrefix(u, w) \/ u = Append(w, d)
          BY ONLY <4>1, PrefixOfAppended
        <4> QED
          BY ONLY <3>1, <4>2
      <3>3. p < d
        BY DEF TypeInv, DeptsFit
      <3>4. IsPrefix(u, w) <=> e \in Line(Bmpbh, p)
        BY <1>3, <2>1, <2>5, <3>1, <3>3 DEF PathsFit
      <3> QED
        BY <2>1, <2>2, <2>3, <3>2, <3>4
    <2> QED
      BY <1>1, <2>4, <2>5
  <1>4. Bad = {}
    <2> SUFFICES ASSUME Bad # {} PROVE FALSE
      OBVIOUS
    <2>1. PICK d \in Bad : \A e \in Bad : ~ (<<e, d>> \in OpToRel(<, Nat))
      <3>1. Bad \subseteq Nat
        BY <1>0
      <3> HIDE DEF Bad
      <3> QED
        BY <3>1, NatLessThanWellFounded, WFMin
    <2>2. \A e \in DOMAIN depts : e < d => PathsFit(e)
      BY <1>0, <2>1 DEF OpToRel
    <2> QED
      BY <1>3, <2>2
  <1> QED
    BY <1>4


LEMMA DeptsTreeGrows ==
  ASSUME TypeInv, NEW up, DOMAIN up = DOMAIN depts,
         \A d \in DOMAIN up : up[d] = Root \/ (up[d] \in DOMAIN up /\ up[d] < d),
         NEW rows \in SUBSET DOMAIN up,
         \A e \in rows : up[e] \in rows => depts[up[e]].bmcj < depts[e].bmcj,
         \A e \in rows : up[e] \in rows \cup {Root} \/ up[up[e]] = Root
  PROVE  /\ Grows(DeptsTree(up, rows), up, rows \cup Ups(up, rows))
         /\ ShowsOnce(DeptsTree(up, rows), up, rows)
  <1>0. /\ IsFiniteSet(DOMAIN up) /\ Root \notin DOMAIN up /\ IsFiniteSet(rows)
        /\ Climbers(up) = DOMAIN up
    <2>1. IsFiniteSet(DOMAIN up) /\ DOMAIN up \subseteq Nat \ {Root} /\ IsFiniteSet(rows)
      BY BmpbhHangs, FS_Subset
    <2>2. ASSUME NEW c \in DOMAIN up PROVE Climbs(up, c)
      BY <2>1, DownToRoot
    <2> QED
      BY <2>1, <2>2 DEF Climbers
  <1> DEFINE rank == [d \in DOMAIN up |-> d]
  <1>1. MaxTx + 2 \in Nat /\ Ranked(up, rank, MaxTx + 2)
    BY <1>0, BoundAssumption DEF Ranked, TypeInv, TypeOK, Bmbh
  <1> HIDE DEF rank
  <1>2. ASSUME NEW s \in SUBSET rows, s # {}
        PROVE  Latest(s) \in s /\ \A e \in s : up[e] # Latest(s)
    <2>1. /\ Latest(s) \in s
          /\ \A c \in s : \/ depts[c].bmcj < depts[Latest(s)].bmcj
                          \/ depts[c].bmcj = depts[Latest(s)].bmcj /\ c <= Latest(s)
      BY <1>2, LatestIsLast DEF TypeInv
    <2>2. \A d \in DOMAIN depts : depts[d].bmcj \in Nat
      BY BoundAssumption DEF TypeInv, TypeOK, Dept
    <2>3. ASSUME NEW e \in s, up[e] = Latest(s) PROVE FALSE
      <3>1. depts[Latest(s)].bmcj < depts[e].bmcj
        BY <2>1, <2>3
      <3>2. depts[Latest(s)].bmcj \in Nat /\ depts[e].bmcj \in Nat
        BY <2>1, <2>2
      <3> QED
        BY <2>1, <3>1, <3>2
    <2> QED
      BY <2>1, <2>3
  <1>3. Grows(DeptsTree(up, rows), up, rows \cup Ups(up, rows))
    BY <1>0, <1>1, <1>2, TreeGrows
  <1> QED
    BY <1>0, <1>3, GrownShows

\* What is given of a tree with only department 1 at the top is all but that one.
LEMMA GrownGives ==
  ASSUME NEW t, NEW up, NEW K \in SUBSET (Nat \ {Root}), Grows(t, up, K), 1 \in K,
         \A c \in K : (up[c] = Root <=> c = 1) /\ (c # 1 => up[c] < c)
  PROVE  {t.nodes[i].key : i \in GivenOf(t)} = K \ {1}
  <1> DEFINE D == DOMAIN t.nodes
             over(i) == t.nodes[i].over
             key(i) == t.nodes[i].key
             top == t.at[1]
  <1>1. /\ D \subseteq Nat \ {0}
        /\ \A c \in K : t.at[c] \in D /\ key(t.at[c]) = c
        /\ \A i \in D : /\ key(i) \in K /\ t.at[key(i)] = i
                       /\ IF over(i) = 0 THEN up[key(i)] = Root
                          ELSE over(i) \in D /\ up[key(i)] = key(over(i))
    BY DEF Grows
  <1>2. \A i \in D : over(i) = 0 <=> i = top
    <2>1. ASSUME NEW i \in D, over(i) = 0 PROVE i = top
      BY <1>1, <2>1
    <2>2. top \in D /\ key(top) = 1 /\ up[1] = Root
      BY <1>1
    <2>3. over(top) = 0
      <3>1. over(top) # 0 => over(top) \in D /\ up[key(top)] = key(over(top))
        BY <1>1, <2>2
      <3>2. \A i \in D : key(i) # Root
        BY <1>1
      <3> HIDE DEF D, over, key, top
      <3> QED
        BY <2>2, <3>1, <3>2
    <2> QED
      BY <2>1, <2>3
  <1>3. top \in D /\ top \in Nat
    BY <1>1
  <1> DEFINE G == Under(t, top)
             Shut(S) == \A k \in D : over(k) \in S \cup {top} => k \in S
  <1>4. GivenOf(t) = G
    <2>1. {i \in DOMAIN t.nodes : t.nodes[i].over = 0} = {top}
      BY <1>2, <1>3
    <2>2. Min({top}) = top
      BY <1>3 DEF Min
    <2> QED
      BY <2>1, <2>2 DEF GivenOf
  <1>5. \A j : j \in G <=> j \in D /\ \A S \in SUBSET D : Shut(S) => j \in S
    BY DEF Under
  <1> HIDE DEF G
  <1>6. ASSUME NEW j \in G PROVE key(j) \in K \ {1}
    <2>1. D \ {top} \in SUBSET D /\ Shut(D \ {top})
      BY <1>1, <1>2, <1>3
    <2>2. j \in D \ {top}
      BY <1>5, <2>1
    <2> QED
      BY <1>1, <2>2
  <1>7. ASSUME NEW c \in K \ {1} PROVE t.at[c] \in G
    <2> SUFFICES ASSUME NEW S \in SUBSET D, Shut(S) PROVE t.at[c] \in S
      BY <1>1, <1>5
    <2> DEFINE Bad == {e \in K \ {1} : t.at[e] \notin S}
    <2>1. \A e \in Bad : \E f \in Bad : f < e
      <3> SUFFICES ASSUME NEW e \in Bad PROVE \E f \in Bad : f < e
        OBVIOUS
      <3> DEFINE i == t.at[e]
                 o == over(i)
      <3>1. /\ e \in K /\ e # 1 /\ i \in D /\ key(i) = e /\ i \notin S
            /\ up[e] # Root /\ up[e] < e
        BY <1>1
      <3>2. o \in D /\ key(o) = up[e]
        BY <1>1, <3>1
      <3>3. o \notin S \cup {top}
        BY <3>1
      <3>4. key(o) \in K \ {1} /\ t.at[key(o)] = o
        <4>1. key(o) \in K /\ t.at[key(o)] = o
          BY <1>1, <3>2
        <4>2. o # top
          BY <3>3
        <4>3. t.at[1] = top
          BY <1>1
        <4> HIDE DEF o
        <4> QED
          BY <4>1, <4>2, <4>3
      <3> HIDE DEF o
      <3>5. key(o) \in Bad
        BY <3>3, <3>4
      <3> QED
        BY <3>1, <3>2, <3>5
    <2>2. Bad = {}
      <3> SUFFICES ASSUME Bad # {} PROVE FALSE
        OBVIOUS
      <3>1. Bad \subseteq Nat
        OBVIOUS
      <3> HIDE DEF Bad
      <3>2. PICK e \in Bad : \A f \in Bad : ~ (<<f, e>> \in OpToRel(<, Nat))
        BY <3>1, NatLessThanWellFounded, WFMin
      <3>3. \A f \in Bad : ~ (f < e)
        BY <3>1, <3>2 DEF OpToRel
      <3> QED
        BY <2>1, <3>3
    <2> QED
      BY <2>2
  <1>8. \A c \in K \ {1} : t.at[c] \in G /\ key(t.at[c]) = c
    BY <1>1, <1>7
  <1>9. {key(i) : i \in G} = K \ {1}
    <2> HIDE DEF key, top, D
    <2> QED
      BY <1>6, <1>8
  <1> QED
    BY <1>4, <1>9

LEMMA TreesFromPaths == TypeInv /\ PathInv => DeptTreesAreRight
  <1> SUFFICES ASSUME TypeInv, PathInv, \A d \in DOMAIN depts : Climbs(Bmpbh, d)
               PROVE  /\ ShowsOnce(DeptTree, Bmpbh, DOMAIN depts)
                      /\ \A d \in DOMAIN depts :
                           /\ ShowsOnce(DeptTreeOf(d), Seen(d), Below(Bmpbh, d))
                           /\ DeptsGivenTo(d) = Below(Bmpbh, d) \ {1}
    BY DEF DeptTreesAreRight
  <1>0. /\ IsFiniteSet(DOMAIN depts) /\ DOMAIN depts \subseteq Nat \ {Root}
        /\ DOMAIN Bmpbh = DOMAIN depts /\ \A c \in DOMAIN depts : Bmpbh[c] = depts[c].bmpbh
        /\ Hangs(Bmpbh)
    BY BmpbhHangs
  <1>1. \A c \in DOMAIN depts : /\ Bmpbh[c] \in DOMAIN depts \cup {Root} /\ Bmpbh[c] < c
                                /\ Bmpbh[c] = Root <=> c = 1
    BY <1>0, HangingRows DEF PathInv, Paths, TypeInv, DeptsFit
  <1>2. \A c \in DOMAIN depts : Bmpbh[c] \in DOMAIN depts =>
          depts[Bmpbh[c]].bmcj < depts[c].bmcj
    <2> SUFFICES ASSUME NEW c \in DOMAIN depts, Bmpbh[c] \in DOMAIN depts
                 PROVE  depts[Bmpbh[c]].bmcj < depts[c].bmcj
      OBVIOUS
    <2>1. depts[c].bmcj = depts[Bmpbh[c]].bmcj + 1
      BY <1>0 DEF PathInv, Paths, MadeFrom
    <2>2. depts[Bmpbh[c]].bmcj \in Nat
      BY BoundAssumption DEF TypeInv, TypeOK, Dept
    <2> QED
      BY <2>1, <2>2
  <1>3. ShowsOnce(DeptTree, Bmpbh, DOMAIN depts)
    <2>1. DeptTree = DeptsTree(Bmpbh, DOMAIN depts)
      BY DEF DeptTree, DeptsTree
    <2> QED
      BY <1>0, <1>1, <1>2, <2>1, DeptsTreeGrows
  <1>4. ASSUME NEW d \in DOMAIN depts
        PROVE  /\ ShowsOnce(DeptTreeOf(d), Seen(d), Below(Bmpbh, d))
               /\ DeptsGivenTo(d) = Below(Bmpbh, d) \ {1}
    <2> DEFINE rows == Below(Bmpbh, d)
               up == Seen(d)
    <2>1. DeptTreeOf(d) = DeptsTree(up, rows)
      <3>1. {c \in DOMAIN depts : IsPrefix(depts[d].bmlj, depts[c].bmlj)} = rows
        BY <1>0, PathsAreLines DEF PathsFit, Below
      <3> QED
        BY <3>1 DEF DeptTreeOf, DeptsTree
    <2>2. \A c \in rows : c # d => Bmpbh[c] \in rows \cup {Root}
      <3> SUFFICES ASSUME NEW c \in rows, c # d, Bmpbh[c] \in DOMAIN depts PROVE Bmpbh[c] \in rows
        BY <1>0, <1>1 DEF Below
      <3>1. c \in DOMAIN Bmpbh /\ d \in Line(Bmpbh, c)
        BY DEF Below
      <3>2. Line(Bmpbh, c) = {c} \cup Line(Bmpbh, Bmpbh[c])
        BY <1>0, <3>1, LineTurns
      <3> QED
        BY <1>0, <3>1, <3>2 DEF Below
    <2>3. rows \subseteq DOMAIN depts
      BY <1>0 DEF Below
    <2>6. d \in rows
      BY <1>0, LineIsLeast DEF Below
    <2>7. DeptsGivenTo(d) = {DeptsTree(up, rows).nodes[i].key : i \in GivenOf(DeptsTree(up, rows))}
      BY <2>1 DEF DeptsGivenTo
    <2>4. CASE d = 1
      <3>1. up = Bmpbh
        BY <1>0, <1>1, <2>4 DEF Seen
      <3>2. Bmpbh[d] = Root
        BY <1>1, <2>4
      <3> HIDE DEF rows, up
      <3>3. /\ Grows(DeptsTree(up, rows), up, rows \cup Ups(up, rows))
            /\ ShowsOnce(DeptsTree(up, rows), up, rows)
        BY <1>0, <1>1, <1>2, <2>2, <2>3, <3>1, <3>2, DeptsTreeGrows
      <3>4. rows \cup Ups(up, rows) = rows /\ 1 \in rows
        BY <1>0, <1>1, <2>2, <2>3, <2>4, <2>6, <3>1 DEF Ups
      <3>5. \A c \in rows : (up[c] = Root <=> c = 1) /\ (c # 1 => up[c] < c)
        BY <1>1, <2>3, <3>1
      <3> QED
        BY <1>0, <2>1, <2>3, <2>7, <3>3, <3>4, <3>5, GrownGives DEF rows, up
    <2>5. CASE d # 1
      <3>1. /\ DOMAIN up = DOMAIN depts /\ up[d] = 1
            /\ \A c \in DOMAIN depts \ {d} : up[c] = Bmpbh[c]
        BY <1>0, <1>1, <2>5 DEF Seen
      <3>2. 1 \in DOMAIN depts /\ Bmpbh[1] = Root
        BY <1>0, <1>1, HangingRows
      <3>3. 1 \notin rows
        <4>1. Line(Bmpbh, 1) = {1} \cup Line(Bmpbh, Root) /\ Line(Bmpbh, Root) = {Root}
          BY <1>0, <3>2, LineTurns
        <4> QED
          BY <1>0, <2>5, <4>1 DEF Below
      <3> HIDE DEF rows, up
      <3>4. \A c \in DOMAIN up : up[c] = Root \/ (up[c] \in DOMAIN up /\ up[c] < c)
        <4>1. 1 < d
          BY <1>0, <2>5, NumberAssumption
        <4> QED
          BY <1>1, <3>1, <3>2, <4>1
      <3>5. \A e \in rows : up[e] \in rows => depts[up[e]].bmcj < depts[e].bmcj
        BY <1>2, <2>3, <3>1, <3>3
      <3>6. \A e \in rows : up[e] \in rows \cup {Root} \/ up[up[e]] = Root
        BY <2>2, <2>3, <2>5, <3>1, <3>2
      <3>7. /\ Grows(DeptsTree(up, rows), up, rows \cup Ups(up, rows))
            /\ ShowsOnce(DeptsTree(up, rows), up, rows)
        BY <2>3, <3>1, <3>4, <3>5, <3>6, DeptsTreeGrows
      <3>8. rows \cup Ups(up, rows) = rows \cup {1}
        BY <1>0, <2>2, <2>3, <2>6, <3>1, <3>2 DEF Ups
      <3>9. \A c \in rows \cup {1} : (up[c] = Root <=> c = 1) /\ (c # 1 => up[c] < c)
        BY <1>0, <1>1, <2>3, <2>5, <3>1, <3>2, <3>4
      <3>10. (rows \cup {1}) \ {1} = rows \ {1} /\ rows \cup {1} \in SUBSET (Nat \ {Root})
        BY <1>0, <2>3, <3>2
      <3> QED
        BY <2>1, <2>7, <3>7, <3>8, <3>9, <3>10, GrownGives DEF rows, up
    <2> QED
      BY <2>4, <2>5
  <1> QED
    BY <1>3, <1>4

\* Theorem.  Whatever was inserted and deleted at a time, while all departments
\* hang on the root a system administrator is shown every one of them, any other
\* user the own one and those below it, but never department 1, each once and in
\* its place (queryDeptTree, which takes department 1 away; addTreeItems of
\* DeptTools, the BMLJ of insertBean).
THEOREM DeptTreesGrow == Spec => []DeptTreesAreRight
  <1>1. Init => Inv /\ TypeInv /\ DeptInv /\ PathInv
    BY InitInv, InitFits, InitDepts, InitPaths
  <1>2. Inv /\ TypeInv /\ DeptInv /\ PathInv /\ [Next]_vars
          => (Inv /\ TypeInv /\ DeptInv /\ PathInv)'
    BY NextInv, NextFits, NextDepts, NextPaths
  <1> QED
    BY <1>1, <1>2, TreesFromPaths, PTL DEF Spec
=============================================================================
