------------------------ MODULE Authorization_proofs ------------------------
(***************************************************************************)
(* Proofs about Authorization, for any nodes, administrators, URLs,        *)
(* roles, versions and handlers: the types are right, grants are kept,     *)
(* and a map is of its node's own URLs and of the time it was read.        *)
(*                                                                         *)
(* GrantsSurvive: no start under way deletes an owed grant (Owed).         *)
(* MapCoversOwnUrls: when a start completed, RS_URL has the URLs of its    *)
(* version. Kept says how that outlives starts of other versions: a node   *)
(* holds the locks of its own URLs from saveUrl to its commit, and no      *)
(* other node has marked one of them for deletion. MapIsOfItsStart: Reads  *)
(* relates the part of the map that is built, and the installed map, to    *)
(* what was in effect during the reading.                                  *)
(***************************************************************************)
EXTENDS Authorization, TLAPS

\* What a starting node is going to delete is not owed.
Owed ==
    /\ owed \subseteq grants
    /\ \A n \in Node : Starting(n) => \A g \in owed : g.url \in Handlers[node[n].version]
    /\ \A n \in Node : \A g \in node[n].cut : g.url \notin Handlers[node[n].version]

Saving(n) == node[n].pc \in {"save", "drop", "commit"}
Own(n) == Handlers[node[n].version]

Kept ==
    /\ last \in Version => Handlers[last] \subseteq urls
    /\ \A n \in Node : node[n].pc \in {"drop", "commit"} =>
          /\ Own(n) \subseteq UrlLocks(n)
          /\ Own(n) \subseteq urls \cup node[n].new
          /\ \A m \in Node \ {n} : Saving(m) => Doomed(m) \cap Own(n) = {}

Reading(n) == node[n].pc = "read"

\* The entry of a URL that was read.
RightEntry(n, u, e) ==
    /\ u \in Controllers => e # NoEntry
    /\ \A g \in past[n].always : g.url = u => e # NoEntry /\ g.role \in e

NothingElse(n, m) ==
    \A u \in Url : m[u] # NoEntry =>
        \A r \in m[u] \ {Sysadmin} : [role |-> r, url |-> u] \in past[n].ever

ReadsOf(n) ==
    /\ node[n].pc # "down" /\ past[n].version = node[n].version => Own(n) \subseteq past[n].listed
    /\ Reading(n) =>
         /\ past[n].always \subseteq Effective /\ Effective \subseteq past[n].ever
         /\ \A u \in past[n].listed \ node[n].todo : RightEntry(n, u, node[n].built[u])
         /\ NothingElse(n, node[n].built)
    /\ HasMap(n) =>
         /\ \A u \in past[n].listed : RightEntry(n, u, map[n][u])
         /\ NothingElse(n, map[n])

Reads == \A n \in Node : ReadsOf(n)

-----------------------------------------------------------------------------
(* Types *)

LEMMA ConstantTypes == EmptyMap \in MapOf /\ Down \in Life /\ Idle \in Tx
  <1>1. EmptyMap \in MapOf
    BY DEF EmptyMap, MapOf
  <1>2. Down \in Life
    BY <1>1 DEF Down, Life
  <1>3. (CHOOSE n \in Node : TRUE) \in Node
    BY MarkerAssumption
  <1>4. Idle \in Tx
    BY <1>3, RoleAssumption DEF Idle, Tx
  <1> QED
    BY <1>1, <1>2, <1>4

LEMMA EntryType ==
  ASSUME NEW u, NEW rs \in SUBSET Role
  PROVE  Entry(u, rs) \in (SUBSET Role) \cup {NoEntry}
  BY RoleAssumption DEF Entry

LEMMA RolesOfType == \A u : TypeOK => RolesOf(u) \in SUBSET Role
  BY DEF TypeOK, RolesOf, Effective, Grant

\* The fields of what a start of a node goes on with.
LEMMA LifeFields ==
  ASSUME NEW x \in Life
  PROVE  /\ x.version \in Version \cup {NoVersion}
         /\ x.todo \in SUBSET Url /\ x.built \in MapOf
         /\ x.rows \in SUBSET Url /\ x.new \in SUBSET Url /\ x.cut \in SUBSET Grant
  BY DEF Life

\* What a step does to a node that reads, installs, or refreshes the URLs.
LEMMA ReadRolesNode ==
  ASSUME TypeOK, NEW n \in Node, NEW u \in Url, ReadRoles(n, u)
  PROVE  LET x == node[n]  y == node'[n] IN
         /\ y \in Life /\ node' = [node EXCEPT ![n] = y]
         /\ y.pc = "read" /\ y.version = x.version /\ y.todo = x.todo \ {u} /\ y.cut = x.cut
         /\ y.built[u] = Entry(u, RolesOf(u)) /\ \A w \in Url \ {u} : y.built[w] = x.built[w]
         /\ y.rows = x.rows /\ y.new = x.new
  <1> DEFINE x == node[n]
             m == With(x.built, u, Entry(u, Readable(u)))
             z == [x EXCEPT !.todo = x.todo \ {u}, !.built = m]
  <1>1. x \in Life /\ x.pc = "read"
    BY DEF ReadRoles, TypeOK
  <1>2. Entry(u, RolesOf(u)) \in (SUBSET Role) \cup {NoEntry}
    BY EntryType, RolesOfType
  <1>3. m \in MapOf /\ m[u] = Entry(u, RolesOf(u)) /\ \A w \in Url \ {u} : m[w] = x.built[w]
    BY <1>1, <1>2, LifeFields DEF With, MapOf, Readable
  <1> HIDE DEF m
  <1>4. /\ z \in Life /\ z.pc = "read" /\ z.version = x.version /\ z.todo = x.todo \ {u}
        /\ z.cut = x.cut /\ z.rows = x.rows /\ z.new = x.new /\ z.built = m
    BY <1>1, <1>3 DEF Life
  <1>5. node' = [node EXCEPT ![n] = z]
    BY DEF ReadRoles, m
  <1> HIDE DEF z
  <1>6. node'[n] = z
    BY <1>5 DEF TypeOK
  <1> QED
    BY <1>3, <1>4, <1>5, <1>6

LEMMA InstallNode ==
  ASSUME TypeOK, NEW n \in Node, Install(n)
  PROVE  LET x == node[n]  y == node'[n] IN
         /\ y \in Life /\ node' = [node EXCEPT ![n] = y]
         /\ y.pc = "invalid" /\ y.version = x.version /\ y.cut = x.cut
         /\ y.rows = x.rows /\ y.new = x.new
  <1> DEFINE x == node[n]
             z == [x EXCEPT !.pc = "invalid", !.built = EmptyMap]
  <1>1. x \in Life
    BY DEF TypeOK
  <1>2. /\ z \in Life /\ z.pc = "invalid" /\ z.version = x.version /\ z.cut = x.cut
        /\ z.rows = x.rows /\ z.new = x.new
    BY <1>1, ConstantTypes DEF Life
  <1>3. node' = [node EXCEPT ![n] = z]
    BY DEF Install
  <1> HIDE DEF z
  <1> QED
    BY <1>2, <1>3 DEF TypeOK

LEMMA InvalidUrlNode ==
  ASSUME TypeOK, NEW n \in Node, InvalidUrl(n)
  PROVE  LET x == node[n]  y == node'[n] IN
         /\ y \in Life /\ node' = [node EXCEPT ![n] = y]
         /\ y.pc = "save" /\ y.version = x.version /\ y.cut = x.cut /\ y.rows = urls
  <1> DEFINE x == node[n]
             z == [x EXCEPT !.pc = "save", !.rows = urls]
  <1>1. x \in Life /\ urls \in SUBSET Url
    BY DEF TypeOK
  <1>2. z \in Life /\ z.pc = "save" /\ z.version = x.version /\ z.cut = x.cut /\ z.rows = urls
    BY <1>1 DEF Life
  <1>3. node' = [node EXCEPT ![n] = z]
    BY DEF InvalidUrl
  <1> HIDE DEF z
  <1> QED
    BY <1>2, <1>3 DEF TypeOK

\* All but a stopped node have a version.
HasVersion == \A n \in Node : node[n].pc # "down" => node[n].version \in Version

LEMMA OwnIsKnown == \A n \in Node : HasVersion /\ node[n].pc # "down" => Own(n) \in SUBSET Url
  BY HandlersAssumption DEF HasVersion, Own

LEMMA SaveUrlsNode ==
  ASSUME TypeOK, HasVersion, NEW n \in Node, SaveUrls(n)
  PROVE  LET x == node[n]  y == node'[n] IN
         /\ y \in Life /\ node' = [node EXCEPT ![n] = y]
         /\ y.pc = "drop" /\ y.version = x.version /\ y.cut = x.cut
         /\ y.rows = x.rows \cup (Own(n) \cap urls) /\ y.new = Own(n) \ urls
  <1> DEFINE x == node[n]
             own == Own(n)
             z == [x EXCEPT !.pc = "drop", !.rows = x.rows \cup (own \cap urls), !.new = own \ urls]
  <1>1. x \in Life /\ own \in SUBSET Url
    BY OwnIsKnown DEF TypeOK, SaveUrls
  <1>2. node' = [node EXCEPT ![n] = z]
    BY DEF SaveUrls, Own
  <1> HIDE DEF own
  <1>3. /\ z \in Life /\ z.pc = "drop" /\ z.version = x.version /\ z.cut = x.cut
        /\ z.rows = x.rows \cup (own \cap urls) /\ z.new = own \ urls
    BY <1>1 DEF Life
  <1> HIDE DEF z
  <1> QED
    BY <1>2, <1>3 DEF TypeOK, own

LEMMA DropGrantsNode ==
  ASSUME TypeOK, NEW n \in Node, DropGrants(n)
  PROVE  LET x == node[n]  y == node'[n] IN
         /\ y \in Life /\ node' = [node EXCEPT ![n] = y]
         /\ y.pc = "commit" /\ y.version = x.version
         /\ y.cut = {g \in grants : g.url \in Doomed(n)}
         /\ y.rows = x.rows /\ y.new = x.new
  <1> DEFINE x == node[n]
             cut == {g \in grants : g.url \in Doomed(n)}
             z == [x EXCEPT !.pc = "commit", !.cut = cut]
  <1>1. x \in Life /\ cut \in SUBSET Grant
    BY DEF TypeOK
  <1>2. node' = [node EXCEPT ![n] = z]
    BY DEF DropGrants
  <1> HIDE DEF cut
  <1>3. /\ z \in Life /\ z.pc = "commit" /\ z.version = x.version
        /\ z.cut = cut /\ z.rows = x.rows /\ z.new = x.new
    BY <1>1 DEF Life
  <1> HIDE DEF z
  <1> QED
    BY <1>2, <1>3 DEF TypeOK, cut

LEMMA StartNode ==
  ASSUME TypeOK, NEW n \in Node, NEW v \in Version, Start(n, v)
  PROVE  LET y == node'[n] IN
         /\ y \in Life /\ node' = [node EXCEPT ![n] = y]
         /\ y.pc = "read" /\ y.version = v /\ y.cut = {} /\ y.todo = urls
         /\ y.built = EmptyMap
  <1> DEFINE z == [Down EXCEPT !.pc = "read", !.version = v, !.todo = urls]
  <1>1. urls \in SUBSET Url
    BY DEF TypeOK
  <1>2. /\ z \in Life /\ z.pc = "read" /\ z.version = v /\ z.cut = {} /\ z.todo = urls
        /\ z.built = EmptyMap
    BY <1>1, ConstantTypes DEF Down, Life
  <1>3. node' = [node EXCEPT ![n] = z]
    BY DEF Start
  <1> HIDE DEF z
  <1> QED
    BY <1>2, <1>3 DEF TypeOK

LEMMA RefreshedNode ==
  ASSUME TypeOK, NEW n \in Node, Refreshed(n)
  PROVE  LET x == node[n]  y == node'[n] IN
         /\ y \in Life /\ node' = [node EXCEPT ![n] = y]
         /\ y.pc = "up" /\ y.version = x.version /\ y.cut = {}
  <1> DEFINE x == node[n]
             z == [Down EXCEPT !.pc = "up", !.version = x.version]
  <1>1. x.version \in Version \cup {NoVersion}
    BY LifeFields DEF TypeOK
  <1>2. z \in Life /\ z.pc = "up" /\ z.version = x.version /\ z.cut = {}
    BY <1>1, ConstantTypes DEF Down, Life
  <1>3. node' = [node EXCEPT ![n] = z]
    BY DEF Refreshed
  <1> HIDE DEF z
  <1> QED
    BY <1>2, <1>3 DEF TypeOK

LEMMA StopNode ==
  ASSUME TypeOK, NEW n \in Node, Stop(n)
  PROVE  LET y == node'[n] IN
         /\ y \in Life /\ node' = [node EXCEPT ![n] = y]
         /\ y.pc = "down" /\ y.cut = {}
  BY ConstantTypes DEF Stop, TypeOK, Down

LEMMA WatchedPast ==
  ASSUME TypeOK, Watched, Effective' \subseteq Grant
  PROVE  /\ past' \in [Node -> Past]
         /\ \A n \in Node :
              /\ past'[n].listed = past[n].listed /\ past'[n].version = past[n].version
              /\ Reading(n) => /\ past'[n].ever = past[n].ever \cup Effective'
                               /\ past'[n].always = past[n].always \cap Effective'
              /\ ~Reading(n) => past'[n] = past[n]
  <1> DEFINE y(n) == [past[n] EXCEPT !.ever = past[n].ever \cup Effective',
                                    !.always = past[n].always \cap Effective']
  <1>1. past' = [n \in Node |-> IF node[n].pc = "read" THEN y(n) ELSE past[n]]
    BY DEF Watched
  <1>2. ASSUME NEW n \in Node
        PROVE  /\ y(n) \in Past /\ y(n).listed = past[n].listed /\ y(n).version = past[n].version
               /\ y(n).ever = past[n].ever \cup Effective'
               /\ y(n).always = past[n].always \cap Effective'
    <2>1. past[n] \in Past
      BY DEF TypeOK
    <2> DEFINE e == Effective'
    <2>2. e \subseteq Grant
      OBVIOUS
    <2> HIDE DEF e
    <2>3. [past[n] EXCEPT !.ever = past[n].ever \cup e, !.always = past[n].always \cap e] \in Past
      BY <2>1, <2>2 DEF Past
    <2>4. LET z == [past[n] EXCEPT !.ever = past[n].ever \cup e, !.always = past[n].always \cap e]
          IN  /\ z.listed = past[n].listed /\ z.version = past[n].version
              /\ z.ever = past[n].ever \cup e /\ z.always = past[n].always \cap e
      BY <2>1 DEF Past
    <2> QED
      BY <2>3, <2>4 DEF e
  <1> HIDE DEF y
  <1>3. \A n \in Node : past'[n] = IF node[n].pc = "read" THEN y(n) ELSE past[n]
    BY <1>1
  <1>4. past' \in [Node -> Past]
    BY <1>1, <1>2 DEF TypeOK
  <1> QED
    BY <1>2, <1>3, <1>4 DEF Reading

\* A start of a node takes its steps.
NodeSteps(n) ==
    \/ \E v \in Version : Start(n, v)
    \/ \E u \in Url : ReadRoles(n, u)
    \/ Install(n) \/ InvalidUrl(n) \/ SaveUrls(n) \/ DropGrants(n) \/ Refreshed(n) \/ Stop(n)

AdminSteps(a) ==
    \/ \E n \in Node, r \in Role : Change(a, n, r)
    \/ \E u \in Url : InsertRoleUrl(a, u) \/ DeleteRoleUrl(a, u)
    \/ DeleteRole(a) \/ Commit(a) \/ Rollback(a)

\* Steps of a node that leave the tables and the transactions alone.
Inside(n) ==
    \/ \E u \in Url : ReadRoles(n, u)
    \/ Install(n) \/ InvalidUrl(n) \/ SaveUrls(n) \/ DropGrants(n)

LEMMA InsideNode ==
  ASSUME TypeOK, HasVersion, NEW n \in Node, Inside(n)
  PROVE  /\ node'[n] \in Life /\ node' = [node EXCEPT ![n] = node'[n]]
         /\ node'[n].version = node[n].version /\ node[n].pc # "down" /\ node'[n].pc # "down"
         /\ UNCHANGED <<tables, tx, starts, txs, owed, last, past>>
  <1>1. ASSUME NEW u \in Url, ReadRoles(n, u)
        PROVE  /\ node'[n] \in Life /\ node' = [node EXCEPT ![n] = node'[n]]
               /\ node'[n].version = node[n].version /\ node'[n].pc # "down"
    BY <1>1, ReadRolesNode
  <1>2. ASSUME Install(n) \/ InvalidUrl(n) \/ SaveUrls(n) \/ DropGrants(n)
        PROVE  /\ node'[n] \in Life /\ node' = [node EXCEPT ![n] = node'[n]]
               /\ node'[n].version = node[n].version /\ node'[n].pc # "down"
    BY <1>2, InstallNode, InvalidUrlNode, SaveUrlsNode, DropGrantsNode
  <1>3. node[n].pc # "down" /\ UNCHANGED <<tables, tx, starts, txs, owed, last, past>>
    BY DEF Inside, ReadRoles, Install, InvalidUrl, SaveUrls, DropGrants
  <1> QED
    BY <1>1, <1>2, <1>3 DEF Inside

Types == TypeOK /\ HasVersion

LEMMA NodeTypes ==
  ASSUME Types, NEW n \in Node, NodeSteps(n)
  PROVE  Types'
  <1>1. CASE Inside(n)
    <2>1. map' \in [Node -> MapOf]
      BY <1>1, LifeFields, ConstantTypes
      DEF Types, TypeOK, Inside, ReadRoles, Install, InvalidUrl, SaveUrls, DropGrants
    <2>2. node' \in [Node -> Life] /\ HasVersion'
      BY <1>1, InsideNode DEF Types, TypeOK, HasVersion
    <2> QED
      BY <1>1, <2>1, <2>2, InsideNode DEF Types, TypeOK, tables
  <1>2. ASSUME NEW v \in Version, Start(n, v)
        PROVE  Types'
    <2>1. node' \in [Node -> Life] /\ HasVersion'
      BY <1>2, StartNode DEF Types, TypeOK, HasVersion
    <2>2. [listed |-> urls, ever |-> Effective, always |-> Effective, version |-> last] \in Past
      BY DEF Types, TypeOK, Past, Effective
    <2>3. past' \in [Node -> Past]
      BY <1>2, <2>2 DEF Start, Types, TypeOK
    <2>4. starts' \in 0..MaxStart
      BY <1>2, BoundAssumption DEF Start, Types, TypeOK
    <2> QED
      BY <1>2, <2>1, <2>3, <2>4 DEF Start, Types, TypeOK, tables
  <1>3. CASE Refreshed(n)
    <2>1. node' \in [Node -> Life] /\ HasVersion'
      BY <1>3, RefreshedNode DEF Types, TypeOK, HasVersion, Refreshed
    <2>2. urls' \subseteq Url /\ grants' \subseteq Grant
      BY <1>3, LifeFields DEF Refreshed, Doomed, Types, TypeOK
    <2>3. last' \in Version \cup {NoVersion}
      BY <1>3, LifeFields DEF Refreshed, Types, TypeOK
    <2>4. past' \in [Node -> Past]
      BY <1>3, <2>2, WatchedPast DEF Refreshed, Effective, Types
    <2> QED
      BY <1>3, <2>1, <2>2, <2>3, <2>4 DEF Refreshed, Types, TypeOK
  <1>4. CASE Stop(n)
    <2>1. node' \in [Node -> Life] /\ HasVersion'
      BY <1>4, StopNode DEF Types, TypeOK, HasVersion
    <2>2. map' \in [Node -> MapOf] /\ tx' \in [Admin -> Tx]
      BY <1>4, ConstantTypes DEF Stop, Types, TypeOK
    <2> QED
      BY <1>4, <2>1, <2>2 DEF Stop, Types, TypeOK, tables
  <1> QED
    BY <1>1, <1>2, <1>3, <1>4 DEF NodeSteps, Inside

\* A step of an administrator that is no commit.
LEMMA OpenTx ==
  ASSUME Types, NEW a \in Admin, NEW t \in Tx, tx' = [tx EXCEPT ![a] = t],
         UNCHANGED <<tables, node, map, starts, owed, last, past>>, txs' \in 0..MaxTx
  PROVE  Types'
  BY DEF Types, TypeOK, HasVersion, tables

LEMMA TxFields ==
  ASSUME NEW t \in Tx
  PROVE  /\ t.role \in Role /\ t.todo \in SUBSET Url /\ t.put \in SUBSET Grant
         /\ t.cut \in SUBSET Grant
  BY DEF Tx

LEMMA BeginTypes ==
  ASSUME Types, NEW a \in Admin, NEW n \in Node, NEW pc \in {"insert", "delete", "role"},
         NEW r \in Role, NEW us \in SUBSET Url, Begin(a, n, pc, r, us)
  PROVE  Types'
  <1> DEFINE t == [Idle EXCEPT !.pc = pc, !.node = n, !.role = r, !.todo = us]
  <1>1. t \in Tx
    BY ConstantTypes DEF Tx
  <1>2. tx' = [tx EXCEPT ![a] = t]
    BY DEF Begin
  <1>3. txs' \in 0..MaxTx
    BY BoundAssumption DEF Begin, Types, TypeOK
  <1> HIDE DEF t
  <1> QED
    BY <1>1, <1>2, <1>3, OpenTx DEF Begin

LEMMA ChangeRowTypes ==
  ASSUME Types, NEW a \in Admin, NEW u \in Url, InsertRoleUrl(a, u) \/ DeleteRoleUrl(a, u)
  PROVE  Types'
  <1> DEFINE x == tx[a]
             g == Pending(a, u)
  <1>1. x \in Tx
    BY DEF Types, TypeOK
  <1>2. g \in Grant
    BY <1>1, TxFields DEF Pending, Grant
  <1>3. txs' \in 0..MaxTx
    BY DEF InsertRoleUrl, DeleteRoleUrl, Types, TypeOK
  <1> HIDE DEF g
  <1>4. CASE InsertRoleUrl(a, u)
    <2> DEFINE pc == IF x.todo = {u} THEN "commit" ELSE x.pc
               t == [x EXCEPT !.todo = x.todo \ {u}, !.put = x.put \cup {g}, !.pc = pc]
    <2>1. pc \in {"idle", "insert", "delete", "role", "commit"}
      BY <1>1 DEF Tx
    <2> HIDE DEF pc
    <2>2. t \in Tx
      BY <1>1, <1>2, <2>1, TxFields DEF Tx
    <2>3. tx' = [tx EXCEPT ![a] = t]
      BY <1>4 DEF InsertRoleUrl, pc, g
    <2> HIDE DEF t
    <2> QED
      BY <1>3, <1>4, <2>2, <2>3, OpenTx DEF InsertRoleUrl
  <1>5. CASE DeleteRoleUrl(a, u)
    <2> DEFINE pc == IF x.todo = {u} THEN "commit" ELSE x.pc
               t == [x EXCEPT !.todo = x.todo \ {u}, !.cut = x.cut \cup ({g} \cap grants), !.pc = pc]
    <2>1. pc \in {"idle", "insert", "delete", "role", "commit"}
      BY <1>1 DEF Tx
    <2> HIDE DEF pc
    <2>2. t \in Tx
      BY <1>1, <1>2, <2>1, TxFields DEF Tx
    <2>3. tx' = [tx EXCEPT ![a] = t]
      BY <1>5 DEF DeleteRoleUrl, pc, g
    <2> HIDE DEF t
    <2> QED
      BY <1>3, <1>5, <2>2, <2>3, OpenTx DEF DeleteRoleUrl
  <1> QED
    BY <1>4, <1>5

LEMMA DeleteRoleTypes ==
  ASSUME Types, NEW a \in Admin, DeleteRole(a)
  PROVE  Types'
  <1> DEFINE x == tx[a]
             cut == {g \in Grant : g.role = x.role} \cap grants
             t == [x EXCEPT !.pc = "commit", !.cut = cut, !.drop = TRUE]
  <1>1. x \in Tx /\ cut \in SUBSET Grant
    BY DEF Types, TypeOK
  <1>2. tx' = [tx EXCEPT ![a] = t]
    BY DEF DeleteRole
  <1> HIDE DEF cut
  <1>3. t \in Tx
    BY <1>1 DEF Tx
  <1> HIDE DEF t
  <1>4. txs' \in 0..MaxTx
    BY DEF DeleteRole, Types, TypeOK
  <1> QED
    BY <1>2, <1>3, <1>4, OpenTx DEF DeleteRole

LEMMA CommitTypes ==
  ASSUME Types, NEW a \in Admin, Commit(a)
  PROVE  Types'
  <1>1. tx[a] \in Tx
    BY DEF Types, TypeOK
  <1>2. tx' \in [Admin -> Tx]
    BY ConstantTypes DEF Commit, Types, TypeOK
  <1>3. grants' \subseteq Grant /\ roles' \subseteq Role /\ owed' \subseteq Grant
    BY <1>1, TxFields DEF Commit, Types, TypeOK
  <1>4. past' \in [Node -> Past]
    BY <1>3, WatchedPast DEF Commit, Effective, Types
  <1> QED
    BY <1>2, <1>3, <1>4 DEF Commit, Types, TypeOK, HasVersion

LEMMA AdminTypes ==
  ASSUME Types, NEW a \in Admin, AdminSteps(a)
  PROVE  Types'
  <1>1. ASSUME NEW n \in Node, NEW r \in Role, Change(a, n, r)
        PROVE  Types'
    <2>1. ASSUME NEW us \in SUBSET Url, Begin(a, n, "insert", r, us) \/ Begin(a, n, "delete", r, us)
          PROVE  Types'
      BY <2>1, BeginTypes
    <2>2. CASE Begin(a, n, "role", r, {})
      BY <2>2, BeginTypes
    <2> QED
      BY <1>1, <2>1, <2>2 DEF Change
  <1>2. CASE Rollback(a)
    BY <1>2, ConstantTypes, OpenTx DEF Rollback, Types, TypeOK
  <1> QED
    BY <1>1, <1>2, ChangeRowTypes, DeleteRoleTypes, CommitTypes DEF AdminSteps

LEMMA TypesStep == Types /\ [Next]_vars => Types'
  <1>1. Types /\ UNCHANGED vars => Types'
    BY DEF vars, Types, TypeOK, HasVersion
  <1>2. Next => (\E n \in Node : NodeSteps(n)) \/ \E a \in Admin : AdminSteps(a)
    BY DEF Next, NodeSteps, AdminSteps
  <1> QED
    BY <1>1, <1>2, NodeTypes, AdminTypes

LEMMA TypesAlways == Spec => []Types
  <1>1. Init => Types
    BY ConstantTypes, BoundAssumption DEF Init, Types, TypeOK, HasVersion, Past, Down
  <1> QED
    BY <1>1, TypesStep, PTL DEF Spec

\* Tables, maps and transactions keep their types; a node that is not stopped
\* runs a version of the program.
THEOREM TypesAreRight == Spec => []TypeOK
  BY TypesAlways, PTL DEF Types

-----------------------------------------------------------------------------
(* Steps of administrators before they commit, and nobody's steps *)

Idles == UNCHANGED <<tables, node, map, owed, last, past>>

LEMMA AdminIdles ==
  ASSUME NEW a \in Admin, AdminSteps(a), ~Commit(a)
  PROVE  Idles
  BY DEF AdminSteps, Change, Begin, InsertRoleUrl, DeleteRoleUrl, DeleteRole, Rollback, Idles

LEMMA OneNode ==
  ASSUME Types, NEW n \in Node, NEW y, node' = [node EXCEPT ![n] = y]
  PROVE  node'[n] = y /\ \A m \in Node \ {n} : node'[m] = node[m]
  BY DEF Types, TypeOK

\* Each step is of one of these kinds.
LEMMA Kinds ==
  ASSUME [Next]_vars
  PROVE  \/ Idles
         \/ \E a \in Admin : Commit(a)
         \/ \E n \in Node : \/ Inside(n) \/ Refreshed(n) \/ Stop(n)
                           \/ \E v \in Version : Start(n, v)
  <1>1. UNCHANGED vars => Idles
    BY DEF vars, Idles, tables
  <1>2. Next => (\E n \in Node : NodeSteps(n)) \/ \E a \in Admin : AdminSteps(a)
    BY DEF Next, NodeSteps, AdminSteps
  <1> QED
    BY <1>1, <1>2, AdminIdles DEF NodeSteps, Inside

-----------------------------------------------------------------------------
(* Grants *)

LEMMA InsideOwed ==
  ASSUME Types, Owed, NEW n \in Node, Inside(n)
  PROVE  Owed'
  <1>1. /\ node' = [node EXCEPT ![n] = node'[n]] /\ node'[n].version = node[n].version
        /\ UNCHANGED <<urls, grants, owed>>
    BY InsideNode DEF Types, tables
  <1>2. Starting(n)
    BY DEF Inside, ReadRoles, Install, InvalidUrl, SaveUrls, DropGrants, Starting
  <1>3. \A g \in node'[n].cut : g.url \notin Handlers[node[n].version]
    <2>1. CASE DropGrants(n)
      BY <2>1, DropGrantsNode DEF Doomed, Types
    <2>2. ASSUME NEW u \in Url, ReadRoles(n, u)
          PROVE  node'[n].cut = node[n].cut
      BY <2>2, ReadRolesNode DEF Types
    <2>3. CASE Install(n) \/ InvalidUrl(n) \/ SaveUrls(n)
      BY <2>3, InstallNode, InvalidUrlNode, SaveUrlsNode DEF Types, Owed
    <2> QED
      BY <2>1, <2>2, <2>3 DEF Inside, Owed
  <1>4. \A m \in Node \ {n} : node'[m] = node[m]
    BY <1>1, OneNode
  <1> QED
    BY <1>1, <1>2, <1>3, <1>4 DEF Owed, Starting

LEMMA StartOwed ==
  ASSUME Types, Owed, NEW n \in Node, NEW v \in Version, Start(n, v)
  PROVE  Owed'
  <1>1. /\ node' = [node EXCEPT ![n] = node'[n]] /\ node'[n].version = v /\ node'[n].cut = {}
    BY StartNode DEF Types
  <1>2. grants' = grants /\ owed' = {g \in owed : g.url \in Handlers[v]}
    BY DEF Start, tables
  <1>3. \A m \in Node \ {n} : node'[m] = node[m]
    BY <1>1, OneNode
  <1> QED
    BY <1>1, <1>2, <1>3 DEF Owed, Starting

LEMMA EndOwed ==
  ASSUME Types, Owed, NEW n \in Node, Refreshed(n) \/ Stop(n)
  PROVE  Owed'
  <1>1. /\ node' = [node EXCEPT ![n] = node'[n]] /\ node'[n].pc \in {"up", "down"}
        /\ node'[n].cut = {}
    BY RefreshedNode, StopNode DEF Types
  <1>2. owed' = owed /\ owed \subseteq grants'
    <2>1. CASE Refreshed(n)
      <3>1. Starting(n) /\ grants' = grants \ node[n].cut /\ owed' = owed
        BY <2>1 DEF Refreshed, Starting
      <3> QED
        BY <3>1 DEF Owed
    <2>2. CASE Stop(n)
      BY <2>2 DEF Stop, tables, Owed
    <2> QED
      BY <2>1, <2>2
  <1>3. \A m \in Node \ {n} : node'[m] = node[m]
    BY <1>1, OneNode
  <1> QED
    BY <1>1, <1>2, <1>3 DEF Owed, Starting

LEMMA CommitOwed ==
  ASSUME Types, Owed, NEW a \in Admin, Commit(a)
  PROVE  Owed'
  <1>1. /\ grants' = (grants \ tx[a].cut) \cup tx[a].put /\ node' = node
        /\ owed' = (owed \ tx[a].cut) \cup
              {g \in tx[a].put : \A n \in Node : Starting(n) => g.url \in Handlers[node[n].version]}
    BY DEF Commit
  <1> QED
    BY <1>1 DEF Owed, Starting

LEMMA OwedAlways == Spec => []Owed
  <1>1. Init => Owed
    BY DEF Init, Owed, Starting, Down
  <1>2. Owed /\ Idles => Owed'
    BY DEF Owed, Idles, tables, Starting
  <1>3. Types /\ Owed /\ [Next]_vars => Owed'
    BY <1>2, InsideOwed, StartOwed, EndOwed, CommitOwed, Kinds
  <1> QED
    BY <1>1, <1>3, TypesAlways, PTL DEF Spec

\* A grant stays until it is revoked or its role is deleted: refreshUrls, which
\* every start runs, drops only the grants of URLs the starting version does not
\* have.
THEOREM GrantsAreKept == Spec => []GrantsSurvive
  <1>1. Owed => GrantsSurvive
    BY DEF Owed, GrantsSurvive
  <1> QED
    BY <1>1, OwedAlways, PTL

-----------------------------------------------------------------------------
(* URLs *)

LEMMA OthersKept ==
  ASSUME Types, Kept, NEW n \in Node, node' = [node EXCEPT ![n] = node'[n]],
         node'[n].pc \notin {"save", "drop", "commit"}, urls' = urls, last' = last
  PROVE  Kept'
  <1>1. \A m \in Node \ {n} : node'[m] = node[m]
    BY OneNode
  <1>2. Kept!1'
    BY DEF Kept
  <1>3. ASSUME NEW m \in Node, node'[m].pc \in {"drop", "commit"}
        PROVE  (/\ Own(m) \subseteq UrlLocks(m)
                /\ Own(m) \subseteq urls \cup node[m].new
                /\ \A k \in Node \ {m} : Saving(k) => Doomed(k) \cap Own(m) = {})'
    <2>1. m # n /\ node'[m] = node[m]
      BY <1>1, <1>3
    <2> QED
      BY <1>1, <1>3, <2>1 DEF Kept, Own, UrlLocks, Saving, Doomed
  <1> QED
    BY <1>2, <1>3 DEF Kept

LEMMA InvalidUrlKept ==
  ASSUME Types, Kept, NEW n \in Node, InvalidUrl(n)
  PROVE  Kept'
  <1>1. /\ node' = [node EXCEPT ![n] = node'[n]] /\ node'[n].pc = "save"
        /\ node'[n].version = node[n].version
        /\ urls' = urls /\ last' = last
    BY InvalidUrlNode DEF Types, InvalidUrl, tables
  <1>2. \A m \in Node \ {n} : node'[m] = node[m] /\ UrlLocks(m) = {}
    BY <1>1, OneNode DEF InvalidUrl
  <1>3. ASSUME NEW m \in Node, node'[m].pc \in {"drop", "commit"}
        PROVE  (/\ Own(m) \subseteq UrlLocks(m)
                /\ Own(m) \subseteq urls \cup node[m].new
                /\ \A k \in Node \ {m} : Saving(k) => Doomed(k) \cap Own(m) = {})'
    <2>1. m # n /\ node'[m] = node[m] /\ UrlLocks(m) = {} /\ node[m].pc \in {"drop", "commit"}
      BY <1>1, <1>2, <1>3
    <2>2. Own(m) = {}
      BY <2>1 DEF Kept
    <2> QED
      BY <2>1, <2>2 DEF Own
  <1> QED
    BY <1>1, <1>3 DEF Kept

LEMMA SaveUrlsKept ==
  ASSUME Types, Kept, NEW n \in Node, SaveUrls(n)
  PROVE  Kept'
  <1>1. /\ node' = [node EXCEPT ![n] = node'[n]] /\ node'[n].pc = "drop"
        /\ node'[n].version = node[n].version
        /\ node'[n].rows = node[n].rows \cup (Own(n) \cap urls) /\ node'[n].new = Own(n) \ urls
        /\ urls' = urls /\ last' = last /\ node[n].pc = "save"
    BY SaveUrlsNode DEF Types, SaveUrls, tables
  <1>2. \A m \in Node \ {n} : node'[m] = node[m] /\ UrlLocks(m) \cap Own(n) = {}
    BY <1>1, OneNode DEF SaveUrls, Own
  <1>3. Doomed(n)' = Doomed(n) /\ Own(n)' = Own(n)
    BY <1>1 DEF Doomed, Own
  <1>4. \A m \in Node \ {n} : Doomed(m)' = Doomed(m) /\ Own(m)' = Own(m) /\ UrlLocks(m)' = UrlLocks(m)
    BY <1>2 DEF Doomed, Own, UrlLocks
  <1>5. /\ Own(n) \subseteq UrlLocks(n)' /\ Own(n) \subseteq urls \cup node'[n].new
        /\ \A k \in Node \ {n} : Doomed(k) \cap Own(n) = {}
    BY <1>1, <1>2 DEF UrlLocks, Doomed
  <1>6. ASSUME NEW m \in Node \ {n}, node'[m].pc \in {"drop", "commit"}
        PROVE  /\ Own(m) \subseteq UrlLocks(m)
               /\ Own(m) \subseteq urls \cup node[m].new
               /\ \A k \in Node \ {m} : Saving(k)' => Doomed(k) \cap Own(m) = {}
    BY <1>1, <1>2, <1>6 DEF Kept, Saving
  <1>7. Kept!1'
    BY <1>1 DEF Kept
  <1>8. ASSUME NEW m \in Node, node'[m].pc \in {"drop", "commit"}
        PROVE  (/\ Own(m) \subseteq UrlLocks(m)
                /\ Own(m) \subseteq urls \cup node[m].new
                /\ \A k \in Node \ {m} : Saving(k) => Doomed(k) \cap Own(m) = {})'
    <2>1. CASE m = n
      <3>1. Own(n)' \subseteq UrlLocks(n)' /\ Own(n)' \subseteq urls' \cup node'[n].new
        BY <1>1, <1>3, <1>5
      <3>2. \A k \in Node \ {n} : Doomed(k)' \cap Own(n)' = {}
        BY <1>3, <1>4, <1>5
      <3> QED
        BY <2>1, <3>1, <3>2
    <2>2. CASE m # n
      <3>1. Own(m)' \subseteq UrlLocks(m)' /\ Own(m)' \subseteq urls' \cup node'[m].new
        BY <1>1, <1>2, <1>4, <1>6, <1>8, <2>2
      <3>2. \A k \in Node : Doomed(k)' = Doomed(k)
        BY <1>3, <1>4
      <3>3. \A k \in Node \ {m} : Saving(k)' => Doomed(k)' \cap Own(m)' = {}
        BY <1>4, <1>6, <1>8, <2>2, <3>2
      <3> QED
        BY <3>1, <3>3
    <2> QED
      BY <2>1, <2>2
  <1> QED
    BY <1>7, <1>8 DEF Kept

LEMMA DropGrantsKept ==
  ASSUME Types, Kept, NEW n \in Node, DropGrants(n)
  PROVE  Kept'
  <1>1. /\ node' = [node EXCEPT ![n] = node'[n]] /\ node'[n].pc = "commit" /\ node[n].pc = "drop"
        /\ node'[n].version = node[n].version
        /\ node'[n].rows = node[n].rows /\ node'[n].new = node[n].new
        /\ urls' = urls /\ last' = last
    BY DropGrantsNode DEF Types, DropGrants, tables
  <1>2. \A m \in Node \ {n} : node'[m] = node[m]
    BY <1>1, OneNode
  <1>3. \A m \in Node : /\ Doomed(m)' = Doomed(m) /\ Own(m)' = Own(m) /\ UrlLocks(m)' = UrlLocks(m)
                        /\ node'[m].new = node[m].new
                        /\ Saving(m)' => Saving(m)
                        /\ node'[m].pc \in {"drop", "commit"} => node[m].pc \in {"drop", "commit"}
    BY <1>1, <1>2 DEF Doomed, Own, UrlLocks, Saving
  <1>4. Kept!1'
    BY <1>1 DEF Kept
  <1>5. ASSUME NEW m \in Node, node'[m].pc \in {"drop", "commit"}
        PROVE  (/\ Own(m) \subseteq UrlLocks(m)
                /\ Own(m) \subseteq urls \cup node[m].new
                /\ \A k \in Node \ {m} : Saving(k) => Doomed(k) \cap Own(m) = {})'
    <2>0. node[m].pc \in {"drop", "commit"}
      BY <1>3, <1>5
    <2>1. /\ Own(m) \subseteq UrlLocks(m) /\ Own(m) \subseteq urls \cup node[m].new
          /\ \A k \in Node \ {m} : Saving(k) => Doomed(k) \cap Own(m) = {}
      BY <2>0 DEF Kept
    <2>2. Own(m)' \subseteq UrlLocks(m)' /\ Own(m)' \subseteq urls' \cup node'[m].new
      BY <1>1, <1>3, <2>1
    <2>3. \A k \in Node \ {m} : Saving(k)' => Doomed(k)' \cap Own(m)' = {}
      BY <1>3, <2>1
    <2> QED
      BY <2>2, <2>3
  <1> QED
    BY <1>4, <1>5 DEF Kept

LEMMA RefreshedKept ==
  ASSUME Types, Kept, NEW n \in Node, Refreshed(n)
  PROVE  Kept'
  <1>1. /\ node' = [node EXCEPT ![n] = node'[n]] /\ node'[n].pc = "up" /\ node[n].pc = "commit"
        /\ urls' = (urls \ Doomed(n)) \cup node[n].new /\ last' = node[n].version
    BY RefreshedNode DEF Types, Refreshed
  <1>2. \A m \in Node \ {n} : node'[m] = node[m]
    BY <1>1, OneNode
  <1>3. Handlers[last'] \subseteq urls'
    BY <1>1 DEF Kept, Own, Doomed
  <1>4. ASSUME NEW m \in Node, node'[m].pc \in {"drop", "commit"}
        PROVE  (/\ Own(m) \subseteq UrlLocks(m)
                /\ Own(m) \subseteq urls \cup node[m].new
                /\ \A k \in Node \ {m} : Saving(k) => Doomed(k) \cap Own(m) = {})'
    <2>1. m # n /\ node'[m] = node[m] /\ node[m].pc \in {"drop", "commit"}
      BY <1>1, <1>2, <1>4
    <2>2. Saving(n) /\ Doomed(n) \cap Own(m) = {}
      BY <1>1, <2>1 DEF Kept, Saving
    <2>3. Own(m) \subseteq urls' \cup node[m].new
      BY <1>1, <2>1, <2>2 DEF Kept
    <2> QED
      BY <1>1, <1>2, <2>1, <2>3 DEF Kept, Own, UrlLocks, Saving, Doomed
  <1> QED
    BY <1>3, <1>4 DEF Kept

LEMMA KeptStep == Types /\ Kept /\ [Next]_vars => Kept'
  <1> SUFFICES ASSUME Types, Kept, [Next]_vars PROVE Kept'
    OBVIOUS
  <1>1. CASE Idles
    BY <1>1 DEF Kept, Idles, tables, Own, UrlLocks, Saving, Doomed
  <1>2. ASSUME NEW a \in Admin, Commit(a)
        PROVE  Kept'
    BY <1>2 DEF Commit, Kept, Own, UrlLocks, Saving, Doomed
  <1>3. ASSUME NEW n \in Node, NEW u \in Url, ReadRoles(n, u)
        PROVE  Kept'
    BY <1>3, ReadRolesNode, OthersKept DEF ReadRoles, tables, Types
  <1>4. ASSUME NEW n \in Node, Install(n)
        PROVE  Kept'
    BY <1>4, InstallNode, OthersKept DEF Install, tables, Types
  <1>5. ASSUME NEW n \in Node, Stop(n)
        PROVE  Kept'
    BY <1>5, StopNode, OthersKept DEF Stop, tables, Types
  <1>6. ASSUME NEW n \in Node, NEW v \in Version, Start(n, v)
        PROVE  Kept'
    <2>1. node' = [node EXCEPT ![n] = node'[n]] /\ node'[n].pc = "read"
      BY <1>6, StartNode DEF Types
    <2>2. urls' = urls /\ last' = last
      BY <1>6 DEF Start, tables
    <2> QED
      BY <2>1, <2>2, OthersKept
  <1>7. ASSUME NEW n \in Node, Inside(n)
        PROVE  Kept'
    BY <1>3, <1>4, <1>7, InvalidUrlKept, SaveUrlsKept, DropGrantsKept DEF Inside
  <1> QED
    BY <1>1, <1>2, <1>5, <1>6, <1>7, RefreshedKept, Kinds

LEMMA KeptAlways == Spec => []Kept
  <1>1. Init => Kept
    BY HandlersAssumption DEF Init, Kept, Down
  <1> QED
    BY <1>1, KeptStep, TypesAlways, PTL DEF Spec

-----------------------------------------------------------------------------
(* Maps *)

\* A node that does nothing, while what is in effect may change.
LEMMA OtherReads ==
  ASSUME Types, NEW m \in Node, ReadsOf(m), node'[m] = node[m], map'[m] = map[m],
         \/ Effective' = Effective /\ past'[m] = past[m]
         \/ Watched /\ Effective' \subseteq Grant
  PROVE  ReadsOf(m)'
  <1>1. /\ past'[m].listed = past[m].listed /\ past'[m].version = past[m].version
        /\ past'[m].always \subseteq past[m].always /\ past[m].ever \subseteq past'[m].ever
        /\ Reading(m) => past'[m].always \subseteq Effective' /\ Effective' \subseteq past'[m].ever
    <2>1. CASE Effective' = Effective /\ past'[m] = past[m]
      BY <2>1 DEF ReadsOf
    <2>2. CASE Watched /\ Effective' \subseteq Grant
      <3>1. /\ past'[m].listed = past[m].listed /\ past'[m].version = past[m].version
            /\ Reading(m) => /\ past'[m].ever = past[m].ever \cup Effective'
                             /\ past'[m].always = past[m].always \cap Effective'
            /\ ~Reading(m) => past'[m] = past[m]
        BY <2>2, WatchedPast DEF Types
      <3> QED
        BY <3>1
    <2> QED
      BY <2>1, <2>2
  <1>2. \A u, e : RightEntry(m, u, e) => RightEntry(m, u, e)'
    BY <1>1 DEF RightEntry
  <1>3. ASSUME NEW f, NothingElse(m, f)
        PROVE  \A u \in Url : f[u] # NoEntry =>
                  \A r \in f[u] \ {Sysadmin} : [role |-> r, url |-> u] \in past'[m].ever
    BY <1>1, <1>3 DEF NothingElse
  <1>4. node'[m].pc # "down" /\ past'[m].version = node'[m].version => Own(m)' \subseteq past'[m].listed
    BY <1>1 DEF ReadsOf, Own
  <1>5. CASE Reading(m)
    <2>1. \A u \in past[m].listed \ node[m].todo : RightEntry(m, u, node[m].built[u])'
      <3> SUFFICES ASSUME NEW u \in past[m].listed \ node[m].todo
                   PROVE  RightEntry(m, u, node[m].built[u])'
        OBVIOUS
      <3>1. RightEntry(m, u, node[m].built[u])
        BY <1>5 DEF ReadsOf
      <3> QED
        BY <1>1, <3>1 DEF RightEntry
    <2>2. NothingElse(m, node[m].built)'
      BY <1>3, <1>5 DEF ReadsOf, NothingElse
    <2>3. Reading(m)' /\ ~HasMap(m)' /\ node'[m] = node[m] /\ past'[m].listed = past[m].listed
      BY <1>1, <1>5 DEF Reading, HasMap
    <2>4. (\A u \in past[m].listed \ node[m].todo : RightEntry(m, u, node[m].built[u]))'
      BY <2>1, <2>3
    <2> QED
      BY <1>1, <1>4, <1>5, <2>2, <2>3, <2>4 DEF ReadsOf
  <1>6. CASE HasMap(m)
    <2>1. \A u \in past[m].listed : RightEntry(m, u, map[m][u])'
      BY <1>2, <1>6 DEF ReadsOf, RightEntry
    <2>2. NothingElse(m, map[m])'
      BY <1>3, <1>6 DEF ReadsOf, NothingElse
    <2> QED
      BY <1>1, <1>4, <1>6, <2>1, <2>2 DEF ReadsOf, Reading, HasMap
  <1> QED
    BY <1>4, <1>5, <1>6 DEF ReadsOf, Reading, HasMap

\* A node that has its map and goes on with its start.
LEMMA MapStays ==
  ASSUME NEW n \in Node, ReadsOf(n), HasMap(n), HasMap(n)', node'[n].version = node[n].version,
         map'[n] = map[n], past'[n] = past[n]
  PROVE  ReadsOf(n)'
  <1>1. ~Reading(n)'
    BY DEF HasMap, Reading
  <1>2. (node[n].pc # "down" /\ past[n].version = node[n].version => Own(n) \subseteq past[n].listed)'
    BY DEF ReadsOf, Own, HasMap
  <1>3. (\A u \in past[n].listed : RightEntry(n, u, map[n][u])) /\ NothingElse(n, map[n])
    BY DEF ReadsOf
  <1>4. (\A u \in past[n].listed : RightEntry(n, u, map[n][u]))'
    BY <1>3 DEF RightEntry
  <1>5. NothingElse(n, map[n])'
    BY <1>3 DEF NothingElse
  <1> QED
    BY <1>1, <1>2, <1>4, <1>5 DEF ReadsOf

\* What is in effect for a URL is the entry that initRequestMap makes of it.
LEMMA EntryIsRight ==
  ASSUME TypeOK, NEW n \in Node, NEW u \in Url,
         past[n].always \subseteq Effective, Effective \subseteq past[n].ever
  PROVE  LET e == Entry(u, RolesOf(u)) IN
         /\ RightEntry(n, u, e)
         /\ e # NoEntry => \A r \in e \ {Sysadmin} : [role |-> r, url |-> u] \in past[n].ever
  <1> DEFINE rs == RolesOf(u)
             e == Entry(u, rs)
  <1>1. rs \in SUBSET Role /\ rs \cup {Sysadmin} \in SUBSET Role
    BY RolesOfType, RoleAssumption
  <1>2. rs # NoEntry /\ rs \cup {Sysadmin} # NoEntry
    BY <1>1, MarkerAssumption
  <1>3. \A g \in past[n].always : g.url = u => g.role \in rs
    BY DEF RolesOf
  <1>4. \A r \in rs : [role |-> r, url |-> u] \in past[n].ever
    <2> SUFFICES ASSUME NEW r \in rs PROVE [role |-> r, url |-> u] \in past[n].ever
      OBVIOUS
    <2>1. PICK g \in Effective : g.url = u /\ g.role = r
      BY DEF RolesOf
    <2>2. g \in Grant
      BY DEF Effective, TypeOK
    <2>3. g = [role |-> r, url |-> u]
      BY <2>1, <2>2 DEF Grant
    <2> QED
      BY <2>1, <2>3
  <1> HIDE DEF rs
  <1>5. RightEntry(n, u, e)
    BY <1>2, <1>3 DEF RightEntry, Entry
  <1>6. e # NoEntry => \A r \in e \ {Sysadmin} : [role |-> r, url |-> u] \in past[n].ever
    BY <1>4 DEF Entry
  <1> QED
    BY <1>5, <1>6 DEF rs

LEMMA ReadRolesReads ==
  ASSUME Types, NEW n \in Node, ReadsOf(n), NEW u \in Url, ReadRoles(n, u)
  PROVE  ReadsOf(n)'
  <1> DEFINE x == node[n]
             y == node'[n]
  <1>1. /\ y.pc = "read" /\ y.version = x.version /\ y.todo = x.todo \ {u}
        /\ y.built[u] = Entry(u, RolesOf(u)) /\ \A w \in Url \ {u} : y.built[w] = x.built[w]
    BY ReadRolesNode DEF Types
  <1>2. x.pc = "read" /\ past' = past /\ Effective' = Effective
    BY DEF ReadRoles, tables, Effective
  <1>3. /\ past[n].always \subseteq Effective /\ Effective \subseteq past[n].ever
        /\ \A w \in past[n].listed \ x.todo : RightEntry(n, w, x.built[w])
        /\ NothingElse(n, x.built)
    BY <1>2 DEF ReadsOf, Reading
  <1>4. /\ RightEntry(n, u, y.built[u])
        /\ y.built[u] # NoEntry =>
              \A r \in y.built[u] \ {Sysadmin} : [role |-> r, url |-> u] \in past[n].ever
    BY <1>1, <1>3, EntryIsRight DEF Types
  <1>5. past[n].listed \subseteq Url
    BY DEF Types, TypeOK, Past
  <1>6. \A w \in past[n].listed \ y.todo : RightEntry(n, w, y.built[w])
    BY <1>1, <1>3, <1>4, <1>5
  <1>7. NothingElse(n, y.built)
    BY <1>1, <1>3, <1>4 DEF NothingElse
  <1>8. (\A w \in past[n].listed \ node[n].todo : RightEntry(n, w, node[n].built[w]))'
    BY <1>2, <1>6 DEF RightEntry
  <1>9. NothingElse(n, node[n].built)'
    BY <1>2, <1>7 DEF NothingElse
  <1>10. (node[n].pc # "down" /\ past[n].version = node[n].version => Own(n) \subseteq past[n].listed)'
    BY <1>1, <1>2 DEF ReadsOf, Own
  <1> QED
    BY <1>1, <1>2, <1>3, <1>8, <1>9, <1>10 DEF ReadsOf, Reading, HasMap

LEMMA InstallReads ==
  ASSUME Types, NEW n \in Node, ReadsOf(n), Install(n)
  PROVE  ReadsOf(n)'
  <1>1. /\ node[n].pc = "read" /\ node[n].todo = {} /\ past' = past
        /\ map'[n] = node[n].built
    BY DEF Install, Types, TypeOK
  <1>2. node'[n].pc = "invalid" /\ node'[n].version = node[n].version
    BY InstallNode DEF Types
  <1>3. (\A u \in past[n].listed : RightEntry(n, u, map[n][u]))'
    BY <1>1 DEF ReadsOf, Reading, RightEntry
  <1>4. NothingElse(n, map[n])'
    BY <1>1 DEF ReadsOf, Reading, NothingElse
  <1>5. (node[n].pc # "down" /\ past[n].version = node[n].version => Own(n) \subseteq past[n].listed)'
    BY <1>1, <1>2 DEF ReadsOf, Own
  <1> QED
    BY <1>2, <1>3, <1>4, <1>5 DEF ReadsOf, Reading

LEMMA StartReads ==
  ASSUME Types, Kept, NEW n \in Node, NEW v \in Version, Start(n, v)
  PROVE  ReadsOf(n)'
  <1>1. node'[n].pc = "read" /\ node'[n].version = v /\ node'[n].todo = urls /\ node'[n].built = EmptyMap
    BY StartNode DEF Types
  <1>2. /\ past'[n].listed = urls /\ past'[n].version = last
        /\ past'[n].always = Effective /\ past'[n].ever = Effective
    BY DEF Start, Types, TypeOK
  <1>3. Effective' = Effective
    BY DEF Start, tables, Effective
  <1>4. (node[n].pc # "down" /\ past[n].version = node[n].version => Own(n) \subseteq past[n].listed)'
    BY <1>1, <1>2 DEF Kept, Own
  <1>5. NothingElse(n, node[n].built)'
    BY <1>1 DEF NothingElse, EmptyMap
  <1> QED
    BY <1>1, <1>2, <1>3, <1>4, <1>5 DEF ReadsOf, HasMap

LEMMA StepReads ==
  ASSUME Types, Kept, NEW n \in Node, ReadsOf(n),
         Inside(n) \/ Refreshed(n) \/ Stop(n) \/ \E v \in Version : Start(n, v)
  PROVE  ReadsOf(n)'
  <1>1. CASE InvalidUrl(n) \/ SaveUrls(n) \/ DropGrants(n)
    <2>1. HasMap(n) /\ map' = map /\ past' = past
      BY <1>1 DEF InvalidUrl, SaveUrls, DropGrants, HasMap
    <2>2. HasMap(n)' /\ node'[n].version = node[n].version
      BY <1>1, InvalidUrlNode, SaveUrlsNode, DropGrantsNode DEF Types, HasMap
    <2> QED
      BY <2>1, <2>2, MapStays
  <1>2. CASE Refreshed(n)
    <2>1. HasMap(n) /\ map' = map /\ past'[n] = past[n]
      BY <1>2 DEF Refreshed, HasMap, Watched, Types, TypeOK
    <2>2. HasMap(n)' /\ node'[n].version = node[n].version
      BY <1>2, RefreshedNode DEF Types, HasMap
    <2> QED
      BY <2>1, <2>2, MapStays
  <1>3. CASE Stop(n)
    <2>1. node'[n].pc = "down"
      BY <1>3, StopNode DEF Types
    <2> QED
      BY <2>1 DEF ReadsOf, Reading, HasMap
  <1> QED
    BY <1>1, <1>2, <1>3, ReadRolesReads, InstallReads, StartReads DEF Inside

\* A step of one node leaves the maps of the others alone.
LEMMA OthersStand ==
  ASSUME Types, NEW n \in Node, NEW m \in Node \ {n},
         Inside(n) \/ Refreshed(n) \/ Stop(n) \/ \E v \in Version : Start(n, v)
  PROVE  /\ node'[m] = node[m] /\ map'[m] = map[m]
         /\ \/ Effective' = Effective /\ past'[m] = past[m]
            \/ Watched /\ Effective' \subseteq Grant
  <1>1. node' = [node EXCEPT ![n] = node'[n]]
    BY InsideNode, RefreshedNode, StopNode, StartNode DEF Types
  <1>2. node'[m] = node[m]
    BY <1>1, OneNode
  <1>3. CASE Refreshed(n)
    <2>1. grants' \subseteq Grant /\ roles' = roles /\ map' = map /\ Watched
      BY <1>3 DEF Refreshed, Types, TypeOK
    <2> QED
      BY <1>2, <2>1 DEF Effective
  <1>4. CASE Inside(n)
    <2>1. map'[m] = map[m]
      BY <1>4 DEF Inside, ReadRoles, Install, InvalidUrl, SaveUrls, DropGrants, Types, TypeOK
    <2>2. UNCHANGED <<grants, roles, past>>
      BY <1>4, InsideNode DEF Types, tables
    <2> QED
      BY <1>2, <2>1, <2>2 DEF Effective
  <1>5. CASE Stop(n)
    BY <1>2, <1>5 DEF Stop, tables, Effective, Types, TypeOK
  <1>6. CASE \E v \in Version : Start(n, v)
    BY <1>2, <1>6 DEF Start, tables, Effective, Types, TypeOK
  <1> QED
    BY <1>3, <1>4, <1>5, <1>6

LEMMA ReadsStep == Types /\ Kept /\ Reads /\ [Next]_vars => Reads'
  <1> SUFFICES ASSUME Types, Kept, Reads, [Next]_vars PROVE Reads'
    OBVIOUS
  <1>1. CASE Idles
    <2>1. Effective' = Effective /\ node' = node /\ map' = map /\ past' = past
      BY <1>1 DEF Idles, tables, Effective
    <2> QED
      BY <2>1, OtherReads DEF Reads
  <1>2. ASSUME NEW a \in Admin, Commit(a)
        PROVE  Reads'
    <2>1. tx[a] \in Tx
      BY DEF Types, TypeOK
    <2>2. grants' \subseteq Grant
      BY <1>2, <2>1, TxFields DEF Commit, Types, TypeOK
    <2>3. node' = node /\ map' = map /\ Watched
      BY <1>2 DEF Commit
    <2>4. Effective' \subseteq Grant
      BY <2>2 DEF Effective
    <2> QED
      BY <2>3, <2>4, OtherReads DEF Reads
  <1>3. ASSUME NEW n \in Node,
               Inside(n) \/ Refreshed(n) \/ Stop(n) \/ \E v \in Version : Start(n, v)
        PROVE  Reads'
    <2>1. ReadsOf(n)'
      BY <1>3, StepReads DEF Reads
    <2>2. \A m \in Node \ {n} : ReadsOf(m)'
      BY <1>3, OthersStand, OtherReads DEF Reads
    <2> QED
      BY <2>1, <2>2 DEF Reads
  <1> QED
    BY <1>1, <1>2, <1>3, Kinds

LEMMA ReadsAlways == Spec => []Reads
  <1>1. Init => Reads
    BY DEF Init, Reads, ReadsOf, Reading, HasMap, Down
  <1> QED
    BY <1>1, ReadsStep, TypesAlways, KeptAlways, PTL DEF Spec

\* A map lists the node's own controllers if the start completed last before it
\* was of the same version.
THEOREM OwnControllersAreMapped == Spec => []MapCoversOwnUrls
  <1>1. Types /\ Reads => MapCoversOwnUrls
    BY DEF Reads, ReadsOf, HasMap, MapCoversOwnUrls, RightEntry, Own
  <1> QED
    BY <1>1, ReadsAlways, TypesAlways, PTL

\* Though it is read query by query, a map holds no role that was not granted at
\* some time of the reading, and every one that was granted all the time.
THEOREM MapsAreOfTheirStart == Spec => []MapIsOfItsStart
  <1>1. Reads => MapIsOfItsStart
    BY DEF Reads, ReadsOf, MapIsOfItsStart, RightEntry, NothingElse
  <1> QED
    BY <1>1, ReadsAlways, PTL
=============================================================================
