--------------------------- MODULE Authorization ---------------------------
(***************************************************************************)
(* Which roles may call which URLs: RS_URL, RS_ROLE_URL and RS_ROLE, and   *)
(* the request map each node builds from them (RsSecurityMetadataSource).  *)
(*                                                                         *)
(* A node builds its map while its context starts, one query for the URLs  *)
(* and one more per URL, and then, once the context is complete, brings    *)
(* RS_URL in line with its own controllers                                 *)
(* (RsUrlServiceImpl.refreshUrls). Administrators grant and revoke URLs    *)
(* and delete roles on running nodes.                                      *)
(*                                                                         *)
(* Those changes are to reload the map through RsSecurityEventPublisher.   *)
(* The services inject org.rs.core.event.RsSecurityEventPublisher, which   *)
(* is no bean: the only bean is the class of the same name in              *)
(* org.rs.core.security.event. The optional field stays null, nothing is   *)
(* published, and a map is built once per start.                           *)
(***************************************************************************)
EXTENDS Naturals, FiniteSets

CONSTANTS
    Node,
    Admin,          \* threads that change grants and roles
    Url,
    Controllers,    \* the URLs that stand for a whole controller (URLLX = 0)
    Role,
    Sysadmin,       \* ROLE_SYSADMIN
    Version,        \* versions of the program
    Handlers,       \* the URLs of a version
    NoEntry,        \* a URL that is not in the map
    NoVersion,
    MaxStart,       \* bound: starts of nodes
    MaxTx           \* bound: changes by administrators

ASSUME HandlersAssumption == Handlers \in [Version -> SUBSET Url] /\ NoVersion \notin Version
ASSUME RoleAssumption == Sysadmin \in Role /\ Controllers \subseteq Url
ASSUME MarkerAssumption == Node # {} /\ \A rs \in SUBSET Role : rs # NoEntry
ASSUME BoundAssumption == MaxStart \in Nat /\ MaxTx \in Nat

VARIABLES
    urls,       \* RS_URL, committed
    grants,     \* RS_ROLE_URL, committed
    roles,      \* RS_ROLE, committed
    node,       \* where a node is in its life
    map,        \* requestMap of a node: the roles of a URL, or NoEntry
    tx,         \* the transaction of an administrator
    starts, txs,
    owed,       \* history: grants made, not revoked since, and of URLs that all
                \* the nodes have that started since
    last,       \* history: the version of the last start that was completed
    past        \* history: per node, what held while it read the tables

vars == <<urls, grants, roles, node, map, tx, starts, txs, owed, last, past>>

-----------------------------------------------------------------------------
Grant == [role : Role, url : Url]
MapOf == [Url -> (SUBSET Role) \cup {NoEntry}]
EmptyMap == [u \in Url |-> NoEntry]

\* todo: URLs whose roles are still to be read; rows and new: what the open
\* transaction has locked in and inserted into RS_URL; cut: what it has deleted
\* from RS_ROLE_URL.
Life == [pc : {"down", "read", "invalid", "save", "drop", "commit", "up"},
         version : Version \cup {NoVersion}, todo : SUBSET Url, built : MapOf,
         rows : SUBSET Url, new : SUBSET Url, cut : SUBSET Grant]
Down == [pc |-> "down", version |-> NoVersion, todo |-> {}, built |-> EmptyMap,
         rows |-> {}, new |-> {}, cut |-> {}]

\* todo: URLs still to be granted or revoked; put, cut: the rows inserted and
\* deleted; drop: the role is deleted.
Tx == [pc : {"idle", "insert", "delete", "role", "commit"}, node : Node, role : Role,
       todo : SUBSET Url, put : SUBSET Grant, cut : SUBSET Grant, drop : BOOLEAN]
Idle == [pc |-> "idle", node |-> CHOOSE n \in Node : TRUE, role |-> Sysadmin,
         todo |-> {}, put |-> {}, cut |-> {}, drop |-> FALSE]

\* listed: the URLs it found; ever, always: what was in effect at some time,
\* and all the time, of the reading; version: last, when it began.
Past == [listed : SUBSET Url, ever : SUBSET Grant, always : SUBSET Grant,
         version : Version \cup {NoVersion}]

TypeOK ==
    /\ urls \subseteq Url /\ grants \subseteq Grant /\ roles \subseteq Role
    /\ node \in [Node -> Life]
    /\ map \in [Node -> MapOf]
    /\ tx \in [Admin -> Tx]
    /\ starts \in 0..MaxStart /\ txs \in 0..MaxTx
    /\ owed \subseteq Grant
    /\ last \in Version \cup {NoVersion}
    /\ past \in [Node -> Past]

Init ==
    /\ urls = {} /\ grants = {} /\ roles = Role
    /\ node = [n \in Node |-> Down]
    /\ map = [n \in Node |-> EmptyMap]
    /\ tx = [a \in Admin |-> Idle]
    /\ starts = 0 /\ txs = 0
    /\ owed = {} /\ last = NoVersion
    /\ past = [n \in Node |-> [listed |-> {}, ever |-> {}, always |-> {}, version |-> NoVersion]]

\* The join of RS_ROLE_URL with RS_ROLE.
Effective == {g \in grants : g.role \in roles}

RolesOf(u) == {g.role : g \in {h \in Effective : h.url = u}}

\* Every change of what is in effect, seen by the nodes that are reading.
Watched ==
    past' = [n \in Node |->
        IF node[n].pc = "read"
        THEN [past[n] EXCEPT !.ever = @ \cup Effective', !.always = @ \cap Effective']
        ELSE past[n]]

Running(n) == node[n].pc = "up"
Starting(n) == node[n].pc \notin {"down", "up"}

\* The grants locked by anybody else: readers of the map wait for none.
LockedByTx(a) == tx[a].put \cup tx[a].cut
LockedByNode(n) == node[n].cut
LockedFor(a) == UNION ({LockedByTx(b) : b \in Admin \ {a}} \cup {LockedByNode(n) : n \in Node})

-----------------------------------------------------------------------------
(* The start of a node *)

tables == <<urls, grants, roles>>

\* afterPropertiesSet: the list of URLs.
Start(n, v) ==
    /\ node[n].pc = "down" /\ starts < MaxStart /\ starts' = starts + 1
    /\ node' = [node EXCEPT ![n] = [Down EXCEPT !.pc = "read", !.version = v, !.todo = urls]]
    /\ past' = [past EXCEPT ![n] = [listed |-> urls, ever |-> Effective,
                                    always |-> Effective, version |-> last]]
    /\ owed' = {g \in owed : g.url \in Handlers[v]}
    /\ UNCHANGED <<tables, map, tx, txs, last>>

\* The entry of initRequestMap: a controller always has one, with the system
\* administrator, a method only if a role was given.
MutEntry(u, rs) == IF rs # {} THEN rs \cup {Sysadmin} ELSE NoEntry      \* mutant
Entry(u, rs) ==
    IF u \in Controllers THEN rs \cup {Sysadmin} ELSE IF rs # {} THEN rs ELSE NoEntry

\* mutant: a dirty read
MutReadable(u) == RolesOf(u) \cup {g.role : g \in {h \in UNION {tx[a].put : a \in Admin} : h.url = u}}
Readable(u) == RolesOf(u)

With(m, u, rs) == [m EXCEPT ![u] = rs]

ReadRoles(n, u) ==
    LET x == node[n] IN
    /\ x.pc = "read" /\ u \in x.todo
    /\ node' = [node EXCEPT ![n] = [x EXCEPT !.todo = x.todo \ {u},
                                             !.built = With(x.built, u, Entry(u, Readable(u)))]]
    /\ UNCHANGED <<tables, map, tx, starts, txs, owed, last, past>>

\* requestMap is filled under the write lock, and the context goes on starting.
Install(n) ==
    /\ node[n].pc = "read" /\ node[n].todo = {}
    /\ map' = [map EXCEPT ![n] = node[n].built]
    /\ node' = [node EXCEPT ![n] = [@ EXCEPT !.pc = "invalid", !.built = EmptyMap]]
    /\ UNCHANGED <<tables, tx, starts, txs, owed, last, past>>

UrlLocks(n) == node[n].rows \cup node[n].new

\* refreshUrls, invalidUrl: an UPDATE of all rows waits for all of them.
InvalidUrl(n) ==
    /\ node[n].pc = "invalid"
    /\ \A m \in Node \ {n} : UrlLocks(m) = {}
    /\ node' = [node EXCEPT ![n] = [@ EXCEPT !.pc = "save", !.rows = urls]]
    /\ UNCHANGED <<tables, map, tx, starts, txs, owed, last, past>>

\* saveUrl for every URL of the node.  Two nodes that insert the same URL: the
\* second waits, and fails if the first commits (StartFails) unless it looked
\* for the row after that.
SaveUrls(n) ==
    LET x == node[n]
        own == Handlers[x.version]
    IN
    /\ x.pc = "save"
    /\ \A m \in Node \ {n} : UrlLocks(m) \cap own = {}
    /\ node' = [node EXCEPT ![n] = [x EXCEPT !.pc = "drop", !.rows = x.rows \cup (own \cap urls),
                                             !.new = own \ urls]]
    /\ UNCHANGED <<tables, map, tx, starts, txs, owed, last, past>>

MutDoomed(n) == node[n].rows        \* mutant: saveUrl leaves URLST as it is
Doomed(n) == node[n].rows \ Handlers[node[n].version]

\* deleteRoleUrlByUrl: no index on URL, so the DELETE waits for every row.
DropGrants(n) ==
    /\ node[n].pc = "drop"
    /\ Doomed(n) = {} \/ /\ \A a \in Admin : LockedByTx(a) = {}
                         /\ \A m \in Node \ {n} : LockedByNode(m) = {}
    /\ node' = [node EXCEPT ![n] = [@ EXCEPT !.pc = "commit",
                                             !.cut = {g \in grants : g.url \in Doomed(n)}]]
    /\ UNCHANGED <<tables, map, tx, starts, txs, owed, last, past>>

\* deleteInvalidUrl and the commit.
Refreshed(n) ==
    /\ node[n].pc = "commit"
    /\ urls' = (urls \ Doomed(n)) \cup node[n].new
    /\ grants' = grants \ node[n].cut
    /\ node' = [node EXCEPT ![n] = [Down EXCEPT !.pc = "up", !.version = node[n].version]]
    /\ last' = node[n].version
    /\ UNCHANGED <<roles, map, tx, starts, txs, owed>>
    /\ Watched

\* The node stops, or an exception of refreshUrls ends its start: what is not
\* committed is rolled back.
Stop(n) ==
    /\ node[n].pc # "down"
    /\ node' = [node EXCEPT ![n] = Down]
    /\ map' = [map EXCEPT ![n] = EmptyMap]
    /\ tx' = [a \in Admin |-> IF tx[a].node = n THEN Idle ELSE tx[a]]
    /\ UNCHANGED <<tables, starts, txs, owed, last, past>>

-----------------------------------------------------------------------------
(* insertRoleUrl, deleteRoleUrl and RsRoleServiceImpl.deleteBean *)

Begin(a, n, pc, r, us) ==
    /\ tx[a].pc = "idle" /\ Running(n) /\ txs < MaxTx /\ txs' = txs + 1
    /\ tx' = [tx EXCEPT ![a] = [Idle EXCEPT !.pc = pc, !.node = n, !.role = r, !.todo = us]]
    /\ UNCHANGED <<tables, node, map, starts, owed, last, past>>

\* mutant: the two columns mixed up
MutPending(a, u) == [role |-> u, url |-> tx[a].role]
Pending(a, u) == [role |-> tx[a].role, url |-> u]

\* A row that exists is a duplicate key, which ends the change (Rollback).
InsertRoleUrl(a, u) ==
    LET x == tx[a]
        g == Pending(a, u)
    IN
    /\ x.pc = "insert" /\ u \in x.todo
    /\ g \notin LockedFor(a) /\ g \notin grants
    /\ tx' = [tx EXCEPT ![a] = [x EXCEPT !.todo = x.todo \ {u}, !.put = x.put \cup {g},
                                         !.pc = IF x.todo = {u} THEN "commit" ELSE x.pc]]
    /\ UNCHANGED <<tables, node, map, starts, txs, owed, last, past>>

DeleteRoleUrl(a, u) ==
    LET x == tx[a]
        g == Pending(a, u)
    IN
    /\ x.pc = "delete" /\ u \in x.todo
    /\ g \notin LockedFor(a)
    /\ tx' = [tx EXCEPT ![a] = [x EXCEPT !.todo = x.todo \ {u}, !.cut = x.cut \cup ({g} \cap grants),
                                         !.pc = IF x.todo = {u} THEN "commit" ELSE x.pc]]
    /\ UNCHANGED <<tables, node, map, starts, txs, owed, last, past>>

DeleteRole(a) ==
    LET mine == {g \in Grant : g.role = tx[a].role} IN
    /\ tx[a].pc = "role"
    /\ mine \cap LockedFor(a) = {}
    /\ tx' = [tx EXCEPT ![a] = [@ EXCEPT !.pc = "commit", !.cut = mine \cap grants, !.drop = TRUE]]
    /\ UNCHANGED <<tables, node, map, starts, txs, owed, last, past>>

\* Nothing was published: the maps stay as they are.
Commit(a) ==
    LET t == tx[a] IN
    /\ t.pc = "commit"
    /\ grants' = (grants \ t.cut) \cup t.put
    /\ roles' = IF t.drop THEN roles \ {t.role} ELSE roles
    /\ owed' = (owed \ t.cut) \cup {g \in t.put : \A n \in Node : Starting(n) => g.url \in Handlers[node[n].version]}
    /\ tx' = [tx EXCEPT ![a] = Idle]
    /\ UNCHANGED <<urls, node, map, starts, txs, last>>
    /\ Watched

Rollback(a) ==
    /\ tx[a].pc # "idle"
    /\ tx' = [tx EXCEPT ![a] = Idle]
    /\ UNCHANGED <<tables, node, map, starts, txs, owed, last, past>>

Change(a, n, r) ==
    \/ \E us \in (SUBSET Url) \ {{}} : Begin(a, n, "insert", r, us) \/ Begin(a, n, "delete", r, us)
    \/ Begin(a, n, "role", r, {})

Next ==
    \/ \E n \in Node :
          \/ \E v \in Version : Start(n, v)
          \/ \E u \in Url : ReadRoles(n, u)
          \/ Install(n) \/ InvalidUrl(n) \/ SaveUrls(n) \/ DropGrants(n) \/ Refreshed(n)
          \/ Stop(n)
    \/ \E a \in Admin :
          \/ \E n \in Node, r \in Role : Change(a, n, r)
          \/ \E u \in Url : InsertRoleUrl(a, u) \/ DeleteRoleUrl(a, u)
          \/ DeleteRole(a) \/ Commit(a) \/ Rollback(a)

Spec == Init /\ [][Next]_vars

-----------------------------------------------------------------------------
(* Properties. *)

\* A grant stays until it is revoked or its role is deleted: refreshUrls, which
\* every start runs and which first marks all URLs as gone, drops only the
\* grants of URLs the starting version does not have, however many nodes start
\* and are stopped at a time.
GrantsSurvive == owed \subseteq grants

HasMap(n) == node[n].pc \in {"invalid", "save", "drop", "commit", "up"}

\* A map lists the node's own controllers if the start completed last before it
\* was of the same version; the first node of a new version has a map that does
\* not know its new controllers, since the map is built before refreshUrls.
MapCoversOwnUrls ==
    \A n \in Node : HasMap(n) /\ past[n].version = node[n].version =>
        \A u \in Controllers \cap Handlers[node[n].version] : map[n][u] # NoEntry

\* Though it is read query by query, a map holds no role that was not granted at
\* some time of the reading, and every one that was granted all the time.
MapIsOfItsStart ==
    \A n \in Node : HasMap(n) =>
        /\ \A u \in Url : map[n][u] # NoEntry =>
              \A r \in map[n][u] \ {Sysadmin} : [role |-> r, url |-> u] \in past[n].ever
        /\ \A g \in past[n].always : g.url \in past[n].listed =>
              map[n][g.url] # NoEntry /\ g.role \in map[n][g.url]

\* insertRoleUrl, deleteRoleUrl, deleteBean: "reload the authorization".  When
\* they return, the map of their node has what was granted and has not what was
\* revoked.
ChangesTakeEffect ==
    [][\A a \in Admin : Commit(a) =>
          \A u \in urls, r \in roles \ {Sysadmin} :
              LET g == [role |-> r, url |-> u]
                  entry == map'[tx[a].node][u]
              IN /\ g \in tx[a].put => entry # NoEntry /\ r \in entry
                 /\ g \in tx[a].cut => entry = NoEntry \/ r \notin entry]_vars
=============================================================================
