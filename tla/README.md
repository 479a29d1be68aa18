# TLA+ models of rs-vue

rs-vue is a Spring Boot base for web applications with users, roles, menus and
logs. Several servers ("nodes") run the same program against one MySQL database;
they share nothing else. The browser side is one bundle of JavaScript. Most of the
code is thin (a controller, a service, a mapper). What is hard about it is what
the nodes and their threads do to shared rows, and to caches of them in each
node's memory, and what windows of one browser do to the session they share.

These modules model that part. TLC checks them on small instances; TLAPS proves
for every instance what can be proved: every invariant and action property of the
runs (section 4).

    tlc -workers 2 -config MCKeyGenerator.cfg MCKeyGenerator.tla
    tlapm KeyGenerator_proofs.tla

`PROJECT.json` has the list of runs and the lines of source every definition
stands for. Paths below are relative to
`src/rs-vue-core/src/main/java/org/rs/core/`.

## 1. Inventory

### Key generator (`key/RsKeyGeneratorImpl.java`)
- **State.** `RS_KEY_TABLE`: per key name the number the next block starts at
  and its date. Per node, `keyMap`: per name a `KeyObject` with a block of
  numbers to hand out without the database.
- **Operations.** `getZipKey`, `getDateKey`, `getIndexKey` and variants: find or
  create the object, reload it if used up (or if a date key is out of date), and
  return `keyValue++`. A reload is a transaction of its own: `select ... for
  update`, `update`, `commit`.
- **Hard.** Two monitors and a row lock; every failure of the reload is printed
  and swallowed, in a place where the object in memory has already been changed;
  restarts lose blocks; the numbers of date and index keys start again every day.
- **Correct if** no key is given twice, on all nodes together; an index key, which is
  the number alone, is given again on another day, but not twice on one.

### JDBC sessions (`session/jdbc/RsIndexedSessionRepository.java`)
- **State.** `SYS_SESSION` and `SYS_SESSION_ATTRIBUTES`; per request a copy of
  the session with a delta per attribute.
- **Operations.** create, find (deletes an expired session), set attribute,
  change the id, save (one transaction), delete, clean up by a Quartz job.
- **Hard.** Requests of one session work on copies side by side; a session can be
  deleted while a request works on it; deltas must add up to the right SQL.
- **Correct if** the rows are what was saved last, deleted sessions stay deleted,
  an old session id stays useless, and only idle sessions time out.

### Session control (`security/RsSessionAuthenticationStrategy.java`)
- **State.** None of its own: the strategy, `SYS_SESSION`, what the login has
  read so far.
- **Operations.** `onAuthentication`: check the limit of the system, the limit of
  the user, refuse or delete the oldest sessions. The session of the login itself
  is stored when the response is committed, much later.
- **Hard.** Check-then-act over several reads, without a transaction.
- **Correct if** the limits hold, nobody else's session is deleted, and nobody loses
  the session he logs in from to the limit for a user.

### Security strategies (`service/impl/RsStrategyServiceImpl.java`)
- **State.** `RS_STRATEGY` (which one is enabled), `RS_STRATEGY_INFO` (their
  entries), and a cache per node.
- **Operations.** Change an entry, enable or disable a strategy (transactions
  that empty the cache of their node), read an entry through the cache.
- **Hard.** The cache is emptied before the commit; other nodes do not notice; row
  locks are taken one after the other.
- **Correct if** the cache agrees with the committed rows, one strategy is
  enabled, and administrators do not block each other.

### URL authorization (`security/access/RsSecurityMetadataSource.java`, `service/impl/RsUrlServiceImpl.java`, `RsAuthServiceImpl`, `RsRoleServiceImpl.deleteBean`)
- **State.** `RS_URL`, `RS_ROLE_URL`, `RS_ROLE`; per node the request map.
- **Operations.** At start: build the map, then bring `RS_URL` in line with the
  controllers of this version. At run time: grant, revoke, delete a role.
- **Hard.** A map put together from many queries; nodes of two versions that
  each delete the other's URLs; stops half-way; a reload that is never triggered.
- **Correct if** grants survive restarts and maps hold what was granted.

### Users and departments (`service/impl/RsUserServiceImpl.java`, `RsDeptServiceImpl.java`, `utils/DeptTools.java`)
- **State.** `RS_USER`, `RS_USER_AUTH` (who a login name stands for), `RS_DEPT`
  with level and path columns, `RS_ROLE_USER`, `RS_DEPT_USER`; the connection pool.
- **Operations.** Insert, change, move, delete a user; add and take away roles and
  departments; insert and (recursively) delete a department; load a user at login;
  the tree of departments, whole or from the department of a user down.
- **Hard.** An insertion looks for the name, fetches a key on a second connection,
  and stores the name only then; answers that nobody looks at; children read before
  their parent goes; rows of other tables that go by hand, without foreign keys.
- **Correct if** a name never changes hands, departments keep their parents and
  paths, links go with what they link, and no method waits for ever.

### Menus (`service/impl/RsMenuServiceImpl.java`, `utils/MenuTools.java`, `web/AuthCtrler.menuSave`)
- **State.** `RS_MENU` (parent and sort number), `RS_ROLE_MENU`.
- **Operations.** Insert, change (and move), delete recursively; save the menus of
  a role (two transactions); the menu page; the menus of a user.
- **Hard.** Pages older than the table; trees built from rows in an order that only
  happens to be that of the branches; one bad row spoils the page.
- **Correct if** every menu is shown once, in its place, and a role has what was saved.

### Front end (`src/rs-vue-web/src/main/resources/static/res/main.js`)
- **State.** Per window the page, the store (`dlmc`, roles, menus) and
  `sessionStorage.username`; for the browser, the session cookie.
- **Operations.** Login, logout, `loadUserInfo`, the router guard `beforeResolve`,
  reloads, answers and time-outs of requests.
- **Hard.** Answers in any order, after the page is gone, or never; a logout and a
  login of another user in between; a guard that goes on with `next()`.
- **Correct if** a window shows the user it is logged in as, and no session stays
  logged in without a window that knows.

### The rest
| part | state | why not (yet) |
|---|---|---|
| Security context repository | the context in the session | its writes at login are part of SessionControl and Client; its reload after a refresh is never triggered at this commit |
| Transactions (`RsTransactionAttributeSource`) | a cache of attributes | READ COMMITTED (line 44) around service methods is built into the models |
| Dictionaries, logs | single rows | one statement each |
| Redis sessions | - | the configuration is commented out |
| XSS filters, paging, controllers, beans, utilities | none | rewriting of strings, adapters, data |

### How the parts meet
- A login (RsAuthenticationFilter) calls session control, which reads the
  strategy through the cache, counts and deletes sessions through the repository.
  SessionControl composes the two: it has the rows and copies of JdbcSession,
  cut down to what a limit can see, and the values Strategy's getters can answer.
- Services take their primary keys from the key generator on a second
  connection. The contract between them is IdSource: Accounts and Menus rely on it
  for numbers that never repeat, and Accounts has the second connection in it.
- Deleted departments take their users out of every list and every login (the
  queries join), which is why both are one module.
- The menus of a user, at login and at `/auth/info`, are a tree that MenuTools
  makes; departments go through DeptTools, the same algorithm. Both use Tree.
- Client sees the server as one session per browser; how that session lives and
  ends is the subject of JdbcSession and SessionControl.
- Changes of grants are to reach the request map by an event (finding 4).

## 2. Modules

| module | models | checked by |
|---|---|---|
| `IdSource` | what callers of the key generator rely on | refined by KeyGenerator |
| `KeyGenerator` | RsKeyGeneratorImpl and RS_KEY_TABLE | `keygen` |
| `KeyGenerator_proofs` | theorems about KeyGenerator | tlapm |
| `JdbcSession` | RsIndexedSessionRepository, RsMapSession, the mapper's SQL | `jdbc_session`, `never_times_out`, `served_sessions` |
| `JdbcSession_proofs` | theorems about JdbcSession | tlapm |
| `SessionControl` | onAuthentication among other requests | `session_control` |
| `SessionControl_proofs` | theorems about SessionControl | tlapm |
| `Strategy` | RsStrategyServiceImpl, transactions and caches | `strategy`, `one_strategy` |
| `Strategy_proofs` | theorems about Strategy | tlapm |
| `Authorization` | URLs, grants, roles, request maps of nodes | `authorization`, `changes_take_effect` |
| `Authorization_proofs` | theorems about Authorization | tlapm |
| `Tree` | MenuTools and DeptTools, and what a right tree is | used by Accounts and Menus |
| `Accounts` | RsUserServiceImpl, RsDeptServiceImpl, with the pool and key reloads | `accounts` |
| `Accounts_proofs` | theorems about Accounts and the properties in MCAccounts | tlapm |
| `Menus` | RsMenuServiceImpl, the menus of roles | `menus` |
| `Menus_proofs` | theorems about Menus | tlapm |
| `Client` | the application code of main.js against the session | `client` |
| `Client_proofs` | theorems about Client | tlapm |
| `MC...` | the constants of the runs | |

Definitions whose name starts with `Mut` are mutants: plausible slips in the code.
No specification uses them; putting one in place of the definition below it makes
the run report the property named in `PROJECT.json`.

### KeyGenerator
A thread's `pc` says which statement it is before; who is inside which monitor
follows from it. `Lookup`/`Probe`/`Insert` are `getKeyObject` with its
double-checked creation, `Enter` the test for a used-up block, `ReloadSelect`,
`ReloadUpdate`, `ReloadCommit` the three calls of `reLoadKeyObject`, `Take`
the `keyValue++`. A failure of each call is a disjunct of its own: it goes on
exactly where the `catch` does. A lost connection in `getKeyObject` (line 98) is a
failed look at the row followed by a failed insert. `Crash(n)` loses a node's
memory; `NextDay` advances the database's date.

`backed` is a history field: the block was committed. Keys of backed blocks go to
`issued`, others to `unbacked`. The refinement says that `issued` never
repeats; a second property says when `unbacked` is empty. Both hold numbers with the
date of the block they came from; `KeyOf` is what the caller gets of one. How it is
formatted is left out, but not whether the date is in it: `getIndexKey` returns the
number alone, although its reload starts again at 1 on a new date (lines 201-214). So
`IdSource` promises names in `Daily` only that a key does not come twice for one date.
No code in the repository calls `getIndexKey`.

### JdbcSession
`req[r]` is the copy a request works on. `Find` reads row and attributes in one
step and `DeleteExpired` is the delete that may follow; `SetAttribute` has the
merge rules of the delta; `InsertSession`, `UpdateSession` and `UpdateDeleted`
are the transactions of `save`, with the attribute `UPDATE` that lacks a condition
on the name as the code has it. Who calls what, and when, is Spring's
SessionRepositoryFilter: find or create, touch, change, save once or more
(external). `row`, `stored` are the two tables; all other state is history.

### SessionControl
`login[t]` is a login under way; its `pc` is the next look: the switch
(`Control`), the system's limit (`Count`), the user's list (`List`), the kick
rule (`Decide`), one deletion after the other (`Kick`), and the commit of the
response (`Store`). `Load`/`Save` are another request of a session, `Remove`,
`Expire` the ends of sessions. What a node reads as the strategy is `policy`;
how it may lag behind the database is the subject of Strategy. As the application
stores nothing in sessions but the security context (no request cache), a session
has one attribute here, `ctx`. A stale `Save` writes the columns but not that
attribute, as the delta says. A login that fails goes through `Leave`, as its request
still saves its session: where `onAuthentication` refused it (`Refused`), the context
of the request has been cleared, and `saveContext` takes the one in the session away,
even if that is the user's own login of before; after another exception (`Failed`) the
session stays what it was.

### Strategy
A transaction goes through `invalid` (disable what is enabled), `write`,
`forget` (empty the cache) and `commit`. `invalid` takes one row per step, in any order:
it passes a row that does not match as committed, waits for one that does, and keeps
its lock (`seen`, `off`). Two activations may so wait for each other; `BreakCycle` is
the database, which rolls one of them back. `Fill` is the first reader after the cache was emptied.
One entry stands for all.

### Authorization
A node goes through `read` (one query for the URLs, one per URL for the roles),
`invalid`, `save`, `drop`, `commit` (the four statements of `refreshUrls`; the
loop of `saveUrl` is one step, since all rows that exist are locked by then) and
`up`. `Stop` may come at any time and undoes what is not committed.
Administrators insert and delete grants row by row. Roles are told apart by number
and name alike. The decision on a request is not modelled: the shipped default map
permits `/**` and is asked first.

### Tree
`Construct` is `constructMenuTree`: a fold over the rows in the order of the query,
`AddItem` the recursive `addMenus`/`addTreeItems` as a recursive function. The result
is the sequence of nodes in the order they are put into the list of their parent, so
a menu put in twice is two nodes. `Line` is the way up, which ends at the root, at a
missing parent (`objectToMap` throws), or never (a cycle); only `Climbs` rows have a
tree. `ShowsOnce` and `Sorted` say what a tree should be without building one.

### Accounts
`tx[a]` is the service method a thread is in, `pc` its next statement. Keys: `NextKey`
takes one, `UsedUp` finds the block empty (whenever it likes: the length of a block
does not matter), `Reload` gets the second connection, `GivesUp` does not.
Insertion of a user is `Check` (the look of `saveUserAuth`), the key, `InsertAuth`
(unique index), `WriteInsert`, `CommitUser`. Rows another transaction has written
make `Write...` and `InsertAuth` wait. `Visit` is the recursion of
`RsDeptServiceImpl.deleteBean`: a department comes up twice, first to read its
children, then to be deleted. The query of the children has no `ORDER BY`, so they come
in any order. `DeptTreeOf` is what DeptTools makes for a user, `DeptsGivenTo` what
`queryDeptTree` leaves of it for everybody but system administrators: the `depts` of
the first top node, so never department 1. Methods that read nothing they use later (links, `updateUsersBmbh`) are
one step. What a page names (`ShownUsers`, `ShownDepts`) was handed out, though it may
be gone by now, but is not still being inserted: nobody has been told that number.
`first`, `late`, `overlapped` are history.

### Menus
Changes of menus are one step each; what a page sends may be out of date, so parents
and menus range over all numbers ever used. `NextKey` gives a number from the block
of its server. `DeleteRoleMenu` and `UpdateRoleMenus` are the two halves of a save;
`DeleteRole` is what the deletion of a role does to its menus (old pages may still save it).
`astray`, `asked`, `disturbed` are history.

### Client
`ui[w]` is a window, `requests` what is under way: who waits for it (its page, only
its window, nobody), its answer, and whether that answer is still news. `Serve...` and
`RefuseLogin` are the server (external but for what the success handler, `info` and
the context repository do), `...Answered` the promises, `RequestFails` the time-out
of axios. `Navigate...` are the router with its guard.

## 3. Runs, bounds, and what they show

No run uses a `VIEW` or a constraint; the bounds are guards on counters named
`Max...`. Nodes, threads, users and values that the rules treat alike are symmetry
sets, except in `strategy`, `client` and `accounts`, which check liveness: symmetry
would be unsound there. All runs switch off the deadlock check: a behaviour ends
when its counters are used up, and an idle server may really stop. That nobody
waits for ever is checked as liveness where locks, keys or connections are waited
for (`strategy`, `accounts`).

**keygen.** Two servers, one with two threads, one name (plain, date or index), blocks of
two numbers (three for the index name, so that a block lasts into the next day), two days, one failure of any kind, one restart. Three threads are
needed for two to compete for a monitor while a third holds the row; a block of
two is used up within the run, so every node reloads at least twice.
Shows: disjoint blocks; the row never falls back; a key not covered by the row
needs one of the four swallowed failures (insert, select, update, commit), not a
reload without a connection, a failed first look or a restart; refinement of IdSource.

**jdbc_session.** One session, two requests, two attributes, two users, intervals 2 and
-1, three changes, three saves. Two requests are enough for every overlap of
two copies, three saves for insert, stale update and the update after it.
Shows: a deleted session never comes back, not even its attributes; without
overlapping requests the rows are the last copy saved (as long as no attribute
`UPDATE` meets a second attribute), the old id stays useless, and time-outs hit
idle sessions only. Sessions shared by two requests are excused, and the excuses
are needed: without any of them TLC finds a counterexample.

**session_control.** Three sessions, two users, two logins and another request at
a time, four requests in all, one change among three strategies (one per user,
kick; two per user and two in all, refuse; none). Three sessions are one more than
the largest limit. Shows: the limits hold at the end of every login that did not
overlap with another login of its user (or of anybody, for the limit of the
system) or with an old copy being saved; a login deletes sessions of its own user
(or of nobody any more) only, because ids change at every login; the limit for a user
neither deletes the session he logs in from nor, by a refusal, logs him out of it,
unless he already had too many. The limit of the system may: it counts that session
and looks at nothing else, and with two in all a user who logs in again in one of
them is refused and logged out. `OwnSessionIsKept` leaves that case out
(`limit = 0`: the user's limit has not been read).

**strategy.** Two administrators on one node, a second node that only reads, two strategies,
two values, three transactions, one failure; at first one strategy is enabled, as the
schema has it, or both, as overlapping activations of before have left them. Shows: a cache differs from the
committed rows for three reasons only (filled between emptying and commit,
changed by another node, query failed); it takes overlapping activations to
enable two strategies; every change ends. Three transactions let a cache go wrong
and be repaired by a later change, and two of them overlap before a third. With both
strategies enabled two activations can each lock the row the other waits for.
*Fairness.* Strong fairness on a running transaction: its thread runs, and where an
`UPDATE` waits for a row lock others take and release, InnoDB grants locks in the
order they were asked for. Weak fairness on `BreakCycle`: InnoDB detects deadlocks.
Without it TLC shows two activations that wait for each other for ever. No fairness is
assumed for beginning a change, for readers or for other rollbacks. The property could
also fail by a transaction that waits for its own row.

**authorization.** Two nodes, two versions (the new one adds a controller), three
starts, two administrators, two roles, two changes. Three starts let two nodes
overlap and one start again; two changes let a revocation or a deleted role follow
or overlap a grant. Shows: no grant is lost by starts and stops unless a version
without its URL started; a map has an entry for every controller of its node if
the same version had started before; a map holds no role that was not granted at
some time while it was read, and all that were granted all the time.

**accounts.** Two administrators, a pool of two connections, two login names, one
shipped user and two departments, three methods. Two threads and two connections are
the smallest pool in which everybody holds one connection and waits for another;
three methods let a name be given, lost by deletion or renaming, and given again, and
a department be inserted below one whose deletion overlaps a third method. Two
inserted departments on top of the shipped two make paths of four.
Shows: a login name logs in the first user ever inserted with it and nobody else,
whatever the user is called by now (so a user inserted with a name of old cannot log
in, and a renamed one still uses the old name: what the code does, not what the page
suggests); departments lose their parents only when one is put under a department
that is being deleted; while all hang, a system administrator is shown every department, a user of
any department the own one and those below, but never department 1 (whose users are
shown its branches without it); links survive only if added while
their user or department goes; every method ends.
*Fairness.* Strong fairness on a thread's next step, the end of `maxWait` (60 s in
`application-druid.yml`) included: the thread runs, and rows, monitors and
connections are granted in turn. None for new methods or rollbacks. Without `maxWait`
two insertions that both need a new block wait for ever.

**menus.** The first two of the shipped menus, one number from one server and two from
another, two sort numbers, four changes or saves, two administrators, two roles, at
most two menus in a save. Number 3 may come after 4 and 5, which is what it takes for a
child to have a smaller number than its parent. Shows: no deletion leaves a menu
without its parent; the menu page shows every menu once and in order *exactly if* no row
comes before the row of a menu above it; for a user also no submenu may come from two
roles; a role has what the last save asked for unless that save met another or stopped.
The equivalences say how far the tools can be trusted: both sides occur in the run.

**client.** Two windows, two users, three logins or logouts, two navigations, reloads or
ended sessions. Two windows and two users are needed for one window to change the
session under the other; three requests for a logout and the login of another user
after a first login whose answer is late. Shows: a window whose login was served last,
and which took no answer older than it, shows its user and is taken for it; if no
window is logged in, neither is the session, but for logins whose answer is under
way, was lost, or met a late answer to a logout; the guard keeps windows without user
name from every page except `/home` from `/login`; the login button comes back.
*Fairness.* Weak fairness on the answer to, or the time-out of, a login: axios has a
timer of ten seconds. None for the server, the user or other answers.

**Findings** (runs that end in a violation of what a comment says):
1. `never_times_out`: a negative interval is documented as "will never timeout",
   the clean-up job deletes such a session at once (`mapper/RsSessionMapper.xml:65`).
2. `served_sessions`: `findById` deletes an expired session and returns it
   (`RsIndexedSessionRepository.java:174`), so the request is served as logged in.
3. `one_strategy`: two activations at a time leave two strategies enabled
   (`RsStrategyServiceImpl.java:74`, "only one can be enabled").
4. `changes_take_effect`: the services inject the event publisher of another
   package than the bean has, optionally; the map is never reloaded
   (`RsAuthServiceImpl.java:31`).

## 4. Proofs

All theorems hold for every value of the constants the assumptions in the modules
allow (`ASSUME`, evaluated by TLC in every run), hence for any number of nodes,
threads, names, roles, failures and for every bound.

### KeyGenerator_proofs
| theorem | says |
|---|---|
| `TypesAreRight` | `Spec => []TypeOK` |
| `BlocksAreDisjoint` | two nodes never hold the same unused number |
| `RowNeverFalls` | a row only moves to a higher number or a later date |
| `GeneratesUniqueKeys` | `Spec => Ids!IdSpec`: no backed key is given twice; an index key not on one date |
| `UnbackedIsSwallowed` | an unbacked key needs a swallowed failure |

*Assumptions*: those on the constants in `KeyGenerator` (every thread has a node,
names have a kind and a step above zero, the bounds are naturals).

*The argument.* None of the properties is inductive: that a new key is new
follows from where its block came from. `IInv` adds
- `Locks`: each object monitor, the creation monitor and each row have one holder;
- `HasObject`: a thread past `getKeyObject` has an object; one about to insert has none;
- `Rows`, `Objects`: dates are not in the future, numbers are positive, plain keys have no prefix;
- `InFlight`: between select and commit the object holds a block that starts at
  the row's number, or at 1 on a later day, and the row has not changed since;
- `BelowRow`: every backed block and every key given out lies below the row of its day;
- `BlocksApart`, `IssuedIsUsedUp`: backed blocks of two nodes do not meet, and no
  backed block holds a number that was given out.

The commit of a reload is the step everything hangs on: the new block starts where
the row ends (`InFlight`), everything older is below the row (`BelowRow`), so they
are apart. For `UnbackedIsSwallowed`, a second invariant `Sound` says that without
a swallowed failure every object has a row and every number left is backed or about
to be.

### JdbcSession_proofs

| theorem | says |
|---|---|
| `TypesAreRight` | `Spec => []TypeOK` |
| `DeletedForGood` | neither row nor attributes of a deleted session come back |
| `OldIdsAreUseless` | an id that was replaced does not open its session again |
| `OnlyTheIdleTimeOut` | a session that timed out had not been used for its interval |
| `TheLastCopyIsStored` | row and attributes are the last copy that was saved |

The last three but for sessions two requests had copies of at once, the last also but
for the other excuses `StoredIsTheLastCopy` names.

*Assumptions*: an interval is a number, no value is the marker `None`, there are
finitely many attribute names, and a session has at least one id.

*The argument.* `TypeOK` needs that a delta fits its copy (`DeltaFits`: what is to be
written has a value). `Lives` says what becomes of a session: a copy that is new has one
holder and no row before it (`NewIsNew`), so an `INSERT` brings nothing back, and an
`UPDATE` or an attribute's insert finds no row to go to (`GoneIsGone`). For sessions held
by one request at a time, `IdsGoUp` says that the holder has the latest id,
`FoundIsExpired` that what was read as expired still is when it is deleted, and
`DeltaTells` what `ADDED`, `UPDATED`, `REMOVED` say about the values saved last: the
merge rules of `setAttribute` keep it, and it is why `save` makes the right statements.
Most steps keep or give up copies and let rows stay or go (`Calm`); that is shown of
each action once, and used for every invariant.

### SessionControl_proofs

| theorem | says |
|---|---|
| `TypesAreRight` | `Spec => []TypeOK` |
| `OnlyOwnUsersAreKicked` | a login deletes sessions of its own user, or of nobody, only |
| `UserLimitHolds` | a user has no more sessions than the limit when an undisturbed login is stored |
| `SystemLimitHolds` | the same for live sessions and the limit of the system |
| `OwnSessionsAreKept` | the limit for a user takes the login's own session, by deletion or refusal, only if he had too many already |

*Assumptions*: finitely many sessions (`PRIMARY_ID` is a `CHAR(36)`), limits are
numbers or null, the marker for nobody is neither a user nor a row, the bounds are
naturals.

*The argument.* A login reads three times and acts on what it read. For each property,
an invariant says what it knows at every place it can be at. `Ids`: an id that somebody
has seen was drawn, and names a session of the same user, or of nobody since a refusal, as
long as a row has it; every login draws a new one. `Limits` counts: the sessions of its user are at most those the
login found, less those it has kicked, and the own one; a list longer than the limit is
cut by the number of its victims. `Room` does the same for all live sessions and a login
nobody crowded. `NoExcess` says that nobody has more sessions than the strategy
allows, and `OwnFits` in it that the session of a login which met the limit of its user
is none of that user's: so neither the kick nor the refusal takes it from him.

### Strategy_proofs

| theorem | says |
|---|---|
| `TypesAreRight` | `Spec => []TypeOK` |
| `OneUnlessOverlapped` | two strategies are enabled only after overlapping activations |
| `SettingsAreCurrent` | a cache holds the committed settings, but for the three excuses |

*Assumptions*: every administrator has a node, the markers are no values, there are
strategies and values, and what is enabled at first are strategies.

*The argument.* That one strategy is enabled is not inductive, as a commit enables
one without looking. `Activations` adds that, without an overlap, an activation that
has looked at a row is the only one, and has what is enabled of the rows it has seen in
`off`; `Passed`, that it has seen all rows when it comes to enable its own. The order
of the rows does not matter, and row locks are not needed for it. For the cache, `Forgotten` adds that a change that is
only to be committed has left its node's cache empty, or filled since with an excuse:
so the commit, which changes what is current, finds no unexcused cache there.

### Authorization_proofs

| theorem | says |
|---|---|
| `TypesAreRight` | `Spec => []TypeOK` |
| `GrantsAreKept` | starts and stops of nodes cost no grant, unless a version without its URL started |
| `OwnControllersAreMapped` | the map of a node has its own controllers, if its version had started before |
| `MapsAreOfTheirStart` | a map has what was granted all the time it was read, and nothing that never was |

*Assumptions*: the handlers of a version are URLs, there is a node, and the marker for
"no entry" is no set of roles.

*The argument.* `Owed`: no start under way is about to delete a URL of an owed
grant. `Kept`: when a start completed, `RS_URL` has the URLs of its version, and that
outlives the starts of others, because a node holds the locks of its own URLs from
`saveUrl` to its commit and nobody else has one of them marked for deletion. `Reads`
relates a map that is half built to what was in effect since the reading began: what was
read is right for some moment of it.

### Client_proofs

| theorem | says |
|---|---|
| `TypesAreRight` | `Spec => []TypeOK` |
| `WindowsShowTheirUser` | a window whose login was served last shows the user it is taken for |
| `NobodyIsForgotten` | if no window is logged in, neither is the session, but for the late and lost answers |
| `OnlyHomeOpens` | the guard lets a window without a name go from `/login` to `/home` only |

*Assumptions*: the marker for nobody is no user, the bounds are naturals.

*The argument.* `Truth` says what every request under way knows: the answer to
a login that was not overtaken, that the session is of its user or of nobody; the answer
to a logout, that it is of nobody; the answer to an `/auth/info`, that its user is the
window's. What a window does on its own (`Quiet`: pages, reloads, time-outs) changes no
name and makes no answer, and is treated once for all.

### Accounts_proofs

| theorem | says |
|---|---|
| `TypesAreRight` | `Spec => []TypeOK` |
| `NameOfTheFirst` | a login name logs in the first user inserted with it, and nobody else |
| `LinksAreRemoved` | roles and departments of a user go with the user or the department |
| `DeptsHang` | a department loses its parent only if it was put under one that was going |
| `DeptTreesGrow` | while all hang, an administrator is shown all, a user the own department and those below but never department 1, once and in its place |

*Assumptions*: the root is number 0, the bounds are naturals, the shipped name is a name.

*The argument.* `OfName` says that a thread that is to store its new user either
inserted the auth row of the name, which then nobody else has, or found one; `Apart`,
that no two threads have inserted the row of one name (the unique index). Then the
auth rows are exactly the first users (`auth = first`). `OfLinks` says that
a transaction that deletes holds all links of what it has deleted, but for those added
since. `Well` ties the steps to their methods.

For `TypeOK` the numbers must stay in range. Every transaction draws at most one, so
those drawn and those still to be drawn are no more than the transactions (`Counted`);
a department has a greater number than its parent, and a level below its number (`Fits`,
`DeptsFit`).

`DeptsHang` is about a recursion that takes many steps while others insert. A deletion
has met one department and the children of those it has seen, and nothing else
(`FromOne`); it deletes what it has seen after its children, so whatever is below a
deleted department is deleted, or on the list before it (`ChildrenFirst`); and it has not
met a number that is still to be inserted, as nobody but its inserter knows that
(`Pending`). Hence what the deletion commits is closed downwards, unless an insertion
met it, and that sets `overlapped`. Then parents stay (`Parented`), and as they have
smaller numbers every way up ends at the root (`DownToRoot`).

`DeptTreesGrow` needs no more of the transactions than that a department keeps the level
and the path that were made from its parent's (`Paths`), for nobody can come to be under
a number that is still to be inserted (`ToCome`). Then `BMLJ LIKE` finds exactly what
is below (`PathsAreLines`), and `ORDER BY BMCJ` has every parent before its children.
`AddItem` and `Construct` are recursions: the solutions of their equations exist and
agree, by well-foundedness of the rows by rank and of their subsets by size
(`AddItemTurns`, `ConstructTurns`). Along the order of the query a tree then
grows by a new node under its parent, or that and the top it hangs on: every
key has one node (`Grows`, `TreeGrows`), so nodes and keys are equally many
(`GrownHasNoTwins`), and the keys are the rows and what is above them (`LinesOfRows`).
The only top is department 1, and what hangs below it is everything else
(`GrownGives`): that is what a user is given.

### Menus_proofs

| theorem | says |
|---|---|
| `TypesAreRight` | `Spec => []TypeOK`: also, a new menu's number is one of the server's block |
| `RolesHaveWhatWasAsked` | a role that nobody is saving has what was last asked for it |
| `MenusHang` | deletions leave no menu behind without its parent |
| `MenuPageGrows` | the menu page is right *exactly if* numbers go up along the branches |
| `MyMenusGrow` | so are the menus of a user, if no menu below the top comes from two roles |

*Assumptions*: blocks are numbers, the schema's menus are finitely many menus with
parents of smaller numbers, and no role is the marker of an idle thread.

*The argument.* `GrantedAsAsked` says nothing of a role while it is saved. `Halfway`
does: an undisturbed role between the two transactions of a save has no menus, is
saved by one thread, and that thread is to store what was asked. The second
transaction then finds nothing a duplicate key could clash with. For the types, a
free number exists in a block that is not used up, and the least one does
(`NextKeyIsFree`, by the well-foundedness of the naturals).

For `MenusHang` the table is arbitrary: moves give menus parents of any number.
All depends on `Line`, the way up, a recursive function. `LineIsLeast` shows that it is
the least set that has a menu and the parents of what it has: it exists, as the set that
is still missing shrinks (well-foundedness of strict inclusion), and solutions agree. A
menu that is put under a hanging one, and is not above it, hangs (`PutClimbs`); a
deletion takes exactly the menus whose line has the deleted one, so the line of what
stays is untouched.

The two trees are right, or wrong, in every table of the right types: moves and the blocks
of servers make any order possible, so nothing is assumed of it, and rows in a cycle
may be there as long as the user has none of them. Two things are needed of
the steps, that the table and the roles with menus stay finite (`FewGrants`) and `TypeOK`.
Whatever is put in, the keys of a tree are whole lines and every node is under its
parent (`Stands`), so the one thing that can go wrong is a second node for a key. A row
makes one exactly if it is not at the top and its key is there (`Takes`, by induction on
the height of the row), because the same menu came before or has lines through it.
Rows come in the order of the query, and rows the query does not tell apart have one
parent and cannot be above each other; so no row makes a second node exactly if the
right-hand side of the property holds (`InTurn`, `InTurnStep`, by induction on the rows).
When it does, on the menu page every parent comes before its children, nothing is loaded
ahead, and the nodes are in the order of the query (`PageTaken`): the lists are sorted.

Accounts_proofs and Menus_proofs have lemmas on `Line`, `AddItem` and `Construct` of their
own: what they extend cannot be extended together, and `Construct` takes
operators, which a common lemma could not be instantiated with.

### Only model-checked
- *Liveness*: `EveryChangeEnds`, `EveryMethodEnds`, `LoginComesBack` need fairness and
  ENABLED, which the prover does not support.

## 5. Abstractions to know about
- Day and time are numbers; a session id is the number of ids its session has had.
  Ids are random in the code, so an id never returns.
- An SQL statement is one step, and locks are rows; `invalidStrategy`, which locks
  several rows other transactions compete for, is one step per row. The two queries of a find, and
  the statements of one save, are merged: the only effect lost is a find that sees the
  row before and the attributes after another request's save.
- `RsKeyGeneratorImpl` takes the wrong turn in the same way for any `SQLException`;
  which one it is does not matter.
- Users, departments and menus are numbers. Passwords are left out of Accounts: a
  row is stored with every user and never deleted.
- A deletion of a menu, and an insertion or a move, are one step each in Menus: if they
  overlap, the insertion may as well come after the deletion, from an old page. In
  Accounts, where an insertion reads its parent, they are not.
- A user whose department is gone has no tree: `queryDeptTree` asks the empty list for
  its first element and throws. Accounts says what users of departments that are there
  are shown.
- `insertBean` looks for no parent if `bmpbh` is the root, and takes BMCJ and BMLJ from
  the bean. The page sends neither, and the columns may not be null, so the insertion
  fails; `Parent` has it as an insertion without a parent.
- The front end's `/key` request and its interceptor of error 10401 are left out: when
  the key is there before the user submits, and the server never answers 10401, as
  the default map permits every path.
- The reload of a security context after a refresh is left out: the time it
  looks at is written by the first start of a node and by the event that is never published.

## 6. Not modelled
- *Evaluation of a password*, BCrypt and the RSA key: computations of libraries.
- *Decision on a request* (`RsAccessDecisionManager`): the shipped map permits `/**`,
  so no answer depends on the state the models have.
- *Changing a password, renaming a role or a department, dictionaries and logs*: one row,
  one statement, and nothing else reads it before it writes.
- *Redis sessions*: the configuration that would use them is commented out.
- *Filters, paging, controllers, beans*: no state. *Pages that edit tables*: forms.

## 7. Plan
Every invariant and action property of the runs is proved. What may follow is a common
invariant for `Accounts` and `Tree` from which `DeptTreesGrow` comes as an instance of
the argument for menus (a tree gets a second node only for a key that is there), and
abstract specifications for the session repository and the menus of roles, in the way
`IdSource` is one for the key generator.
