----------------------------- MODULE JdbcSession -----------------------------
(***************************************************************************)
(* RsIndexedSessionRepository over SYS_SESSION and SYS_SESSION_ATTRIBUTES. *)
(* A request loads a copy of the session (JdbcSession), changes it while   *)
(* keeping a delta per attribute, and writes row and delta back in one     *)
(* transaction.  Requests of the same session run concurrently, each with  *)
(* its own copy, next to the clean-up job and to deletions by others.      *)
(*                                                                         *)
(* The calls a request makes come from the servlet container and from      *)
(* Spring's SessionRepositoryFilter (external): find or create, touch,     *)
(* change, save, possibly more than once.                                  *)
(***************************************************************************)
EXTENDS Integers, FiniteSets

CONSTANTS
    Pk,             \* PRIMARY_ID values
    Request,        \* requests running at a time
    Attr,           \* attribute names
    Ctx,            \* SPRING_SECURITY_CONTEXT, which names the principal
    Value,          \* attribute values; those of Ctx are users
    None,           \* no value, no delta, no principal
    Interval,       \* values of MAX_INACTIVE_INTERVAL, negative: no timeout
    MaxTime,        \* bound: the clock
    MaxId,          \* bound: session ids one session goes through
    MaxChange,      \* bound: changes made to copies
    MaxSave         \* bound: saves

ASSUME ConstantAssumption ==
    /\ Ctx \in Attr
    /\ None \notin Value
    /\ Interval \subseteq Int
    /\ MaxTime \in Nat /\ MaxSave \in Nat /\ MaxId \in Nat \ {0}
    /\ MaxChange \in Nat
    /\ IsFiniteSet(Attr)

VARIABLES
    now,
    row,        \* SYS_SESSION, by primary key, or None
    stored,     \* SYS_SESSION_ATTRIBUTES: per primary key, its name/value rows
    req,        \* per request, the copy it works on
    changes,    \* changes so far
    saves,      \* saves so far
    ids,        \* history: how many session ids a session was given, in order
    gone,       \* history: primary keys whose row was removed
    image,      \* history: the attributes of the last copy saved
    shared,     \* history: sessions two requests held at a time
    merged,     \* history: sessions where an UPDATE hit several attribute rows
    timedOut    \* history: what was removed as expired, and how long it was idle

vars == <<now, row, stored, req, changes, saves, ids, gone, image, shared, merged, timedOut>>
history == <<gone, image, shared, merged, timedOut>>

-----------------------------------------------------------------------------
Map == [Attr -> Value \cup {None}]
NoMap == [a \in Attr |-> None]

Delta == {"none", "ADDED", "UPDATED", "REMOVED"}
NoDelta == [a \in Attr |-> "none"]

\* EXPIRY_TIME is written together with the two columns it is the sum of.
Row == [sid : 1..MaxId, last : 0..MaxTime, interval : Interval, principal : Value \cup {None}]
Expiry(s) == s.last + s.interval

\* Java's "expired" looks at the sign of the interval, the SQL does not.
IsExpired(s) == s.interval >= 0 /\ now - s.interval >= s.last
MutExpiryTimePassed(s) == s.last < now      \* mutant: the interval forgotten
ExpiryTimePassed(s) == Expiry(s) <= now

\* sid numbers the ids a session is given; each is random, so it never returns.
\* "found" is a copy findById has read and found expired, still to be deleted.
\* late: history, the session had expired when it was read.
Copy == [pc : {"found", "active"}, pk : Pk, sid : 1..MaxId, isNew : BOOLEAN,
         last : 0..MaxTime, interval : Interval, attrs : Map, delta : [Attr -> Delta],
         late : BOOLEAN]

AttrRow == [name : Attr, value : Value]

TypeOK ==
    /\ now \in 0..MaxTime
    /\ row \in [Pk -> Row \cup {None}]
    /\ stored \in [Pk -> SUBSET AttrRow]
    /\ req \in [Request -> Copy \cup {None}]
    /\ changes \in 0..MaxChange
    /\ saves \in 0..MaxSave
    /\ ids \in [Pk -> 0..MaxId]
    /\ gone \subseteq Pk
    /\ image \in [Pk -> Map]
    /\ shared \subseteq Pk /\ merged \subseteq Pk
    /\ timedOut \subseteq [pk : Pk, interval : Interval, idle : 0..MaxTime]

Init ==
    /\ now = 0
    /\ row = [p \in Pk |-> None]
    /\ stored = [p \in Pk |-> {}]
    /\ req = [r \in Request |-> None]
    /\ changes = 0
    /\ saves = 0
    /\ ids = [p \in Pk |-> 0]
    /\ gone = {}
    /\ image = [p \in Pk |-> NoMap]
    /\ shared = {} /\ merged = {} /\ timedOut = {}

Holds(r, p) == req[r] # None /\ req[r].pk = p
Working(r) == req[r] # None /\ req[r].pc = "active"

\* RsIndexResolver: the user in the security context.
Principal(m) == m[Ctx]

\* mutant: a removed attribute is written as null
MutRows(m) == {[name |-> a, value |-> m[a]] : a \in Attr}
Rows(m) == {[name |-> a, value |-> m[a]] : a \in {b \in Attr : m[b] # None}}

\* createRsMapSession puts the rows into a map: of two rows of a name one wins.
Maps(rows) == {m \in Map : \A a \in Attr :
    LET vs == {x.value : x \in {y \in rows : y.name = a}}
    IN IF vs = {} THEN m[a] = None ELSE m[a] \in vs}

-----------------------------------------------------------------------------
(* createSession and findById *)

Create(r, p, i) ==
    /\ req[r] = None /\ ids[p] = 0 /\ saves < MaxSave
    /\ ids' = [ids EXCEPT ![p] = 1]
    /\ req' = [req EXCEPT ![r] =
          [pc |-> "active", pk |-> p, sid |-> 1, isNew |-> TRUE, last |-> now, interval |-> i,
           attrs |-> NoMap, delta |-> NoDelta, late |-> FALSE]]
    /\ UNCHANGED <<now, row, stored, changes, saves, history>>

\* The row and its attributes are read; a live session is touched by the
\* filter, an expired one is first to be deleted.
Find(r, p) ==
    /\ req[r] = None /\ row[p] # None /\ saves < MaxSave
    /\ \E m \in Maps(stored[p]) :
          req' = [req EXCEPT ![r] =
             [pc |-> IF IsExpired(row[p]) THEN "found" ELSE "active",
              pk |-> p, sid |-> row[p].sid, isNew |-> FALSE, last |-> now,
              interval |-> row[p].interval, attrs |-> m, delta |-> NoDelta, late |-> IsExpired(row[p])]]
    /\ shared' = IF \E q \in Request : Holds(q, p) THEN shared \cup {p} ELSE shared
    /\ UNCHANGED <<now, row, stored, changes, saves, ids, gone, image, merged, timedOut>>

\* on delete cascade
Remove(P) ==
    /\ row' = [p \in Pk |-> IF p \in P THEN None ELSE row[p]]
    /\ stored' = [p \in Pk |-> IF p \in P THEN {} ELSE stored[p]]
    /\ gone' = gone \cup P

TimeOut(P) == timedOut' = timedOut \cup
    {[pk |-> p, interval |-> row[p].interval, idle |-> now - row[p].last] :
        p \in P}

\* The row deleteById hits: the id may be one it has no more, or not yet.
RowWithId(c) == {p \in {c.pk} : row[p] # None /\ row[p].sid = c.sid}

\* deleteById, and then the session is returned all the same.
DeleteExpired(r) ==
    /\ req[r] # None /\ req[r].pc = "found"
    /\ Remove(RowWithId(req[r]))
    /\ req' = [req EXCEPT ![r].pc = "active"]
    /\ TimeOut(RowWithId(req[r]))
    /\ UNCHANGED <<now, changes, saves, ids, image, shared, merged>>

-----------------------------------------------------------------------------
(* Changes to the copy *)

\* mutant: an attribute added and changed before the save counts as updated
MutNextDelta(old, exists, v) ==
    IF exists THEN (IF v = None THEN "REMOVED" ELSE "UPDATED") ELSE "ADDED"

\* The delta merge rules of setAttribute.
NextDelta(old, exists, v) ==
    IF exists
    THEN IF v = None THEN (IF old = "ADDED" THEN "none" ELSE "REMOVED")
                     ELSE (IF old = "ADDED" THEN old ELSE "UPDATED")
    ELSE IF old \in {"none", "ADDED"} THEN "ADDED" ELSE "UPDATED"

Changed(c, a, v) ==
    LET attrs == [c.attrs EXCEPT ![a] = v]
        delta == [c.delta EXCEPT ![a] = NextDelta(@, c.attrs[a] # None, v)]
    IN [c EXCEPT !.attrs = attrs, !.delta = delta]

SetAttribute(r, a, v) ==
    /\ Working(r) /\ changes < MaxChange /\ changes' = changes + 1
    /\ req[r].attrs[a] # None \/ v # None
    /\ req' = [req EXCEPT ![r] = Changed(@, a, v)]
    /\ UNCHANGED <<now, row, stored, saves, ids, history>>

SetMaxInactiveInterval(r, i) ==
    /\ Working(r) /\ changes < MaxChange /\ changes' = changes + 1 /\ req[r].interval # i
    /\ req' = [req EXCEPT ![r].interval = i]
    /\ UNCHANGED <<now, row, stored, saves, ids, history>>

\* changeSessionId, at every login.
ChangeSessionId(r) ==
    LET p == req[r].pk IN
    /\ Working(r) /\ ids[p] < MaxId
    /\ ids' = [ids EXCEPT ![p] = @ + 1]
    /\ req' = [req EXCEPT ![r].sid = ids'[p]]
    /\ UNCHANGED <<now, row, stored, changes, saves, history>>

-----------------------------------------------------------------------------
(* save *)

With(d, x) == {a \in Attr : d[a] = x}

RowOf(c) == [sid |-> c.sid, last |-> c.last, interval |-> c.interval,
             principal |-> Principal(c.attrs)]

\* updateAttribute has no condition on the name: it turns every attribute row
\* of the session into the one it writes.  The names come out of a HashMap, so
\* any of them may be the last.
AfterUpdates(rows, c) ==
    LET upd == With(c.delta, "UPDATED")
    IN IF rows = {} \/ upd = {} THEN {rows}
       ELSE {{[name |-> a, value |-> c.attrs[a]]} : a \in upd}

\* insertAttributes, updateAttributes, deleteAttributes, in this order.
StoredAfter(rows, c) ==
    LET added == {x \in Rows(c.attrs) : x.name \in With(c.delta, "ADDED")}
    IN {{x \in u : x.name \notin With(c.delta, "REMOVED")} : u \in AfterUpdates(rows \cup added, c)}

\* mutant: the copy falls back to its original id
MutFlushed(c) == [c EXCEPT !.isNew = FALSE, !.delta = NoDelta, !.sid = 1]
Flushed(c) == [c EXCEPT !.isNew = FALSE, !.delta = NoDelta]

\* The filter saves when it is done with the session, and before that when the
\* response is committed early: then the handler goes on with the copy.
DoneOr(r, c) == \E done \in BOOLEAN : req' = [req EXCEPT ![r] = IF done THEN None ELSE c]

\* where PRIMARY_ID = ...
MutRowHit(p) == TRUE        \* mutant: the update inserts a row that is not there
RowHit(p) == row[p] # None

InsertSession(r) ==
    LET c == req[r] IN
    /\ Working(r) /\ c.isNew /\ saves < MaxSave
    /\ row' = [row EXCEPT ![c.pk] = RowOf(c)]
    /\ stored' = [stored EXCEPT ![c.pk] = Rows(c.attrs)]
    /\ DoneOr(r, Flushed(c))
    /\ image' = [image EXCEPT ![c.pk] = c.attrs]
    /\ saves' = saves + 1
    /\ UNCHANGED <<now, changes, ids, gone, shared, merged, timedOut>>

UpdateSession(r) ==
    LET c == req[r]
        p == c.pk
    IN
    /\ Working(r) /\ ~c.isNew /\ saves < MaxSave
    /\ RowHit(p)
    /\ row' = [row EXCEPT ![p] = RowOf(c)]
    /\ \E s \in StoredAfter(stored[p], c) : stored' = [stored EXCEPT ![p] = s]
    /\ merged' = IF With(c.delta, "UPDATED") # {} /\ Cardinality(
                       {x.name : x \in stored[p]} \cup With(c.delta, "ADDED")) > 1
                 THEN merged \cup {p} ELSE merged
    /\ DoneOr(r, Flushed(c))
    /\ image' = [image EXCEPT ![p] = c.attrs]
    /\ saves' = saves + 1
    /\ UNCHANGED <<now, changes, ids, gone, shared, timedOut>>

\* The session was deleted meanwhile: the UPDATE and the DELETEs hit no row,
\* an INSERT violates the foreign key and the transaction rolls back.
UpdateDeleted(r) ==
    LET c == req[r] IN
    /\ Working(r) /\ ~c.isNew /\ saves < MaxSave
    /\ ~RowHit(c.pk)
    /\ DoneOr(r, IF With(c.delta, "ADDED") = {} THEN Flushed(c) ELSE c)
    /\ saves' = saves + 1
    /\ UNCHANGED <<now, changes, row, stored, ids, history>>

-----------------------------------------------------------------------------
(* Deletions *)

\* session.invalidate() by a request that holds it, which then saves no more.
Invalidate(r) ==
    /\ Working(r)
    /\ Remove(RowWithId(req[r]))
    /\ req' = [req EXCEPT ![r] = None]
    /\ UNCHANGED <<now, changes, saves, ids, image, shared, merged, timedOut>>

\* deleteById by someone else: RsSessionAuthenticationStrategy kicks it out.
Kick(p) ==
    /\ row[p] # None
    /\ Remove({p})
    /\ UNCHANGED <<now, req, changes, saves, ids, image, shared, merged, timedOut>>

\* cleanUpExpiredSessions, run by the quartz job.
CleanUp ==
    LET old == {p \in Pk : row[p] # None /\ ExpiryTimePassed(row[p])} IN
    /\ old # {}
    /\ Remove(old)
    /\ TimeOut(old)
    /\ UNCHANGED <<now, req, changes, saves, ids, image, shared, merged>>

Tick ==
    /\ now < MaxTime
    /\ now' = now + 1
    /\ UNCHANGED <<row, stored, req, changes, saves, ids, history>>

Next ==
    \/ \E r \in Request :
          \/ \E p \in Pk : Find(r, p) \/ \E i \in Interval : Create(r, p, i)
          \/ \E a \in Attr, v \in Value \cup {None} : SetAttribute(r, a, v)
          \/ \E i \in Interval : SetMaxInactiveInterval(r, i)
          \/ DeleteExpired(r) \/ ChangeSessionId(r)
          \/ InsertSession(r) \/ UpdateSession(r) \/ UpdateDeleted(r)
          \/ Invalidate(r)
    \/ \E p \in Pk : Kick(p)
    \/ CleanUp
    \/ Tick

Spec == Init /\ [][Next]_vars

-----------------------------------------------------------------------------
(* Properties. *)

\* What is stored is the last copy saved, with its principal: the delta a copy
\* keeps is enough to bring the rows up to it.  That needs a session to be
\* used by one request at a time, and no UPDATE to hit a second attribute.
StoredIsTheLastCopy ==
    \A p \in Pk \ (shared \cup merged) : row[p] # None =>
        /\ stored[p] = Rows(image[p])
        /\ row[p].principal = Principal(image[p])

\* Once its row is deleted, a session stays deleted, with its attributes,
\* whatever a request still working on a copy of it saves.
DeletedStaysDeleted ==
    [][\A p \in gone : row'[p] = None /\ stored'[p] = {}]_vars

\* A session is removed as expired only after it was idle for its interval,
\* except when another request renewed it between findById's read and its
\* delete.
TimedOutWereIdle ==
    \A x \in timedOut : x.idle < x.interval => x.pk \in shared

\* After a login gave the session a new id the old one stays useless, unless
\* another request holds the session and saves its own copy of the id.
OldIdStaysUseless ==
    [][\A p \in Pk \ shared :
          row[p] # None /\ row'[p] # None => row[p].sid <= row'[p].sid]_vars

\* setDefaultMaxInactiveInterval: "A negative time indicates that the session
\* will never timeout."
NeverTimesOut == \A x \in timedOut : x.interval >= 0

\* setDefaultMaxInactiveInterval: the interval "between requests before newly
\* created sessions will be invalidated", so no request is given a session
\* that was idle for longer.
ServedSessionsAreLive ==
    \A r \in Request : Working(r) => ~req[r].late
=============================================================================
