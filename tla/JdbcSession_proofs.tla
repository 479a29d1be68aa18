------------------------- MODULE JdbcSession_proofs -------------------------
(***************************************************************************)
(* Proofs about JdbcSession, for any sessions, requests, attributes,       *)
(* intervals and bounds.                                                   *)
(*                                                                         *)
(* Types holds because a delta fits its copy: an attribute that is to be   *)
(* written has a value. Lives says what becomes of a session: a new copy   *)
(* has one holder and no row before it, so nothing brings a deleted row    *)
(* back. On top of these, each for sessions that had one request at a      *)
(* time: IdsGoUp (the holder has the latest id), FoundIsExpired (what was  *)
(* read as expired still is), and DeltaTells, which ties a delta to the    *)
(* values last saved.                                                      *)
(*                                                                         *)
(* Most steps are Calm: copies are kept or given up, rows stay or go.      *)
(* That is shown of each action once, and each invariant is kept by Calm   *)
(* steps.                                                                  *)
(***************************************************************************)
EXTENDS JdbcSession, FiniteSetTheorems, TLAPS

\* A request that holds a copy, and the copy's session.
Held(r) == req[r] # None

Times ==
    /\ \A p \in Pk : row[p] # None => row[p].last <= now
    /\ \A r \in Request : Held(r) => req[r].last <= now

\* A delta fits the values of its copy.
Fits(c) == \A a \in Attr :
    /\ c.delta[a] \in {"ADDED", "UPDATED"} => c.attrs[a] # None
    /\ c.delta[a] = "REMOVED" => c.attrs[a] = None

DeltaFits == \A r \in Request : Held(r) => Fits(req[r])

Types == TypeOK /\ Times /\ DeltaFits

\* A session is new to one request only, until that one inserts its row.
NewIsNew ==
    \A r \in Request : Held(r) /\ req[r].isNew =>
        /\ req[r].pc = "active"
        /\ row[req[r].pk] = None /\ req[r].pk \notin gone
        /\ \A q \in Request : Holds(q, req[r].pk) => q = r

Unknown ==
    \A p \in Pk : ids[p] = 0 =>
        row[p] = None /\ p \notin gone /\ \A q \in Request : ~Holds(q, p)

GoneIsGone == \A p \in gone : row[p] = None /\ stored[p] = {}

OneHolder ==
    \A p \in Pk \ shared : \A q, r \in Request : Holds(q, p) /\ Holds(r, p) => q = r

Lives == NewIsNew /\ Unknown /\ GoneIsGone /\ OneHolder

\* Ids only go up; the one holder of a session has the latest.
IdsGoUp ==
    /\ \A p \in Pk : row[p] # None => row[p].sid <= ids[p]
    /\ \A r \in Request : Held(r) => req[r].sid <= ids[req[r].pk]
    /\ \A p \in Pk \ shared : \A r \in Request :
          Holds(r, p) /\ row[p] # None => row[p].sid <= req[r].sid

FoundIsExpired ==
    \A p \in Pk \ shared : \A r \in Request :
        Holds(r, p) /\ req[r].pc = "found" /\ row[p] # None => IsExpired(row[p])

\* What a delta says about a value and the one last saved.
Tells(d, v, m) ==
    /\ d = "none" => v = m
    /\ d = "ADDED" => m = None
    /\ d \in {"UPDATED", "REMOVED"} => m # None

DeltaTells ==
    \A p \in Pk \ (shared \cup merged) : \A r \in Request :
        Holds(r, p) /\ row[p] # None =>
            \A a \in Attr : Tells(req[r].delta[a], req[r].attrs[a], image[p][a])

-----------------------------------------------------------------------------
(* Types *)

\* A row or a copy is what its type says.
LEMMA CopyIs == \A r \in Request : TypeOK /\ Held(r) => req[r] \in Copy
  BY DEF TypeOK, Held

LEMMA RowIs == \A p \in Pk : TypeOK /\ row[p] # None => row[p] \in Row
  BY DEF TypeOK

LEMMA MapsAre == NoMap \in Map /\ NoDelta \in [Attr -> Delta]
  BY DEF NoMap, Map, NoDelta, Delta

LEMMA RowsAre == \A m \in Map : Rows(m) \in SUBSET AttrRow
  BY DEF Map, Rows, AttrRow

\* The principal is the value of one attribute.
LEMMA PrincipalIs == \A m \in Map : Principal(m) \in Value \cup {None}
  BY ConstantAssumption DEF Map, Principal

LEMMA RowOfIs == \A c \in Copy : RowOf(c) \in Row
  BY PrincipalIs DEF RowOf, Row, Copy

LEMMA FlushedIs ==
  ASSUME NEW c \in Copy
  PROVE  /\ Flushed(c) \in Copy
         /\ \A f \in {"pc", "pk", "sid", "last", "interval", "attrs", "late"} :
               Flushed(c)[f] = c[f]
         /\ ~Flushed(c).isNew /\ Flushed(c).delta = NoDelta
  BY MapsAre DEF Flushed, Copy

LEMMA StoredAre ==
  ASSUME NEW s \in SUBSET AttrRow, NEW c \in Copy, Fits(c), NEW x \in StoredAfter(s, c)
  PROVE  x \subseteq AttrRow
  <1> DEFINE all == s \cup {y \in Rows(c.attrs) : y.name \in With(c.delta, "ADDED")}
  <1>1. all \subseteq AttrRow
    BY RowsAre DEF Copy
  <1>2. PICK u \in AfterUpdates(all, c) : x \subseteq u
    BY DEF StoredAfter
  <1>3. c.attrs \in Map /\ c.delta \in [Attr -> Delta]
    BY DEF Copy
  <1>4. CASE all = {} \/ With(c.delta, "UPDATED") = {}
    BY <1>1, <1>2, <1>4 DEF AfterUpdates
  <1>5. CASE ~(all = {} \/ With(c.delta, "UPDATED") = {})
    <2>1. PICK a \in With(c.delta, "UPDATED") : u = {[name |-> a, value |-> c.attrs[a]]}
      BY <1>2, <1>5 DEF AfterUpdates
    <2>2. c.attrs[a] \in Value
      BY <1>3, <2>1 DEF With, Fits, Map
    <2> QED
      BY <1>2, <2>1, <2>2 DEF AttrRow, With
  <1> QED
    BY <1>4, <1>5

LEMMA ChangedIs ==
  ASSUME NEW c \in Copy, Fits(c), NEW a \in Attr, NEW v \in Value \cup {None},
         c.attrs[a] # None \/ v # None
  PROVE  LET d == Changed(c, a, v) IN
         /\ d \in Copy /\ Fits(d)
         /\ \A f \in {"pc", "pk", "sid", "isNew", "last", "interval", "late"} : d[f] = c[f]
         /\ \A b \in Attr \ {a} : d.attrs[b] = c.attrs[b] /\ d.delta[b] = c.delta[b]
         /\ d.attrs[a] = v /\ d.delta[a] = NextDelta(c.delta[a], c.attrs[a] # None, v)
  <1> DEFINE m == [c.attrs EXCEPT ![a] = v]
             e == [c.delta EXCEPT ![a] = NextDelta(@, c.attrs[a] # None, v)]
             d == Changed(c, a, v)
  <1>1. c.attrs \in Map /\ c.delta \in [Attr -> Delta]
    BY DEF Copy
  <1>2. /\ m \in Map /\ m[a] = v
        /\ \A b \in Attr \ {a} : m[b] = c.attrs[b]
    BY <1>1 DEF Map
  <1>3. NextDelta(c.delta[a], c.attrs[a] # None, v) \in Delta
    BY <1>1 DEF NextDelta, Delta
  <1>4. /\ e \in [Attr -> Delta] /\ e[a] = NextDelta(c.delta[a], c.attrs[a] # None, v)
        /\ \A b \in Attr \ {a} : e[b] = c.delta[b]
    BY <1>1, <1>3
  <1>5. d = [c EXCEPT !.attrs = m, !.delta = e]
    BY DEF Changed
  <1> HIDE DEF m, e, d
  <1>6. /\ d \in Copy /\ d.attrs = m /\ d.delta = e
        /\ \A f \in {"pc", "pk", "sid", "isNew", "last", "interval", "late"} : d[f] = c[f]
    BY <1>2, <1>4, <1>5 DEF Copy
  <1>7. Fits(d)
    BY <1>1, <1>2, <1>4, <1>6 DEF Fits, NextDelta, Delta
  <1> QED
    BY <1>2, <1>4, <1>6, <1>7 DEF d

Good(c) == c \in Copy /\ c.last <= now /\ Fits(c)

\* What is to be shown of a step that leaves a request with the copy c.
LEMMA CopyStep ==
  ASSUME Types, NEW r \in Request, NEW c,
         req' = [req EXCEPT ![r] = c], now' = now, c = None \/ Good(c)
  PROVE  /\ req' \in [Request -> Copy \cup {None}]
         /\ \A q \in Request : Held(q)' => Good(req[q])'
  <1>1. /\ req \in [Request -> Copy \cup {None}]
        /\ \A q \in Request : req[q] = None \/ Good(req[q])
    BY DEF Types, TypeOK, Times, DeltaFits, Held, Good
  <1>2. \A q \in Request : req'[q] = IF q = r THEN c ELSE req[q]
    BY <1>1
  <1>3. \A q \in Request : req'[q] = None \/ Good(req'[q])
    BY <1>1, <1>2
  <1>4. \A q \in Request : Held(q)' => Good(req[q])'
    BY <1>3 DEF Held, Good, Fits
  <1>5. req' \in [Request -> Copy \cup {None}]
    BY <1>1 DEF Good
  <1> QED
    BY <1>4, <1>5

LEMMA HeldIsGood == \A r \in Request : Types /\ Held(r) => Good(req[r])
  BY DEF Types, TypeOK, Times, DeltaFits, Held, Good

LEMMA RemoveStep ==
  ASSUME Types, NEW P \in SUBSET Pk, Remove(P)
  PROVE  /\ row' \in [Pk -> Row \cup {None}] /\ stored' \in [Pk -> SUBSET AttrRow]
         /\ gone' = gone \cup P /\ gone' \subseteq Pk
         /\ \A p \in P : row'[p] = None /\ stored'[p] = {}
         /\ \A p \in Pk \ P : row'[p] = row[p] /\ stored'[p] = stored[p]
  BY DEF Types, TypeOK, Remove

LEMMA TimeOutStep ==
  ASSUME Types, NEW P \in SUBSET {p \in Pk : row[p] # None}, TimeOut(P)
  PROVE  timedOut' \subseteq [pk : Pk, interval : Interval, idle : 0..MaxTime]
  <1> SUFFICES ASSUME NEW p \in P
               PROVE  [pk |-> p, interval |-> row[p].interval, idle |-> now - row[p].last]
                        \in [pk : Pk, interval : Interval, idle : 0..MaxTime]
    BY DEF TimeOut, Types, TypeOK
  <1>1. row[p] \in Row /\ row[p].last <= now
    BY RowIs DEF Types, Times
  <1>2. row[p].last \in 0..MaxTime /\ row[p].interval \in Interval /\ now \in 0..MaxTime
    BY <1>1 DEF Row, Types, TypeOK
  <1>3. now - row[p].last \in 0..MaxTime
    BY <1>1, <1>2, ConstantAssumption
  <1> QED
    BY <1>2, <1>3

\* The rows of one session are written, and the copy is given up or kept.
LEMMA SaveStep ==
  ASSUME Types, NEW r \in Request, Working(r), NEW c, c = None \/ Good(c), now' = now,
         req' = [req EXCEPT ![r] = c],
         NEW s \in SUBSET AttrRow, LET p == req[r].pk IN
            /\ row' = [row EXCEPT ![p] = RowOf(req[r])]
            /\ stored' = [stored EXCEPT ![p] = s]
            /\ image' = [image EXCEPT ![p] = req[r].attrs],
         UNCHANGED <<changes, ids, gone, shared, timedOut>>,
         saves < MaxSave, saves' = saves + 1, merged' \subseteq Pk
  PROVE  Types'
  <1>0. Good(req[r]) /\ req[r] \in Copy
    BY HeldIsGood DEF Held, Working, Good
  <1>1. Good(req[r]) /\ req[r] \in Copy /\ req[r].pk \in Pk /\ req[r].attrs \in Map
    BY <1>0 DEF Copy
  <1>2. RowOf(req[r]) \in Row /\ RowOf(req[r]).last <= now
    BY <1>1, RowOfIs DEF RowOf, Good
  <1>3. /\ req' \in [Request -> Copy \cup {None}]
        /\ \A q \in Request : Held(q)' => Good(req[q])'
    BY CopyStep
  <1>4. row' \in [Pk -> Row \cup {None}] /\ \A p \in Pk : row'[p] # None => row'[p].last <= now
    BY <1>1, <1>2 DEF Types, TypeOK, Times
  <1>5. stored' \in [Pk -> SUBSET AttrRow] /\ image' \in [Pk -> Map]
    BY <1>1 DEF Types, TypeOK
  <1>6. saves' \in 0..MaxSave
    BY ConstantAssumption DEF Types, TypeOK
  <1>7. TypeOK'
    BY <1>3, <1>4, <1>5, <1>6 DEF Types, TypeOK
  <1>8. Times' /\ DeltaFits'
    BY <1>3, <1>4 DEF Times, DeltaFits, Good
  <1> QED
    BY <1>7, <1>8 DEF Types

\* A step that changes no table and only one copy.
LEMMA OwnStep ==
  ASSUME Types, NEW r \in Request, NEW c, c = None \/ Good(c), now' = now,
         req' = [req EXCEPT ![r] = c],
         UNCHANGED <<row, stored, gone, image, merged, timedOut>>,
         changes' \in 0..MaxChange, saves' \in 0..MaxSave, ids' \in [Pk -> 0..MaxId],
         shared' \subseteq Pk
  PROVE  Types'
  <1>1. /\ req' \in [Request -> Copy \cup {None}]
        /\ \A q \in Request : Held(q)' => Good(req[q])'
    BY CopyStep
  <1>2. TypeOK'
    BY <1>1 DEF Types, TypeOK
  <1>3. Times' /\ DeltaFits'
    BY <1>1 DEF Types, Times, DeltaFits, Good
  <1> QED
    BY <1>2, <1>3 DEF Types

\* A deletion, by a request that is left with the copy c, or by somebody else.
LEMMA DeletionStep ==
  ASSUME Types, NEW P \in SUBSET Pk, Remove(P), now' = now,
         /\ req' \in [Request -> Copy \cup {None}]
         /\ \A q \in Request : Held(q)' => Good(req[q])',
         UNCHANGED <<changes, saves, ids, image, shared, merged>>,
         timedOut' \subseteq [pk : Pk, interval : Interval, idle : 0..MaxTime]
  PROVE  Types'
  <1>1. TypeOK'
    BY RemoveStep DEF Types, TypeOK
  <1>2. Times'
    BY RemoveStep DEF Types, Times, Good
  <1>3. DeltaFits'
    BY DEF DeltaFits, Good
  <1> QED
    BY <1>1, <1>2, <1>3 DEF Types

LEMMA SameCopies ==
  ASSUME Types, req' = req, now' = now
  PROVE  /\ req' \in [Request -> Copy \cup {None}]
         /\ \A q \in Request : Held(q)' => Good(req[q])'
  <1>1. \A q \in Request : Held(q)' => Good(req[q])'
    BY HeldIsGood DEF Held, Good, Fits
  <1> QED
    BY <1>1 DEF Types, TypeOK

LEMMA CreateTypes ==
  ASSUME Types, NEW r \in Request, NEW p \in Pk, NEW i \in Interval, Create(r, p, i)
  PROVE  Types'
  <1> DEFINE c == [pc |-> "active", pk |-> p, sid |-> 1, isNew |-> TRUE, last |-> now,
                   interval |-> i, attrs |-> NoMap, delta |-> NoDelta, late |-> FALSE]
  <1>1. now \in 0..MaxTime /\ 1 \in 1..MaxId
    BY ConstantAssumption DEF Types, TypeOK
  <1>2. c \in Copy
    BY <1>1, MapsAre DEF Copy
  <1>3. c.last <= now /\ Fits(c)
    BY <1>1 DEF Fits, NoDelta
  <1>4. ids' \in [Pk -> 0..MaxId]
    BY ConstantAssumption DEF Create, Types, TypeOK
  <1>5. req' = [req EXCEPT ![r] = c]
    BY DEF Create
  <1> HIDE DEF c
  <1>6. Good(c)
    BY <1>2, <1>3 DEF Good
  <1> QED
    BY <1>4, <1>5, <1>6, OwnStep DEF Create, history, Types, TypeOK

LEMMA MapsOf == \A s : Maps(s) \subseteq Map
  BY DEF Maps

LEMMA FindTypes ==
  ASSUME Types, NEW r \in Request, NEW p \in Pk, Find(r, p)
  PROVE  Types'
  <1>1. now \in 0..MaxTime /\ row[p] \in Row
    BY RowIs DEF Find, Types, TypeOK
  <1>2. PICK m \in Maps(stored[p]) : req' = [req EXCEPT ![r] =
             [pc |-> IF IsExpired(row[p]) THEN "found" ELSE "active",
              pk |-> p, sid |-> row[p].sid, isNew |-> FALSE, last |-> now,
              interval |-> row[p].interval, attrs |-> m, delta |-> NoDelta,
              late |-> IsExpired(row[p])]]
    BY DEF Find
  <1> DEFINE c == [pc |-> IF IsExpired(row[p]) THEN "found" ELSE "active",
              pk |-> p, sid |-> row[p].sid, isNew |-> FALSE, last |-> now,
              interval |-> row[p].interval, attrs |-> m, delta |-> NoDelta,
              late |-> IsExpired(row[p])]
  <1>3. c \in Copy
    BY <1>1, MapsAre, MapsOf DEF Copy, Row, IsExpired
  <1>4. c.last <= now /\ Fits(c)
    BY <1>1 DEF Fits, NoDelta
  <1>5. req' = [req EXCEPT ![r] = c]
    BY <1>2
  <1> HIDE DEF c
  <1>6. Good(c)
    BY <1>3, <1>4 DEF Good
  <1>7. shared' \subseteq Pk
    BY DEF Find, Types, TypeOK
  <1> QED
    BY <1>5, <1>6, <1>7, OwnStep DEF Find, Types, TypeOK

LEMMA DeleteExpiredTypes ==
  ASSUME Types, NEW r \in Request, DeleteExpired(r)
  PROVE  Types'
  <1>1. Good(req[r])
    BY HeldIsGood DEF DeleteExpired, Held
  <1> DEFINE c == [req[r] EXCEPT !.pc = "active"]
  <1>2. Good(c)
    BY <1>1 DEF Good, Copy, Fits
  <1>3. req' = [req EXCEPT ![r] = c]
    BY DEF DeleteExpired
  <1> HIDE DEF c
  <1>4. RowWithId(req[r]) \in SUBSET {p \in Pk : row[p] # None}
    BY <1>1 DEF Good, Copy, RowWithId
  <1> QED
    BY <1>2, <1>3, <1>4, CopyStep, TimeOutStep, DeletionStep DEF DeleteExpired

LEMMA SetAttributeTypes ==
  ASSUME Types, NEW r \in Request, NEW a \in Attr, NEW v \in Value \cup {None},
         SetAttribute(r, a, v)
  PROVE  Types'
  <1>1. Good(req[r])
    BY HeldIsGood DEF SetAttribute, Working, Held
  <1> DEFINE c == Changed(req[r], a, v)
  <1>2. req' = [req EXCEPT ![r] = c]
    BY DEF SetAttribute
  <1>3. c \in Copy /\ Fits(c) /\ c.last = req[r].last
    BY <1>1, ChangedIs DEF SetAttribute, Good
  <1> HIDE DEF c
  <1>4. Good(c)
    BY <1>1, <1>3 DEF Good
  <1>5. changes' \in 0..MaxChange
    BY ConstantAssumption DEF SetAttribute, Types, TypeOK
  <1> QED
    BY <1>2, <1>4, <1>5, OwnStep DEF SetAttribute, history, Types, TypeOK

LEMMA SetIntervalTypes ==
  ASSUME Types, NEW r \in Request, NEW i \in Interval, SetMaxInactiveInterval(r, i)
  PROVE  Types'
  <1> DEFINE c == [req[r] EXCEPT !.interval = i]
  <1>1. Good(req[r])
    BY HeldIsGood DEF SetMaxInactiveInterval, Working, Held
  <1>2. Good(c)
    BY <1>1 DEF Good, Copy, Fits
  <1>3. req' = [req EXCEPT ![r] = c]
    BY DEF SetMaxInactiveInterval
  <1> HIDE DEF c
  <1>4. changes' \in 0..MaxChange
    BY ConstantAssumption DEF SetMaxInactiveInterval, Types, TypeOK
  <1> QED
    BY <1>2, <1>3, <1>4, OwnStep DEF SetMaxInactiveInterval, history, Types, TypeOK

LEMMA ChangeIdTypes ==
  ASSUME Types, NEW r \in Request, ChangeSessionId(r)
  PROVE  Types'
  <1> DEFINE p == req[r].pk
             c == [req[r] EXCEPT !.sid = ids'[p]]
  <1>1. Good(req[r]) /\ p \in Pk
    BY HeldIsGood DEF ChangeSessionId, Working, Held, Good, Copy
  <1>2. ids' \in [Pk -> 0..MaxId] /\ ids'[p] \in 1..MaxId
    BY <1>1, ConstantAssumption DEF ChangeSessionId, Types, TypeOK
  <1>3. Good(c)
    BY <1>1, <1>2 DEF Good, Copy, Fits
  <1>4. req' = [req EXCEPT ![r] = c]
    BY DEF ChangeSessionId
  <1> HIDE DEF c
  <1> QED
    BY <1>2, <1>3, <1>4, OwnStep DEF ChangeSessionId, history, Types, TypeOK

\* After a save the request has the copy flushed, or none.
LEMMA DoneStep ==
  ASSUME Types, NEW r \in Request, Held(r), NEW d, d = req[r] \/ d = Flushed(req[r]),
         DoneOr(r, d)
  PROVE  \E c : (c = None \/ c = d) /\ (c = None \/ Good(c)) /\ req' = [req EXCEPT ![r] = c]
  <1>1. Good(req[r])
    BY HeldIsGood
  <1>2. Good(d)
    BY <1>1, FlushedIs DEF Good, Fits, NoDelta
  <1>3. PICK done \in BOOLEAN : req' = [req EXCEPT ![r] = IF done THEN None ELSE d]
    BY DEF DoneOr
  <1> QED
    BY <1>2, <1>3

LEMMA InsertTypes ==
  ASSUME Types, NEW r \in Request, InsertSession(r)
  PROVE  Types'
  <1>1. Held(r) /\ req[r].attrs \in Map
    BY HeldIsGood DEF InsertSession, Working, Held, Good, Copy
  <1>2. PICK c : (c = None \/ Good(c)) /\ req' = [req EXCEPT ![r] = c]
    BY <1>1, DoneStep DEF InsertSession
  <1>3. Rows(req[r].attrs) \in SUBSET AttrRow
    BY <1>1, RowsAre
  <1>4. merged' \subseteq Pk
    BY DEF InsertSession, Types, TypeOK
  <1> QED
    BY <1>2, <1>3, <1>4, SaveStep DEF InsertSession

LEMMA UpdateTypes ==
  ASSUME Types, NEW r \in Request, UpdateSession(r)
  PROVE  Types'
  <1>1. Held(r) /\ Good(req[r]) /\ req[r].pk \in Pk
    BY HeldIsGood DEF UpdateSession, Working, Held, Good, Copy
  <1>2. PICK c : (c = None \/ Good(c)) /\ req' = [req EXCEPT ![r] = c]
    BY <1>1, DoneStep DEF UpdateSession
  <1>3. PICK s \in StoredAfter(stored[req[r].pk], req[r]) :
           stored' = [stored EXCEPT ![req[r].pk] = s]
    BY DEF UpdateSession
  <1>4. s \in SUBSET AttrRow
    BY <1>1, StoredAre DEF Good, Types, TypeOK
  <1>5. merged' \subseteq Pk
    BY <1>1 DEF UpdateSession, Types, TypeOK
  <1> QED
    BY <1>2, <1>3, <1>4, <1>5, SaveStep DEF UpdateSession

LEMMA UpdateDeletedTypes ==
  ASSUME Types, NEW r \in Request, UpdateDeleted(r)
  PROVE  Types'
  <1>1. Held(r)
    BY DEF UpdateDeleted, Working, Held
  <1>2. PICK c : (c = None \/ Good(c)) /\ req' = [req EXCEPT ![r] = c]
    <2>1. CASE With(req[r].delta, "ADDED") = {}
      BY <1>1, <2>1, DoneStep DEF UpdateDeleted
    <2>2. CASE With(req[r].delta, "ADDED") # {}
      BY <1>1, <2>2, DoneStep DEF UpdateDeleted
    <2> QED
      BY <2>1, <2>2
  <1>3. saves' \in 0..MaxSave
    BY ConstantAssumption DEF UpdateDeleted, Types, TypeOK
  <1> QED
    BY <1>2, <1>3, OwnStep DEF UpdateDeleted, history, Types, TypeOK

LEMMA RemovalTypes ==
  ASSUME Types,
         \/ \E r \in Request : Invalidate(r)
         \/ \E p \in Pk : Kick(p)
         \/ CleanUp
  PROVE  Types'
  <1>1. ASSUME NEW r \in Request, Invalidate(r)
        PROVE  Types'
    <2>1. RowWithId(req[r]) \in SUBSET Pk
      BY <1>1, HeldIsGood DEF Invalidate, Working, Held, Good, Copy, RowWithId
    <2> QED
      BY <1>1, <2>1, CopyStep, DeletionStep DEF Invalidate, Types, TypeOK
  <1>2. ASSUME NEW p \in Pk, Kick(p)
        PROVE  Types'
    BY <1>2, SameCopies, DeletionStep DEF Kick, Types, TypeOK
  <1>3. CASE CleanUp
    <2> DEFINE old == {p \in Pk : row[p] # None /\ ExpiryTimePassed(row[p])}
    <2>1. old \in SUBSET {p \in Pk : row[p] # None} /\ old \in SUBSET Pk
      OBVIOUS
    <2>2. /\ Remove(old) /\ TimeOut(old)
          /\ UNCHANGED <<now, req, changes, saves, ids, image, shared, merged>>
      BY <1>3 DEF CleanUp
    <2> HIDE DEF old
    <2> QED
      BY <2>1, <2>2, SameCopies, TimeOutStep, DeletionStep
  <1> QED
    BY <1>1, <1>2, <1>3

LEMMA TickTypes == Types /\ Tick => Types'
  <1> SUFFICES ASSUME Types, Tick PROVE Types'
    OBVIOUS
  <1>1. now' \in 0..MaxTime /\ now <= now'
    BY ConstantAssumption DEF Tick, Types, TypeOK
  <1>2. TypeOK'
    BY <1>1 DEF Tick, history, Types, TypeOK
  <1>3. \A p \in Pk : row[p] # None => row[p].last \in Int /\ row[p].last <= now
    BY RowIs DEF Row, Types, Times
  <1>4. \A r \in Request : Held(r) => req[r].last \in Int /\ req[r].last <= now
    BY CopyIs DEF Copy, Types, Times
  <1>5. Times'
    BY <1>1, <1>3, <1>4 DEF Times, Tick, history, Held, Types, TypeOK
  <1>6. DeltaFits'
    BY DEF DeltaFits, Fits, Tick, history, Held, Types
  <1> QED
    BY <1>2, <1>5, <1>6 DEF Types

LEMMA TypesStep == Types /\ [Next]_vars => Types'
  <1> SUFFICES ASSUME Types, [Next]_vars PROVE Types'
    OBVIOUS
  <1>1. ASSUME NEW r \in Request, NEW p \in Pk, Find(r, p) \/ \E i \in Interval : Create(r, p, i)
        PROVE  Types'
    BY <1>1, FindTypes, CreateTypes
  <1>2. ASSUME NEW r \in Request, \E a \in Attr, v \in Value \cup {None} : SetAttribute(r, a, v)
        PROVE  Types'
    BY <1>2, SetAttributeTypes
  <1>3. ASSUME NEW r \in Request, \/ \E i \in Interval : SetMaxInactiveInterval(r, i)
                                  \/ ChangeSessionId(r) \/ DeleteExpired(r)
        PROVE  Types'
    BY <1>3, SetIntervalTypes, ChangeIdTypes, DeleteExpiredTypes
  <1>4. ASSUME NEW r \in Request, InsertSession(r) \/ UpdateSession(r) \/ UpdateDeleted(r)
        PROVE  Types'
    BY <1>4, InsertTypes, UpdateTypes, UpdateDeletedTypes
  <1>5. CASE (\E r \in Request : Invalidate(r)) \/ (\E p \in Pk : Kick(p)) \/ CleanUp
    BY <1>5, RemovalTypes
  <1>6. CASE Tick
    BY <1>6, TickTypes
  <1>7. CASE UNCHANGED vars
    BY <1>7 DEF vars, Types, TypeOK, Times, DeltaFits, Fits, Held
  <1> QED
    BY <1>1, <1>2, <1>3, <1>4, <1>5, <1>6, <1>7 DEF Next

LEMMA TypesAlways == Spec => []Types
  <1>1. Init => Types
    BY ConstantAssumption, MapsAre DEF Init, Types, TypeOK, Times, DeltaFits, Held
  <1> QED
    BY <1>1, TypesStep, PTL DEF Spec

\* Rows, copies and counters stay in their ranges; in particular what is written
\* for an attribute changed in a copy is a value, and never null.
THEOREM TypesAreRight == Spec => []TypeOK
  <1>1. Types => TypeOK
    BY DEF Types
  <1> QED
    BY <1>1, TypesAlways, PTL

-----------------------------------------------------------------------------
(* Steps that write no row: copies are kept or given up, rows stay or go *)

Later(q) == Held(q)' =>
    /\ Held(q) /\ req'[q].pk = req[q].pk
    /\ req'[q].isNew => req[q].isNew
    /\ req'[q].pc # req[q].pc => req[q].pc = "found" /\ req'[q].pc = "active"
    /\ req'[q].sid = req[q].sid \/ req'[q].sid = ids'[req[q].pk]

SameValues(q) == Held(q)' /\ row[req[q].pk] # None =>
    req'[q].attrs = req[q].attrs /\ req'[q].delta = req[q].delta

StaysOrGoes(p) ==
    \/ row'[p] = row[p] /\ stored'[p] = stored[p] /\ (p \in gone' => p \in gone)
    \/ row[p] # None /\ row'[p] = None /\ stored'[p] = {}

Calm ==
    /\ \A q \in Request : Later(q)
    /\ \A p \in Pk : StaysOrGoes(p) /\ ids[p] <= ids'[p]
    /\ gone \subseteq gone' /\ now <= now'
    /\ UNCHANGED <<image, shared, merged>>

Quiet == Calm /\ \A q \in Request : SameValues(q)

LEMMA RemoveIsCalm ==
  ASSUME Types, NEW P \in SUBSET {p \in Pk : row[p] # None}, Remove(P)
  PROVE  (\A p \in Pk : StaysOrGoes(p)) /\ gone \subseteq gone'
  BY RemoveStep DEF StaysOrGoes

LEMMA SameRowsAreCalm ==
  ASSUME UNCHANGED <<row, stored, gone>>
  PROVE  (\A p \in Pk : StaysOrGoes(p)) /\ gone \subseteq gone'
  BY DEF StaysOrGoes

\* Only one request's copy changes.
LEMMA OneCopy ==
  ASSUME Types, NEW r \in Request, NEW c, req' = [req EXCEPT ![r] = c]
  PROVE  req'[r] = c /\ \A q \in Request \ {r} : req'[q] = req[q] /\ Later(q) /\ SameValues(q)
  BY DEF Types, TypeOK, Later, SameValues, Held

LEMMA ClockAndIds ==
  ASSUME Types
  PROVE  /\ now' = now => now <= now'
         /\ ids' = ids => \A p \in Pk : ids[p] <= ids'[p]
  BY ConstantAssumption DEF Types, TypeOK

LEMMA SetAttributeIsCalm ==
  ASSUME Types, NEW r \in Request, NEW a \in Attr, NEW v \in Value \cup {None},
         SetAttribute(r, a, v)
  PROVE  Calm
  <1> DEFINE c == Changed(req[r], a, v)
  <1>1. req[r] \in Copy /\ Fits(req[r])
    BY HeldIsGood DEF SetAttribute, Working, Held, Good
  <1>2. c.pk = req[r].pk /\ c.isNew = req[r].isNew /\ c.pc = req[r].pc /\ c.sid = req[r].sid
    BY <1>1, ChangedIs DEF SetAttribute
  <1>3. req' = [req EXCEPT ![r] = c]
    BY DEF SetAttribute
  <1> HIDE DEF c
  <1>4. Later(r)
    BY <1>2, <1>3, OneCopy DEF Later, SetAttribute, Working, Held
  <1> QED
    BY <1>3, <1>4, OneCopy, SameRowsAreCalm, ClockAndIds DEF Calm, SetAttribute, history

LEMMA SetIntervalIsQuiet ==
  ASSUME Types, NEW r \in Request, NEW i \in Interval, SetMaxInactiveInterval(r, i)
  PROVE  Quiet
  <1> DEFINE c == [req[r] EXCEPT !.interval = i]
  <1>1. req[r] \in Copy
    BY HeldIsGood DEF SetMaxInactiveInterval, Working, Held, Good
  <1>2. /\ c.pk = req[r].pk /\ c.isNew = req[r].isNew /\ c.pc = req[r].pc /\ c.sid = req[r].sid
        /\ c.attrs = req[r].attrs /\ c.delta = req[r].delta
    BY <1>1 DEF Copy
  <1>3. req' = [req EXCEPT ![r] = c]
    BY DEF SetMaxInactiveInterval
  <1> HIDE DEF c
  <1>4. Later(r) /\ SameValues(r)
    BY <1>2, <1>3, OneCopy DEF Later, SameValues, SetMaxInactiveInterval, Working, Held
  <1> QED
    BY <1>3, <1>4, OneCopy, SameRowsAreCalm, ClockAndIds
    DEF Quiet, Calm, SetMaxInactiveInterval, history

LEMMA ChangeIdIsQuiet ==
  ASSUME Types, NEW r \in Request, ChangeSessionId(r)
  PROVE  Quiet
  <1> DEFINE c == [req[r] EXCEPT !.sid = ids'[req[r].pk]]
  <1>1. req[r] \in Copy /\ req[r].pk \in Pk
    BY HeldIsGood DEF ChangeSessionId, Working, Held, Good, Copy
  <1>2. /\ c.pk = req[r].pk /\ c.isNew = req[r].isNew /\ c.pc = req[r].pc
        /\ c.sid = ids'[req[r].pk]
        /\ c.attrs = req[r].attrs /\ c.delta = req[r].delta
    BY <1>1 DEF Copy
  <1>3. req' = [req EXCEPT ![r] = c]
    BY DEF ChangeSessionId
  <1> HIDE DEF c
  <1>4. Later(r) /\ SameValues(r)
    BY <1>2, <1>3, OneCopy DEF Later, SameValues, ChangeSessionId, Working, Held
  <1>5. \A p \in Pk : ids[p] <= ids'[p]
    BY <1>1 DEF ChangeSessionId, Types, TypeOK
  <1> QED
    BY <1>3, <1>4, <1>5, OneCopy, SameRowsAreCalm, ClockAndIds
    DEF Quiet, Calm, ChangeSessionId, history

LEMMA UpdateDeletedIsQuiet ==
  ASSUME Types, NEW r \in Request, UpdateDeleted(r)
  PROVE  Quiet
  <1> DEFINE d == IF With(req[r].delta, "ADDED") = {} THEN Flushed(req[r]) ELSE req[r]
  <1>1. Held(r) /\ req[r] \in Copy /\ row[req[r].pk] = None
    BY HeldIsGood DEF UpdateDeleted, Working, Held, Good, RowHit
  <1>2. PICK c : (c = None \/ c = d) /\ req' = [req EXCEPT ![r] = c]
    BY DEF UpdateDeleted, DoneOr
  <1>3. d.pk = req[r].pk /\ (d.isNew => req[r].isNew) /\ d.pc = req[r].pc /\ d.sid = req[r].sid
    BY <1>1, FlushedIs
  <1> HIDE DEF d
  <1>4. Later(r) /\ SameValues(r)
    BY <1>1, <1>2, <1>3, OneCopy DEF Later, SameValues, Held
  <1> QED
    BY <1>2, <1>4, OneCopy, SameRowsAreCalm, ClockAndIds DEF Quiet, Calm, UpdateDeleted, history

LEMMA DeleteExpiredIsQuiet ==
  ASSUME Types, NEW r \in Request, DeleteExpired(r)
  PROVE  Quiet
  <1> DEFINE c == [req[r] EXCEPT !.pc = "active"]
  <1>1. req[r] \in Copy /\ req[r].pk \in Pk /\ Held(r) /\ req[r].pc = "found"
    BY HeldIsGood DEF DeleteExpired, Held, Good, Copy
  <1>2. /\ c.pk = req[r].pk /\ c.isNew = req[r].isNew /\ c.pc = "active" /\ c.sid = req[r].sid
        /\ c.attrs = req[r].attrs /\ c.delta = req[r].delta
    BY <1>1 DEF Copy
  <1>3. req' = [req EXCEPT ![r] = c]
    BY DEF DeleteExpired
  <1> HIDE DEF c
  <1>4. Later(r) /\ SameValues(r)
    BY <1>1, <1>2, <1>3, OneCopy DEF Later, SameValues
  <1>5. RowWithId(req[r]) \in SUBSET {p \in Pk : row[p] # None}
    BY <1>1 DEF RowWithId
  <1> QED
    BY <1>3, <1>4, <1>5, OneCopy, RemoveIsCalm, ClockAndIds DEF Quiet, Calm, DeleteExpired

LEMMA InvalidateIsQuiet ==
  ASSUME Types, NEW r \in Request, Invalidate(r)
  PROVE  Quiet
  <1>1. req[r].pk \in Pk
    BY HeldIsGood DEF Invalidate, Working, Held, Good, Copy
  <1>2. RowWithId(req[r]) \in SUBSET {p \in Pk : row[p] # None}
    BY <1>1 DEF RowWithId
  <1>3. req' = [req EXCEPT ![r] = None]
    BY DEF Invalidate
  <1>4. Later(r) /\ SameValues(r)
    BY <1>3, OneCopy DEF Later, SameValues, Held
  <1> QED
    BY <1>2, <1>3, <1>4, OneCopy, RemoveIsCalm, ClockAndIds DEF Quiet, Calm, Invalidate

LEMMA OthersAreQuiet ==
  ASSUME Types, (\E p \in Pk : Kick(p)) \/ CleanUp \/ Tick \/ UNCHANGED vars
  PROVE  Quiet
  <1>1. req' = req /\ UNCHANGED <<ids, image, shared, merged>>
    BY DEF Kick, CleanUp, Tick, vars, history
  <1>2. \A q \in Request : Later(q) /\ SameValues(q)
    BY <1>1 DEF Later, SameValues, Held
  <1>3. (\A p \in Pk : StaysOrGoes(p)) /\ gone \subseteq gone'
    <2>1. ASSUME NEW p \in Pk, Kick(p)
          PROVE  (\A q \in Pk : StaysOrGoes(q)) /\ gone \subseteq gone'
      BY <2>1, RemoveIsCalm DEF Kick
    <2>2. CASE CleanUp
      <3>1. PICK P \in SUBSET {p \in Pk : row[p] # None} : Remove(P)
        BY <2>2 DEF CleanUp
      <3> QED
        BY <3>1, RemoveIsCalm
    <2> QED
      BY <2>1, <2>2, SameRowsAreCalm DEF Tick, history, vars
  <1>4. now <= now'
    <2>1. CASE Tick
      BY <2>1, ConstantAssumption DEF Tick, Types, TypeOK
    <2> QED
      BY <2>1, ClockAndIds DEF Kick, CleanUp, vars
  <1> QED
    BY <1>1, <1>2, <1>3, <1>4, ClockAndIds DEF Quiet, Calm

LEMMA CalmOrNot ==
  ASSUME Types, [Next]_vars
  PROVE  \/ Quiet
         \/ \E r \in Request, a \in Attr, v \in Value \cup {None} : SetAttribute(r, a, v)
         \/ \E r \in Request, p \in Pk, i \in Interval : Create(r, p, i)
         \/ \E r \in Request, p \in Pk : Find(r, p)
         \/ \E r \in Request : InsertSession(r) \/ UpdateSession(r)
  BY SetIntervalIsQuiet, ChangeIdIsQuiet, UpdateDeletedIsQuiet, DeleteExpiredIsQuiet,
     InvalidateIsQuiet, OthersAreQuiet DEF Next

-----------------------------------------------------------------------------
(* Life and death of sessions *)

LEMMA PkIs == \A r \in Request : Types /\ Held(r) => req[r].pk \in Pk
  BY HeldIsGood DEF Good, Copy

LEMMA CalmLives == Types /\ Types' /\ Lives /\ Calm => Lives'
  <1> SUFFICES ASSUME Types, Types', Lives, Calm PROVE Lives'
    OBVIOUS
  <1>1. \A q \in Request, p \in Pk : Holds(q, p)' => Holds(q, p)
    BY DEF Calm, Later, Holds, Held
  <1>2. \A p \in Pk : row[p] = None => row'[p] = None /\ stored'[p] = stored[p] /\ (p \in gone' => p \in gone)
    BY DEF Calm, StaysOrGoes
  <1>3. \A r \in Request : Held(r)' /\ req'[r].isNew =>
           /\ Held(r) /\ req[r].isNew /\ req'[r].pk = req[r].pk /\ req[r].pk \in Pk
           /\ req'[r].pc = "active"
    BY PkIs DEF Calm, Later, Lives, NewIsNew
  <1>4. NewIsNew'
    BY <1>1, <1>2, <1>3 DEF Lives, NewIsNew
  <1>5. \A p \in Pk : ids'[p] = 0 => ids[p] = 0
    BY DEF Calm, Types, TypeOK
  <1>6. Unknown'
    BY <1>1, <1>2, <1>5 DEF Lives, Unknown
  <1>7. GoneIsGone'
    BY <1>2 DEF Lives, GoneIsGone, Calm, StaysOrGoes, Types, TypeOK
  <1>8. OneHolder'
    BY <1>1 DEF Lives, OneHolder, Calm
  <1> QED
    BY <1>4, <1>6, <1>7, <1>8 DEF Lives

LEMMA CreateLives ==
  ASSUME Types, Lives, NEW r \in Request, NEW p \in Pk, NEW i \in Interval, Create(r, p, i)
  PROVE  Lives'
  <1>1. PICK c : /\ req'[r] = c /\ c.pk = p /\ c.pc = "active"
                 /\ \A q \in Request \ {r} : req'[q] = req[q]
    BY DEF Create, Types, TypeOK
  <1>2. ids[p] = 0 /\ ids'[p] = 1 /\ \A q \in Pk \ {p} : ids'[q] = ids[q]
    BY DEF Create, Types, TypeOK
  <1>3. row[p] = None /\ p \notin gone /\ \A q \in Request : ~Holds(q, p)
    BY <1>2 DEF Lives, Unknown
  <1>4. \A q \in Request : Holds(q, p)' => q = r
    BY <1>1, <1>3 DEF Holds
  <1>5. \A q \in Request, o \in Pk \ {p} : Holds(q, o)' => Holds(q, o)
    BY <1>1 DEF Holds
  <1>6. UNCHANGED <<row, stored, gone, shared>>
    BY DEF Create, history
  <1>7. NewIsNew'
    <2> SUFFICES ASSUME NEW q \in Request, Held(q)', req'[q].isNew
                 PROVE  (/\ req[q].pc = "active"
                         /\ row[req[q].pk] = None /\ req[q].pk \notin gone
                         /\ \A s \in Request : Holds(s, req[q].pk) => s = q)'
      BY DEF NewIsNew
    <2>1. CASE q = r
      BY <1>1, <1>3, <1>4, <1>6, <2>1
    <2>2. CASE q # r
      <3>1. Held(q) /\ req'[q] = req[q] /\ req[q].pk \in Pk /\ req[q].pk # p
        BY <1>1, <1>3, <2>2, PkIs DEF Held, Holds
      <3> QED
        BY <1>5, <1>6, <3>1 DEF Lives, NewIsNew
    <2> QED
      BY <2>1, <2>2
  <1>8. Unknown'
    BY <1>2, <1>5, <1>6 DEF Lives, Unknown
  <1>9. GoneIsGone' /\ OneHolder'
    BY <1>4, <1>5, <1>6 DEF Lives, GoneIsGone, OneHolder
  <1> QED
    BY <1>7, <1>8, <1>9 DEF Lives

LEMMA FindCopy ==
  ASSUME Types, NEW r \in Request, NEW p \in Pk, Find(r, p)
  PROVE  \E c : /\ req' = [req EXCEPT ![r] = c]
                /\ c.pk = p /\ ~c.isNew /\ c.sid = row[p].sid /\ c.delta = NoDelta
                /\ c.attrs \in Maps(stored[p])
                /\ c.pc = IF IsExpired(row[p]) THEN "found" ELSE "active"
  <1>1. PICK m \in Maps(stored[p]) : req' = [req EXCEPT ![r] =
             [pc |-> IF IsExpired(row[p]) THEN "found" ELSE "active",
              pk |-> p, sid |-> row[p].sid, isNew |-> FALSE, last |-> now,
              interval |-> row[p].interval, attrs |-> m, delta |-> NoDelta,
              late |-> IsExpired(row[p])]]
    BY DEF Find
  <1> DEFINE c == [pc |-> IF IsExpired(row[p]) THEN "found" ELSE "active",
              pk |-> p, sid |-> row[p].sid, isNew |-> FALSE, last |-> now,
              interval |-> row[p].interval, attrs |-> m, delta |-> NoDelta,
              late |-> IsExpired(row[p])]
  <1>2. /\ c.pk = p /\ ~c.isNew /\ c.sid = row[p].sid /\ c.delta = NoDelta
        /\ c.attrs = m
        /\ c.pc = IF IsExpired(row[p]) THEN "found" ELSE "active"
    OBVIOUS
  <1>3. req' = [req EXCEPT ![r] = c]
    BY <1>1
  <1> HIDE DEF c
  <1> QED
    BY <1>1, <1>2, <1>3

LEMMA FindLives ==
  ASSUME Types, Lives, NEW r \in Request, NEW p \in Pk, Find(r, p)
  PROVE  Lives'
  <1>1. PICK c : /\ req' = [req EXCEPT ![r] = c] /\ c.pk = p /\ ~c.isNew
    BY FindCopy
  <1>2. req'[r] = c /\ \A q \in Request \ {r} : req'[q] = req[q]
    BY <1>1, OneCopy
  <1>3. row[p] # None /\ UNCHANGED <<row, stored, ids, gone>>
    BY DEF Find
  <1>4. \A q \in Request, o \in Pk \ {p} : Holds(q, o)' => Holds(q, o)
    BY <1>1, <1>2 DEF Holds
  <1>5. \A q \in Request : Holds(q, p)' => q = r \/ Holds(q, p)
    BY <1>2 DEF Holds
  <1>6. NewIsNew'
    <2> SUFFICES ASSUME NEW q \in Request, Held(q)', req'[q].isNew
                 PROVE  (/\ req[q].pc = "active"
                         /\ row[req[q].pk] = None /\ req[q].pk \notin gone
                         /\ \A s \in Request : Holds(s, req[q].pk) => s = q)'
      BY DEF NewIsNew
    <2>1. Held(q) /\ req'[q] = req[q] /\ req[q].pk \in Pk
      BY <1>1, <1>2, PkIs DEF Held
    <2>2. row[req[q].pk] = None /\ req[q].pk # p
      BY <1>3, <2>1 DEF Lives, NewIsNew
    <2> QED
      BY <1>3, <1>4, <2>1, <2>2 DEF Lives, NewIsNew
  <1>7. Unknown' /\ GoneIsGone'
    BY <1>3, <1>4 DEF Lives, Unknown, GoneIsGone
  <1>8. OneHolder'
    <2>1. p \notin shared' => \A q \in Request : Holds(q, p)' => q = r
      BY <1>5 DEF Find
    <2>2. shared \subseteq shared'
      BY DEF Find
    <2> QED
      BY <1>4, <2>1, <2>2 DEF Lives, OneHolder
  <1> QED
    BY <1>6, <1>7, <1>8 DEF Lives

\* A save: the request's copy is no longer new, other rows stay.
LEMMA SaveCopy ==
  ASSUME Types, NEW r \in Request, InsertSession(r) \/ UpdateSession(r)
  PROVE  /\ req[r] \in Copy /\ Held(r) /\ req[r].pc = "active" /\ req[r].pk \in Pk
         /\ \A q \in Request \ {r} : req'[q] = req[q]
         /\ Held(r)' => /\ req'[r].pc = req[r].pc /\ req'[r].pk = req[r].pk
                        /\ req'[r].sid = req[r].sid /\ req'[r].attrs = req[r].attrs
                        /\ ~req'[r].isNew /\ req'[r].delta = NoDelta
         /\ row'[req[r].pk] = RowOf(req[r])
         /\ image'[req[r].pk] = req[r].attrs
         /\ \A p \in Pk \ {req[r].pk} : row'[p] = row[p] /\ stored'[p] = stored[p] /\ image'[p] = image[p]
         /\ UNCHANGED <<now, ids, gone, shared, timedOut>>
  <1>1. req[r] \in Copy /\ Held(r) /\ req[r].pc = "active"
    BY HeldIsGood DEF InsertSession, UpdateSession, Working, Held, Good
  <1>2. req[r].pk \in Pk
    BY <1>1, PkIs
  <1>3. PICK c : (c = None \/ c = Flushed(req[r])) /\ req' = [req EXCEPT ![r] = c]
    BY DEF InsertSession, UpdateSession, DoneOr
  <1>4. Held(r)' => /\ req'[r].pc = req[r].pc /\ req'[r].pk = req[r].pk
                    /\ req'[r].sid = req[r].sid /\ req'[r].attrs = req[r].attrs
                    /\ ~req'[r].isNew /\ req'[r].delta = NoDelta
    <2> DEFINE d == Flushed(req[r])
    <2>1. d.pc = req[r].pc /\ d.pk = req[r].pk /\ d.sid = req[r].sid /\ d.attrs = req[r].attrs
      BY <1>1, FlushedIs
    <2>2. ~d.isNew /\ d.delta = NoDelta
      BY <1>1, FlushedIs
    <2>3. c = None \/ c = d
      BY <1>3
    <2> HIDE DEF d
    <2>4. req'[r] = c
      BY <1>3, OneCopy
    <2> QED
      BY <2>1, <2>2, <2>3, <2>4 DEF Held
  <1>5. /\ row' = [row EXCEPT ![req[r].pk] = RowOf(req[r])]
        /\ image' = [image EXCEPT ![req[r].pk] = req[r].attrs]
        /\ \E s : stored' = [stored EXCEPT ![req[r].pk] = s]
    BY DEF InsertSession, UpdateSession
  <1>7. /\ row'[req[r].pk] = RowOf(req[r])
        /\ image'[req[r].pk] = req[r].attrs
        /\ \A p \in Pk \ {req[r].pk} : row'[p] = row[p] /\ stored'[p] = stored[p] /\ image'[p] = image[p]
    BY <1>2, <1>5 DEF Types, TypeOK
  <1> QED
    BY <1>1, <1>2, <1>3, <1>4, <1>7, OneCopy DEF InsertSession, UpdateSession

LEMMA SaveLives ==
  ASSUME Types, Lives, NEW r \in Request, InsertSession(r) \/ UpdateSession(r)
  PROVE  Lives'
  <1> DEFINE p == req[r].pk
  <1>1. p \in Pk /\ Holds(r, p) /\ p \notin gone /\ \A q \in Request \ {r} : req'[q] = req[q]
    BY SaveCopy DEF InsertSession, UpdateSession, RowHit, Lives, NewIsNew, GoneIsGone, Holds, Held
  <1>2. \A q \in Request, o \in Pk : Holds(q, o)' => Holds(q, o)
    BY SaveCopy, <1>1 DEF Holds, Held
  <1>3. \A o \in Pk \ {p} : row'[o] = row[o] /\ stored'[o] = stored[o]
    BY SaveCopy
  <1>4. UNCHANGED <<ids, gone, shared>>
    BY SaveCopy
  <1>5. NewIsNew'
    <2> SUFFICES ASSUME NEW q \in Request, Held(q)', req'[q].isNew
                 PROVE  (/\ req[q].pc = "active"
                         /\ row[req[q].pk] = None /\ req[q].pk \notin gone
                         /\ \A s \in Request : Holds(s, req[q].pk) => s = q)'
      BY DEF NewIsNew
    <2>1. q # r /\ Held(q) /\ req'[q] = req[q] /\ req[q].pk \in Pk
      BY <1>1, SaveCopy, PkIs DEF Held
    <2>2. req[q].pk # p
      BY <1>1, <2>1 DEF Lives, NewIsNew
    <2> QED
      BY <1>2, <1>3, <1>4, <2>1, <2>2 DEF Lives, NewIsNew
  <1>6. Unknown'
    BY <1>1, <1>2, <1>3, <1>4 DEF Lives, Unknown
  <1>7. GoneIsGone' /\ OneHolder'
    BY <1>1, <1>2, <1>3, <1>4 DEF Lives, GoneIsGone, OneHolder, Types, TypeOK
  <1> QED
    BY <1>5, <1>6, <1>7 DEF Lives

LEMMA LivesStep == Types /\ Lives /\ [Next]_vars => Lives' /\ gone \subseteq gone'
  <1> SUFFICES ASSUME Types, Lives, [Next]_vars PROVE Lives' /\ gone \subseteq gone'
    OBVIOUS
  <1>1. CASE Calm
    BY <1>1, CalmLives, TypesStep DEF Calm
  <1>2. ASSUME NEW r \in Request, NEW p \in Pk, NEW i \in Interval, Create(r, p, i)
        PROVE  Lives' /\ gone \subseteq gone'
    BY <1>2, CreateLives DEF Create, history
  <1>3. ASSUME NEW r \in Request, NEW p \in Pk, Find(r, p)
        PROVE  Lives' /\ gone \subseteq gone'
    BY <1>3, FindLives DEF Find
  <1>4. ASSUME NEW r \in Request, InsertSession(r) \/ UpdateSession(r)
        PROVE  Lives' /\ gone \subseteq gone'
    BY <1>4, SaveLives, SaveCopy
  <1>5. \A r \in Request, a \in Attr, v \in Value \cup {None} : SetAttribute(r, a, v) => Calm
    BY SetAttributeIsCalm
  <1> QED
    BY <1>1, <1>2, <1>3, <1>4, <1>5, CalmOrNot DEF Quiet

LEMMA LivesAlways == Spec => []Lives
  <1>1. Init => Lives
    BY DEF Init, Lives, NewIsNew, Unknown, GoneIsGone, OneHolder, Held, Holds
  <1> QED
    BY <1>1, LivesStep, TypesAlways, PTL DEF Spec

\* Once its row is deleted, a session stays deleted, with its attributes,
\* whatever a request still working on a copy of it saves.
THEOREM DeletedForGood == Spec => DeletedStaysDeleted
  <1>1. Types /\ Lives /\ [Next]_vars => [\A p \in gone : row'[p] = None /\ stored'[p] = {}]_vars
    BY LivesStep DEF Lives, GoneIsGone
  <1> QED
    BY <1>1, TypesAlways, LivesAlways, PTL DEF Spec, DeletedStaysDeleted

-----------------------------------------------------------------------------
(* Session ids *)

\* Of ids and the two kinds of sids, what the arithmetic needs to know.
LEMMA Numbers ==
  ASSUME Types
  PROVE  /\ \A p \in Pk : ids[p] \in Nat /\ (row[p] # None => row[p].sid \in Nat)
         /\ \A r \in Request : Held(r) => req[r].sid \in Nat /\ req[r].pk \in Pk
  BY RowIs, CopyIs, PkIs DEF Types, TypeOK, Row, Copy

LEMMA CalmIds == Types /\ Types' /\ IdsGoUp /\ Calm => IdsGoUp'
  <1> SUFFICES ASSUME Types, Types', IdsGoUp, Calm PROVE IdsGoUp'
    OBVIOUS
  <1>1. \A p \in Pk : ids'[p] \in Nat
    BY DEF Types, TypeOK
  <1>2. \A p \in Pk : row'[p] # None => row'[p] = row[p] /\ row[p] # None
    BY DEF Calm, StaysOrGoes
  <1>3. \A p \in Pk : ids[p] <= ids'[p]
    BY DEF Calm
  <1>4. \A p \in Pk : row'[p] # None => row'[p].sid <= ids'[p]
    BY <1>1, <1>2, <1>3, Numbers DEF IdsGoUp
  <1>5. \A r \in Request : Held(r)' =>
           /\ Held(r) /\ req'[r].pk = req[r].pk /\ req[r].pk \in Pk
           /\ req[r].sid <= req'[r].sid /\ req'[r].sid <= ids'[req[r].pk]
           /\ req[r].sid \in Nat /\ req'[r].sid \in Nat
    <2> SUFFICES ASSUME NEW r \in Request, Held(r)'
                 PROVE  /\ Held(r) /\ req'[r].pk = req[r].pk /\ req[r].pk \in Pk
                        /\ req[r].sid <= req'[r].sid /\ req'[r].sid <= ids'[req[r].pk]
                        /\ req[r].sid \in Nat /\ req'[r].sid \in Nat
      OBVIOUS
    <2>1. Held(r) /\ req'[r].pk = req[r].pk /\ (req'[r].sid = req[r].sid \/ req'[r].sid = ids'[req[r].pk])
      BY DEF Calm, Later
    <2>2. req[r].sid \in Nat /\ req[r].pk \in Pk /\ ids[req[r].pk] \in Nat
      BY <2>1, Numbers
    <2>3. req[r].sid <= ids[req[r].pk] /\ ids[req[r].pk] <= ids'[req[r].pk]
      BY <1>3, <2>1, <2>2 DEF IdsGoUp
    <2> QED
      BY <1>1, <2>1, <2>2, <2>3
  <1>6. \A p \in Pk \ shared' : \A r \in Request :
           Holds(r, p)' /\ row'[p] # None => row'[p].sid <= req'[r].sid
    <2> SUFFICES ASSUME NEW p \in Pk \ shared', NEW r \in Request, Holds(r, p)', row'[p] # None
                 PROVE  row'[p].sid <= req'[r].sid
      OBVIOUS
    <2>1. /\ Holds(r, p) /\ row[p] # None /\ row'[p] = row[p] /\ p \notin shared
          /\ req[r].sid <= req'[r].sid /\ req[r].sid \in Nat /\ req'[r].sid \in Nat
      BY <1>2, <1>5 DEF Holds, Held, Calm
    <2>2. row[p].sid <= req[r].sid /\ row[p].sid \in Nat
      BY <2>1, Numbers DEF IdsGoUp
    <2> QED
      BY <2>1, <2>2
  <1> QED
    BY <1>4, <1>5, <1>6 DEF IdsGoUp

LEMMA CreateIds ==
  ASSUME Types, Lives, IdsGoUp, NEW r \in Request, NEW p \in Pk, NEW i \in Interval, Create(r, p, i)
  PROVE  IdsGoUp'
  <1>1. /\ req'[r].pk = p /\ req'[r].sid = 1
        /\ \A q \in Request \ {r} : req'[q] = req[q]
    BY DEF Create, Types, TypeOK
  <1>2. ids[p] = 0 /\ ids'[p] = 1 /\ \A q \in Pk \ {p} : ids'[q] = ids[q]
    BY DEF Create, Types, TypeOK
  <1>3. row[p] = None /\ (\A q \in Request : ~Holds(q, p)) /\ row' = row /\ shared' = shared
    BY <1>2 DEF Lives, Unknown, Create, history
  <1>4. \A q \in Request \ {r} : Held(q)' => Held(q) /\ req[q].pk \in Pk \ {p}
    BY <1>1, <1>3, Numbers DEF Held, Holds
  <1> QED
    BY <1>1, <1>2, <1>3, <1>4 DEF IdsGoUp, Holds, Held

LEMMA FindIds ==
  ASSUME Types, IdsGoUp, NEW r \in Request, NEW p \in Pk, Find(r, p)
  PROVE  IdsGoUp'
  <1>1. PICK c : req' = [req EXCEPT ![r] = c] /\ c.pk = p /\ c.sid = row[p].sid
    BY FindCopy
  <1>2. req'[r] = c /\ \A q \in Request \ {r} : req'[q] = req[q]
    BY <1>1, OneCopy
  <1>3. row[p] # None /\ row' = row /\ ids' = ids /\ shared \subseteq shared'
    BY DEF Find
  <1>4. row[p].sid <= ids[p] /\ row[p].sid \in Nat
    BY <1>3, Numbers DEF IdsGoUp
  <1> QED
    BY <1>1, <1>2, <1>3, <1>4 DEF IdsGoUp, Holds, Held

LEMMA SaveIds ==
  ASSUME Types, Lives, IdsGoUp, NEW r \in Request, InsertSession(r) \/ UpdateSession(r)
  PROVE  /\ IdsGoUp'
         /\ \A p \in Pk \ shared : row[p] # None /\ row'[p] # None => row[p].sid <= row'[p].sid
  <1>0. PICK p \in Pk : p = req[r].pk
    BY SaveCopy
  <1>1. Holds(r, p) /\ row'[p].sid = req[r].sid /\ req[r].sid <= ids[p] /\ req[r].sid \in Nat
    <2>1. Held(r) /\ row'[p] = RowOf(req[r])
      BY <1>0, SaveCopy
    <2> QED
      BY <1>0, <2>1, Numbers DEF Holds, Held, RowOf, IdsGoUp
  <1>2. (\A o \in Pk \ {p} : row'[o] = row[o]) /\ ids' = ids /\ shared' = shared
    BY <1>0, SaveCopy
  <1>3. \A q \in Request : Held(q)' => Held(q) /\ req'[q].pk = req[q].pk /\ req'[q].sid = req[q].sid
    BY SaveCopy DEF Held
  <1>4. \A q \in Request : p \notin shared /\ Holds(q, p)' => q = r
    BY <1>1, <1>3 DEF Lives, OneHolder, Holds, Held
  <1>5. IdsGoUp'
    <2>1. \A o \in Pk : row'[o] # None => row'[o].sid <= ids'[o]
      BY <1>1, <1>2 DEF IdsGoUp
    <2>2. \A q \in Request : Held(q)' => req'[q].sid <= ids'[req'[q].pk]
      BY <1>2, <1>3 DEF IdsGoUp
    <2>3. \A o \in Pk \ shared' : \A q \in Request :
             Holds(q, o)' /\ row'[o] # None => row'[o].sid <= req'[q].sid
      BY <1>1, <1>2, <1>3, <1>4 DEF IdsGoUp, Holds, Held
    <2> QED
      BY <2>1, <2>2, <2>3 DEF IdsGoUp
  <1>6. ASSUME NEW o \in Pk \ shared, row[o] # None, row'[o] # None
        PROVE  row[o].sid <= row'[o].sid
    <2>1. row[o].sid \in Nat
      BY <1>6, Numbers
    <2>2. CASE o = p
      BY <1>1, <1>6, <2>2 DEF IdsGoUp
    <2>3. CASE o # p
      BY <1>2, <2>1, <2>3
    <2> QED
      BY <2>2, <2>3
  <1> QED
    BY <1>5, <1>6

LEMMA IdsStep ==
  ASSUME Types, Lives, IdsGoUp, [Next]_vars
  PROVE  /\ IdsGoUp'
         /\ \A p \in Pk \ shared : row[p] # None /\ row'[p] # None => row[p].sid <= row'[p].sid
  <1>1. CASE \E r \in Request : InsertSession(r) \/ UpdateSession(r)
    BY <1>1, SaveIds
  <1>2. ASSUME \A p \in Pk : row'[p] \in {row[p], None}
        PROVE  \A p \in Pk \ shared : row[p] # None /\ row'[p] # None => row[p].sid <= row'[p].sid
    BY <1>2, Numbers
  <1>3. CASE Calm
    <2>1. \A p \in Pk : row'[p] \in {row[p], None}
      BY <1>3 DEF Calm, StaysOrGoes
    <2> QED
      BY <1>2, <1>3, <2>1, CalmIds, TypesStep
  <1>4. ASSUME NEW r \in Request, NEW p \in Pk, Find(r, p) \/ \E i \in Interval : Create(r, p, i)
        PROVE  IdsGoUp' /\ \A o \in Pk : row'[o] \in {row[o], None}
    BY <1>4, FindIds, CreateIds DEF Find, Create
  <1>5. \A r \in Request, a \in Attr, v \in Value \cup {None} : SetAttribute(r, a, v) => Calm
    BY SetAttributeIsCalm
  <1> QED
    BY <1>1, <1>2, <1>3, <1>4, <1>5, CalmOrNot DEF Quiet

LEMMA IdsAlways == Spec => []IdsGoUp
  <1>1. Init => IdsGoUp
    BY DEF Init, IdsGoUp, Held, Holds
  <1> QED
    BY <1>1, IdsStep, TypesAlways, LivesAlways, PTL DEF Spec

\* After a login gave the session a new id the old one stays useless, unless
\* another request holds the session and saves its own copy of the id.
THEOREM OldIdsAreUseless == Spec => OldIdStaysUseless
  <1>1. Types /\ Lives /\ IdsGoUp /\ [Next]_vars =>
          [\A p \in Pk \ shared :
              row[p] # None /\ row'[p] # None => row[p].sid <= row'[p].sid]_vars
    BY IdsStep
  <1> QED
    BY <1>1, TypesAlways, LivesAlways, IdsAlways, PTL DEF Spec, OldIdStaysUseless

-----------------------------------------------------------------------------
(* What is removed as expired *)

\* Time only makes a row that stays as it is more expired.
LEMMA ExpiredStays ==
  ASSUME Types, Types', NEW p \in Pk, row[p] # None, row'[p] = row[p], now <= now',
         IsExpired(row[p])
  PROVE  IsExpired(row[p])'
  <1>1. row[p].interval \in Int /\ row[p].last \in Int /\ now \in Int /\ now' \in Int
    <2>1. row[p] \in Row /\ now \in 0..MaxTime /\ now' \in 0..MaxTime
      BY RowIs DEF Types, TypeOK
    <2>2. row[p].interval \in Interval /\ row[p].last \in 0..MaxTime
      BY <2>1 DEF Row
    <2>3. row[p].interval \in Int
      BY <2>2, ConstantAssumption
    <2>4. MaxTime \in Nat
      BY ConstantAssumption
    <2> QED
      BY <2>1, <2>2, <2>3, <2>4
  <1>2. row[p].interval >= 0 /\ now - row[p].interval >= row[p].last
    BY DEF IsExpired
  <1>3. row[p].interval >= 0 /\ now' - row[p].interval >= row[p].last
    BY <1>1, <1>2
  <1> QED
    BY <1>3 DEF IsExpired

LEMMA FoundStep ==
  ASSUME Types, Lives, FoundIsExpired, [Next]_vars
  PROVE  FoundIsExpired'
  <1>1. CASE Calm
    <2> SUFFICES ASSUME NEW p \in Pk \ shared', NEW r \in Request, Holds(r, p)',
                        req'[r].pc = "found", row'[p] # None
                 PROVE  IsExpired(row[p])'
      BY DEF FoundIsExpired
    <2>1. row[p] # None /\ row'[p] = row[p] /\ now <= now' /\ shared' = shared
      BY <1>1 DEF Calm, StaysOrGoes
    <2>2. Holds(r, p) /\ req[r].pc = "found"
      BY <1>1 DEF Calm, Later, Holds, Held
    <2> QED
      BY <2>1, <2>2, ExpiredStays, TypesStep DEF FoundIsExpired
  <1>2. ASSUME NEW r \in Request, NEW p \in Pk, NEW i \in Interval, Create(r, p, i)
        PROVE  FoundIsExpired'
    <2>1. req'[r].pc = "active" /\ \A q \in Request \ {r} : req'[q] = req[q]
      BY <1>2 DEF Create, Types, TypeOK
    <2>2. UNCHANGED <<row, now, shared>>
      BY <1>2 DEF Create, history
    <2> QED
      BY <2>1, <2>2 DEF FoundIsExpired, Holds, IsExpired
  <1>3. ASSUME NEW r \in Request, NEW p \in Pk, Find(r, p)
        PROVE  FoundIsExpired'
    <2>1. PICK c : /\ req' = [req EXCEPT ![r] = c] /\ c.pk = p
                   /\ c.pc = IF IsExpired(row[p]) THEN "found" ELSE "active"
      BY <1>3, FindCopy
    <2>2. req'[r] = c /\ \A q \in Request \ {r} : req'[q] = req[q]
      BY <2>1, OneCopy
    <2>3. UNCHANGED <<row, now>> /\ shared \subseteq shared'
      BY <1>3 DEF Find
    <2> QED
      BY <2>1, <2>2, <2>3 DEF FoundIsExpired, Holds, IsExpired
  <1>4. ASSUME NEW r \in Request, InsertSession(r) \/ UpdateSession(r)
        PROVE  FoundIsExpired'
    <2>1. PICK p \in Pk : p = req[r].pk
      BY <1>4, SaveCopy
    <2>2. Holds(r, p) /\ \A q \in Request \ {r} : req'[q] = req[q]
      BY <1>4, <2>1, SaveCopy DEF Holds, Held
    <2>3. (\A o \in Pk \ {p} : row'[o] = row[o]) /\ UNCHANGED <<now, shared>>
      BY <1>4, <2>1, SaveCopy
    <2>4. Held(r)' => req'[r].pc = "active" /\ req'[r].pk = p
      BY <1>4, <2>1, SaveCopy
    <2>5. \A q \in Request \ {r} : p \notin shared => ~Holds(q, p)'
      BY <2>2 DEF Lives, OneHolder, Holds
    <2> QED
      BY <2>2, <2>3, <2>4, <2>5 DEF FoundIsExpired, Holds, Held, IsExpired
  <1>5. \A r \in Request, a \in Attr, v \in Value \cup {None} : SetAttribute(r, a, v) => Calm
    BY SetAttributeIsCalm
  <1> QED
    BY <1>1, <1>2, <1>3, <1>4, <1>5, CalmOrNot DEF Quiet

LEMMA TimeOutKeeps ==
  ASSUME Types, TimedOutWereIdle, NEW P \in SUBSET {p \in Pk : row[p] # None}, TimeOut(P),
         shared' = shared,
         \A p \in P \ shared : IsExpired(row[p]) \/ ExpiryTimePassed(row[p])
  PROVE  TimedOutWereIdle'
  <1> SUFFICES ASSUME NEW p \in P \ shared PROVE ~(now - row[p].last < row[p].interval)
    BY DEF TimeOut, TimedOutWereIdle
  <1>1. row[p].interval \in Int /\ row[p].last \in Int /\ now \in Int
    <2>1. row[p] \in Row /\ now \in 0..MaxTime
      BY RowIs DEF Types, TypeOK
    <2>2. row[p].interval \in Interval /\ row[p].last \in 0..MaxTime
      BY <2>1 DEF Row
    <2>3. row[p].interval \in Int
      BY <2>2, ConstantAssumption
    <2>4. MaxTime \in Nat
      BY ConstantAssumption
    <2> QED
      BY <2>1, <2>2, <2>3, <2>4
  <1> QED
    BY <1>1 DEF IsExpired, ExpiryTimePassed, Expiry

LEMMA IdleStep ==
  ASSUME Types, Lives, FoundIsExpired, TimedOutWereIdle, [Next]_vars
  PROVE  TimedOutWereIdle'
  <1>1. ASSUME NEW r \in Request, DeleteExpired(r)
        PROVE  TimedOutWereIdle'
    <2>1. req[r].pk \in Pk /\ req[r].pc = "found" /\ Held(r)
      BY <1>1, PkIs DEF DeleteExpired, Held
    <2>2. RowWithId(req[r]) \in SUBSET {p \in Pk : row[p] # None}
      BY <2>1 DEF RowWithId
    <2>3. \A p \in RowWithId(req[r]) \ shared : IsExpired(row[p])
      BY <2>1 DEF FoundIsExpired, RowWithId, Holds, Held
    <2> QED
      BY <1>1, <2>2, <2>3, TimeOutKeeps DEF DeleteExpired
  <1>2. CASE CleanUp
    <2> DEFINE old == {p \in Pk : row[p] # None /\ ExpiryTimePassed(row[p])}
    <2>1. /\ old \in SUBSET {p \in Pk : row[p] # None}
          /\ \A p \in old \ shared : ExpiryTimePassed(row[p])
      OBVIOUS
    <2>2. TimeOut(old) /\ shared' = shared
      BY <1>2 DEF CleanUp
    <2> HIDE DEF old
    <2> QED
      BY <2>1, <2>2, TimeOutKeeps
  <1>3. CASE timedOut' = timedOut /\ shared \subseteq shared'
    BY <1>3 DEF TimedOutWereIdle
  <1>4. ASSUME NEW r \in Request, NEW p \in Pk, Find(r, p) \/ \E i \in Interval : Create(r, p, i)
        PROVE  timedOut' = timedOut /\ shared \subseteq shared'
    BY <1>4 DEF Find, Create, history
  <1>5. ASSUME NEW r \in Request,
               \/ \E a \in Attr, v \in Value \cup {None} : SetAttribute(r, a, v)
               \/ \E i \in Interval : SetMaxInactiveInterval(r, i)
               \/ ChangeSessionId(r) \/ InsertSession(r) \/ UpdateSession(r) \/ UpdateDeleted(r)
               \/ Invalidate(r)
        PROVE  timedOut' = timedOut /\ shared \subseteq shared'
    BY <1>5 DEF SetAttribute, SetMaxInactiveInterval, ChangeSessionId, InsertSession,
                UpdateSession, UpdateDeleted, Invalidate, history
  <1>6. ASSUME NEW p \in Pk, Kick(p)
        PROVE  timedOut' = timedOut /\ shared \subseteq shared'
    BY <1>6 DEF Kick
  <1>7. CASE Tick \/ UNCHANGED vars
    BY <1>3, <1>7 DEF Tick, vars, history
  <1> QED
    BY <1>1, <1>2, <1>3, <1>4, <1>5, <1>6, <1>7 DEF Next

\* A session is removed as expired only after it was idle for its interval,
\* except when another request renewed it between findById's read and its
\* delete.
THEOREM OnlyTheIdleTimeOut == Spec => []TimedOutWereIdle
  <1>1. Init => FoundIsExpired /\ TimedOutWereIdle
    BY DEF Init, FoundIsExpired, TimedOutWereIdle, Holds
  <1> QED
    BY <1>1, FoundStep, IdleStep, TypesAlways, LivesAlways, PTL DEF Spec

-----------------------------------------------------------------------------
(* What is stored *)

LEMMA RowOfAttr ==
  ASSUME NEW m \in Map, NEW a \in Attr
  PROVE  /\ m[a] # None => [name |-> a, value |-> m[a]] \in Rows(m)
         /\ \A x \in Rows(m) : x.name = a => m[a] # None /\ x = [name |-> a, value |-> m[a]]
         /\ a \in {x.name : x \in Rows(m)} <=> m[a] # None
  <1>1. m[a] # None => [name |-> a, value |-> m[a]] \in Rows(m)
    BY DEF Rows
  <1>2. \A x \in Rows(m) : x.name = a => m[a] # None /\ x = [name |-> a, value |-> m[a]]
    BY DEF Rows
  <1>3. [name |-> a, value |-> m[a]].name = a
    OBVIOUS
  <1> QED
    BY <1>1, <1>2, <1>3

\* Reading the rows of a map gives the map.
LEMMA ReadsWhatIsStored ==
  ASSUME NEW m \in Map, NEW n \in Maps(Rows(m))
  PROVE  n = m
  <1>1. n \in Map
    BY DEF Maps
  <1>2. ASSUME NEW a \in Attr
        PROVE  n[a] = m[a]
    <2> DEFINE vs == {x.value : x \in {y \in Rows(m) : y.name = a}}
    <2>1. IF vs = {} THEN n[a] = None ELSE n[a] \in vs
      BY DEF Maps
    <2>2. CASE m[a] = None
      <3>1. vs = {}
        BY <2>2 DEF Rows
      <3> QED
        BY <2>1, <2>2, <3>1
    <2>3. CASE m[a] # None
      <3>1. vs = {m[a]}
        <4>1. \A v \in vs : v = m[a]
          <5> SUFFICES ASSUME NEW v \in vs PROVE v = m[a]
            OBVIOUS
          <5>1. PICK x \in Rows(m) : x.name = a /\ v = x.value
            OBVIOUS
          <5>2. x = [name |-> a, value |-> m[a]]
            BY <5>1, RowOfAttr
          <5> QED
            BY <5>1, <5>2
        <4>2. [name |-> a, value |-> m[a]] \in {y \in Rows(m) : y.name = a}
          BY <2>3, RowOfAttr
        <4>3. [name |-> a, value |-> m[a]].value \in vs
          BY <4>2
        <4> QED
          BY <4>1, <4>3
      <3> QED
        BY <2>1, <3>1
    <2> QED
      BY <2>2, <2>3
  <1> QED
    BY <1>1, <1>2 DEF Map

\* The delta brings the rows of the image up to the copy, as long as there is
\* only one attribute row when one is updated.
LEMMA WritesTheCopy ==
  ASSUME NEW c \in Copy, Fits(c), NEW m \in Map,
         \A a \in Attr : Tells(c.delta[a], c.attrs[a], m[a]),
         \/ With(c.delta, "UPDATED") = {}
         \/ ~(Cardinality({x.name : x \in Rows(m)} \cup With(c.delta, "ADDED")) > 1),
         NEW s \in StoredAfter(Rows(m), c)
  PROVE  s = Rows(c.attrs)
  <1> DEFINE added == {x \in Rows(c.attrs) : x.name \in With(c.delta, "ADDED")}
             removed == With(c.delta, "REMOVED")
             upd == With(c.delta, "UPDATED")
             names == {x.name : x \in Rows(m)} \cup With(c.delta, "ADDED")
  <1>1. c.attrs \in Map /\ c.delta \in [Attr -> Delta]
    BY DEF Copy
  <1>2. PICK u \in AfterUpdates(Rows(m) \cup added, c) : s = {x \in u : x.name \notin removed}
    BY DEF StoredAfter
  <1>3. CASE upd = {}
    <2>1. s = {x \in Rows(m) \cup added : x.name \notin removed}
      BY <1>2, <1>3 DEF AfterUpdates
    <2>2. \A a \in Attr : /\ c.delta[a] = "none" => c.attrs[a] = m[a]
                          /\ c.delta[a] = "ADDED" => m[a] = None /\ c.attrs[a] # None
                          /\ c.delta[a] = "REMOVED" => c.attrs[a] = None
                          /\ c.delta[a] \in {"none", "ADDED", "REMOVED"}
      BY <1>1, <1>3 DEF Tells, Fits, With, Delta
    <2>3. \A x : x \in s <=> \E a \in Attr : /\ c.delta[a] # "REMOVED"
                                             /\ \/ m[a] # None /\ x = [name |-> a, value |-> m[a]]
                                                \/ /\ c.delta[a] = "ADDED" /\ c.attrs[a] # None
                                                   /\ x = [name |-> a, value |-> c.attrs[a]]
      BY <2>1 DEF Rows, With
    <2>4. \A x : x \in s <=> \E a \in Attr : c.attrs[a] # None /\ x = [name |-> a, value |-> c.attrs[a]]
      BY <2>2, <2>3
    <2> QED
      BY <2>4 DEF Rows
  <1>4. CASE upd # {}
    <2>1. PICK a \in Attr : c.delta[a] = "UPDATED"
      BY <1>4 DEF With
    <2>2. m[a] # None /\ c.attrs[a] # None
      BY <2>1 DEF Tells, Fits
    <2>3. a \in names
      BY <2>2, RowOfAttr
    <2>4. IsFiniteSet(names) /\ ~(Cardinality(names) > 1)
      <3>1. names \subseteq Attr
        BY DEF Rows, With
      <3> QED
        BY <1>4, <3>1, ConstantAssumption, FS_Subset
    <2>5. names = {a}
      <3> SUFFICES ASSUME NEW b \in names, b # a PROVE FALSE
        BY <2>3
      <3>1. {a, b} \subseteq names /\ IsFiniteSet({a, b})
        BY <2>3, <2>4, FS_Subset
      <3>2. Cardinality({a, b}) = 2
        <4>1. IsFiniteSet({a}) /\ Cardinality({a}) = 1
          BY FS_Singleton, Zenon
        <4>2. {a, b} = {a} \cup {b} /\ b \notin {a}
          OBVIOUS
        <4>3. Cardinality({a} \cup {b}) = Cardinality({a}) + 1
          BY <4>1, <4>2, FS_AddElement
        <4> QED
          BY <4>1, <4>2, <4>3
      <3>3. Cardinality({a, b}) <= Cardinality(names)
        BY <2>4, <3>1, FS_Subset
      <3>4. Cardinality(names) \in Nat
        BY <2>4, FS_CardinalityType
      <3> QED
        BY <2>4, <3>2, <3>3, <3>4
    <2>6. \A b \in Attr \ {a} : m[b] = None /\ c.delta[b] # "ADDED"
      <3> SUFFICES ASSUME NEW b \in Attr \ {a} PROVE m[b] = None /\ c.delta[b] # "ADDED"
        OBVIOUS
      <3>1. b \notin names
        BY <2>5
      <3> QED
        BY <3>1, RowOfAttr DEF With
    <2>7. \A b \in Attr \ {a} : c.attrs[b] = None /\ c.delta[b] # "UPDATED"
      BY <1>1, <2>6 DEF Tells, Fits, Delta
    <2>8. upd = {a}
      BY <2>1, <2>7 DEF With
    <2>9. Rows(m) \cup added # {}
      BY <2>2 DEF Rows
    <2>10. u = {[name |-> a, value |-> c.attrs[a]]}
      BY <1>2, <2>8, <2>9 DEF AfterUpdates
    <2>11. s = {[name |-> a, value |-> c.attrs[a]]}
      BY <1>2, <2>1, <2>10 DEF With
    <2>12. Rows(c.attrs) = {[name |-> a, value |-> c.attrs[a]]}
      BY <2>2, <2>7 DEF Rows
    <2> QED
      BY <2>11, <2>12
  <1> QED
    BY <1>3, <1>4

Saved == DeltaTells /\ StoredIsTheLastCopy

LEMMA QuietSaved == Types /\ Saved /\ Quiet => Saved'
  <1> SUFFICES ASSUME Types, Saved, Quiet PROVE Saved'
    OBVIOUS
  <1>1. UNCHANGED <<image, shared, merged>>
    BY DEF Quiet, Calm
  <1>2. \A p \in Pk : row'[p] # None => row[p] # None /\ row'[p] = row[p] /\ stored'[p] = stored[p]
    BY DEF Quiet, Calm, StaysOrGoes
  <1>3. \A r \in Request, p \in Pk : Holds(r, p)' /\ row[p] # None =>
           /\ Holds(r, p)
           /\ req'[r].attrs = req[r].attrs /\ req'[r].delta = req[r].delta
    BY DEF Quiet, Calm, Later, SameValues, Holds, Held
  <1>4. DeltaTells'
    BY <1>1, <1>2, <1>3 DEF Saved, DeltaTells
  <1>5. StoredIsTheLastCopy'
    BY <1>1, <1>2 DEF Saved, StoredIsTheLastCopy
  <1> QED
    BY <1>4, <1>5 DEF Saved

LEMMA SetAttributeSaved ==
  ASSUME Types, Saved, NEW r \in Request, NEW a \in Attr, NEW v \in Value \cup {None},
         SetAttribute(r, a, v)
  PROVE  Saved'
  <1> DEFINE c == req[r]
             d == Changed(c, a, v)
  <1>1. c \in Copy /\ Fits(c) /\ (c.attrs[a] # None \/ v # None)
    BY HeldIsGood DEF SetAttribute, Working, Held, Good
  <1>2. /\ d.pk = c.pk
        /\ \A b \in Attr \ {a} : d.attrs[b] = c.attrs[b] /\ d.delta[b] = c.delta[b]
        /\ d.attrs[a] = v /\ d.delta[a] = NextDelta(c.delta[a], c.attrs[a] # None, v)
    BY <1>1, ChangedIs
  <1>3. c.delta[a] \in Delta
    BY <1>1 DEF Copy
  <1>4. \A m : Tells(c.delta[a], c.attrs[a], m) => Tells(d.delta[a], d.attrs[a], m)
    BY <1>1, <1>2, <1>3 DEF Tells, Fits, NextDelta, Delta
  <1>5. req' = [req EXCEPT ![r] = d]
    BY DEF SetAttribute
  <1>6. req'[r] = d /\ \A q \in Request \ {r} : req'[q] = req[q]
    BY <1>5, OneCopy
  <1>7. UNCHANGED <<row, stored, image, shared, merged>> /\ Held(r)
    BY DEF SetAttribute, history, Working, Held
  <1>8. StoredIsTheLastCopy'
    BY <1>7 DEF Saved, StoredIsTheLastCopy
  <1>9. ASSUME NEW p \in Pk \ (shared \cup merged), NEW q \in Request, Holds(q, p)', row[p] # None
        PROVE  \A b \in Attr : Tells(req'[q].delta[b], req'[q].attrs[b], image[p][b])
    <2>1. CASE q # r
      BY <1>6, <1>9, <2>1 DEF Holds, Saved, DeltaTells
    <2>2. CASE q = r
      <3>1. Holds(r, p)
        BY <1>2, <1>6, <1>7, <1>9, <2>2 DEF Holds, Held
      <3>2. \A b \in Attr : Tells(c.delta[b], c.attrs[b], image[p][b])
        BY <1>9, <3>1 DEF Saved, DeltaTells
      <3> HIDE DEF d
      <3> QED
        BY <1>2, <1>4, <1>6, <2>2, <3>2
    <2> QED
      BY <2>1, <2>2
  <1>10. DeltaTells'
    BY <1>7, <1>9 DEF DeltaTells
  <1> QED
    BY <1>8, <1>10 DEF Saved

LEMMA CreateSaved ==
  ASSUME Types, Lives, Saved, NEW r \in Request, NEW p \in Pk, NEW i \in Interval, Create(r, p, i)
  PROVE  Saved'
  <1>1. req'[r].pk = p /\ \A q \in Request \ {r} : req'[q] = req[q]
    BY DEF Create, Types, TypeOK
  <1>2. row[p] = None /\ UNCHANGED <<row, stored, image, shared, merged>>
    BY DEF Create, history, Lives, Unknown
  <1> QED
    BY <1>1, <1>2 DEF Saved, DeltaTells, StoredIsTheLastCopy, Holds

\* A copy without changes has the values that were saved.
LEMMA CleanTells ==
  ASSUME NEW c, NEW m, c.delta = NoDelta, c.attrs = m
  PROVE  \A a \in Attr : Tells(c.delta[a], c.attrs[a], m[a])
  BY DEF NoDelta, Tells

LEMMA FindSaved ==
  ASSUME Types, Saved, NEW r \in Request, NEW p \in Pk, Find(r, p)
  PROVE  Saved'
  <1>1. PICK c : /\ req' = [req EXCEPT ![r] = c]
                 /\ c.pk = p /\ c.delta = NoDelta /\ c.attrs \in Maps(stored[p])
    BY FindCopy
  <1>2. req'[r] = c /\ \A q \in Request \ {r} : req'[q] = req[q]
    BY <1>1, OneCopy
  <1>3. row[p] # None /\ UNCHANGED <<row, stored, image, merged>> /\ shared \subseteq shared'
    BY DEF Find
  <1>4. p \notin shared \cup merged => \A a \in Attr : Tells(c.delta[a], c.attrs[a], image[p][a])
    <2> SUFFICES ASSUME p \notin shared \cup merged
                 PROVE  \A a \in Attr : Tells(c.delta[a], c.attrs[a], image[p][a])
      OBVIOUS
    <2>1. stored[p] = Rows(image[p]) /\ image[p] \in Map
      BY <1>3 DEF Saved, StoredIsTheLastCopy, Types, TypeOK
    <2>2. c.attrs = image[p]
      BY <1>1, <2>1, ReadsWhatIsStored
    <2> QED
      BY <1>1, <2>2, CleanTells
  <1>5. DeltaTells'
    BY <1>1, <1>2, <1>3, <1>4 DEF Saved, DeltaTells, Holds
  <1>6. StoredIsTheLastCopy'
    BY <1>3 DEF Saved, StoredIsTheLastCopy
  <1> QED
    BY <1>5, <1>6 DEF Saved

LEMMA SaveSaved ==
  ASSUME Types, Lives, Saved, NEW r \in Request, InsertSession(r) \/ UpdateSession(r)
  PROVE  Saved'
  <1> DEFINE c == req[r]
  <1>1. PICK p \in Pk : p = c.pk
    BY SaveCopy
  <1>2. /\ Holds(r, p) /\ c \in Copy /\ Fits(c) /\ c.attrs \in Map
        /\ \A q \in Request \ {r} : req'[q] = req[q]
    BY <1>1, SaveCopy, HeldIsGood DEF Holds, Held, Good, Copy
  <1>3. /\ row'[p] = RowOf(c) /\ image'[p] = c.attrs /\ shared' = shared /\ merged \subseteq merged'
        /\ \A o \in Pk \ {p} : row'[o] = row[o] /\ stored'[o] = stored[o] /\ image'[o] = image[o]
    <2>1. /\ row'[p] = RowOf(c) /\ image'[p] = c.attrs /\ shared' = shared
          /\ \A o \in Pk \ {p} : row'[o] = row[o] /\ stored'[o] = stored[o] /\ image'[o] = image[o]
      BY <1>1, SaveCopy
    <2>2. merged \subseteq merged'
      BY DEF InsertSession, UpdateSession
    <2> QED
      BY <2>1, <2>2
  <1>4. Held(r)' => /\ req'[r].pk = p
                    /\ \A a \in Attr : Tells(req'[r].delta[a], req'[r].attrs[a], image'[p][a])
    <2> SUFFICES ASSUME Held(r)'
                 PROVE  /\ req'[r].pk = p
                        /\ \A a \in Attr : Tells(req'[r].delta[a], req'[r].attrs[a], image'[p][a])
      OBVIOUS
    <2>1. req'[r].delta = NoDelta /\ req'[r].attrs = c.attrs /\ req'[r].pk = c.pk
      BY SaveCopy
    <2> QED
      BY <1>1, <1>3, <2>1 DEF NoDelta, Tells
  <1>5. \A q \in Request \ {r} : p \notin shared => ~Holds(q, p)'
    BY <1>2 DEF Lives, OneHolder, Holds
  <1>6. DeltaTells'
    BY <1>2, <1>3, <1>4, <1>5 DEF Saved, DeltaTells, Holds, Held
  <1>7. p \notin shared \cup merged' => stored'[p] = Rows(c.attrs)
    <2>1. CASE InsertSession(r)
      BY <1>1, <2>1 DEF InsertSession, Types, TypeOK
    <2>2. CASE UpdateSession(r)
      <3> SUFFICES ASSUME p \notin shared \cup merged' PROVE stored'[p] = Rows(c.attrs)
        OBVIOUS
      <3>1. row[p] # None /\ p \notin merged
        BY <1>1, <1>3, <2>2 DEF UpdateSession, RowHit
      <3>2. stored[p] = Rows(image[p]) /\ image[p] \in Map
        BY <3>1 DEF Saved, StoredIsTheLastCopy, Types, TypeOK
      <3>3. \A a \in Attr : Tells(c.delta[a], c.attrs[a], image[p][a])
        BY <1>2, <3>1 DEF Saved, DeltaTells
      <3>4. PICK s \in StoredAfter(stored[p], c) : stored'[p] = s
        BY <1>1, <2>2 DEF UpdateSession, Types, TypeOK
      <3>5. \/ With(c.delta, "UPDATED") = {}
            \/ ~(Cardinality({x.name : x \in stored[p]} \cup With(c.delta, "ADDED")) > 1)
        BY <1>1, <2>2 DEF UpdateSession
      <3> HIDE DEF c
      <3> QED
        BY <1>2, <3>2, <3>3, <3>4, <3>5, WritesTheCopy
    <2> QED
      BY <2>1, <2>2
  <1>8. StoredIsTheLastCopy'
    BY <1>3, <1>7 DEF Saved, StoredIsTheLastCopy, RowOf
  <1> QED
    BY <1>6, <1>8 DEF Saved

LEMMA SavedStep == Types /\ Lives /\ Saved /\ [Next]_vars => Saved'
  BY QuietSaved, SetAttributeSaved, CreateSaved, FindSaved, SaveSaved, CalmOrNot

\* What is stored is the last copy saved, with its principal: the delta a copy
\* keeps is enough to bring the rows up to it, for a session used by one request
\* at a time and as long as no UPDATE hits a second attribute.
THEOREM TheLastCopyIsStored == Spec => []StoredIsTheLastCopy
  <1>1. Init => Saved
    BY DEF Init, Saved, DeltaTells, StoredIsTheLastCopy, Holds
  <1>2. Saved => StoredIsTheLastCopy
    BY DEF Saved
  <1> QED
    BY <1>1, <1>2, SavedStep, TypesAlways, LivesAlways, PTL DEF Spec
=============================================================================
