------------------------ MODULE SessionControl_proofs ------------------------
(***************************************************************************)
(* Proofs about SessionControl.  The lemmas of the first part say what one *)
(* step does: to the rows (Fewer, SavedRows, StoredRows) and to the login  *)
(* that takes it (BeginLogin ... KickLogin).  Each property then has its own *)
(* invariant on top of TypeOK:                                             *)
(*   Ids       a session id that somebody has seen was drawn, and names a  *)
(*             session of the same user, or of nobody any more, as long as *)
(*             the row has it;                                             *)
(*   Limits    what a login that was not disturbed knows of its user's     *)
(*             sessions, counted, at every place it can be at;             *)
(*   Room      the same for the live sessions and a login that was not     *)
(*             crowded;                                                    *)
(*   NoExcess  nobody has more sessions than the strategy allows, and a    *)
(*             login that finds too many is not made in one of them.       *)
(***************************************************************************)
EXTENDS SessionControl, FiniteSetTheorems, WellFoundedInduction, TLAPS

Busy(t) == login[t] # None

-----------------------------------------------------------------------------
(* Records *)

LEMMA AttemptFields ==
  ASSUME NEW a \in Attempt
  PROVE  /\ a.user \in User /\ a.own \in Copy \cup {None} /\ a.last \in 1..MaxClock
         /\ a.max \in Nat /\ a.limit \in Nat
         /\ a.list \in SUBSET Seen /\ a.victims \in SUBSET Seen
         /\ a.pc \in {"control", "count", "list", "decide", "kick", "store", "refused", "failed"}
  BY DEF Attempt

LEMMA BusyFields ==
  ASSUME TypeOK, NEW t \in Login, Busy(t)
  PROVE  login[t] \in Attempt
  BY DEF TypeOK, Busy

LEMMA RowFields ==
  ASSUME NEW r \in Row
  PROVE  /\ r.id \in 1..MaxId /\ r.ctx \in Principal /\ r.name \in Principal
         /\ r.last \in 1..MaxClock /\ r.expired \in BOOLEAN
  BY DEF Row

LEMMA ExistingRow ==
  ASSUME TypeOK, NEW p \in Pk, Exists(p)
  PROVE  row[p] \in Row
  BY DEF TypeOK, Exists

LEMMA PolicyFields ==
  ASSUME TypeOK
  PROVE  /\ policy.control \in BOOLEAN /\ policy.max \in Nat \cup {Null}
         /\ policy.user \in Nat \cup {Null} /\ policy.kick \in BOOLEAN
  BY PolicyAssumption DEF TypeOK, Policies

\* The clock can tick: the request that is made now has a time.
LEMMA NextTime == TypeOK /\ clock < MaxClock => clock + 1 \in 1..MaxClock /\ clock + 1 \in 0..MaxClock
  BY BoundAssumption DEF TypeOK

LEMMA CopyType ==
  ASSUME TypeOK, clock < MaxClock, NEW p \in Pk, Exists(p)
  PROVE  CopyOf(p) \in Copy /\ CopyOf(p).pk = p /\ CopyOf(p).id = row[p].id
  BY NextTime, ExistingRow, RowFields DEF CopyOf, Copy

LEMMA SeenType ==
  ASSUME TypeOK, NEW u
  PROVE  /\ SessionsNamed(u) \in SUBSET Seen
         /\ \A x \in SessionsNamed(u) : x.pk \in Pk /\ Exists(x.pk) /\ row[x.pk].name = u /\ x.id = row[x.pk].id
         /\ \A p \in Pk : Exists(p) /\ row[p].name = u =>
               \E x \in SessionsNamed(u) : x.pk = p /\ x.id = row[p].id
  <1> DEFINE F(p) == [pk |-> p, id |-> row[p].id, last |-> row[p].last]
             S == {q \in Pk : Exists(q) /\ row[q].name = u}
  <1>1. \A p \in S : F(p) \in Seen
    BY ExistingRow, RowFields DEF Seen
  <1>2. \A p \in S : F(p).pk = p /\ F(p).id = row[p].id
    OBVIOUS
  <1>3. SessionsNamed(u) = {F(p) : p \in S}
    BY DEF SessionsNamed
  <1>4. \A x \in SessionsNamed(u) : \E p \in S : x = F(p)
    BY <1>3
  <1>5. \A p \in S : F(p) \in SessionsNamed(u)
    BY <1>3
  <1> HIDE DEF F
  <1> QED
    BY <1>1, <1>2, <1>4, <1>5

LEMMA OldestIsPart == \A list, n : Oldest(list, n) \subseteq list
  BY DEF Oldest

-----------------------------------------------------------------------------
(* What a step does to the rows *)

\* Nothing is added or changed but what time does.
Fewer ==
    \A p \in Pk : row'[p] # None =>
        /\ row[p] # None /\ row'[p].id = row[p].id /\ row'[p].ctx = row[p].ctx
        /\ row'[p].name = row[p].name /\ (row[p].expired => row'[p].expired)

LEMMA LoadedRows ==
  ASSUME TypeOK, NEW p \in Pk, Loaded(p)
  PROVE  row' \in [Pk -> Row \cup {None}] /\ Fewer
  BY DEF Loaded, TypeOK, Fewer

LEMMA SameRows == row' = row => Fewer
  BY DEF Fewer

LEMMA RemovedRows ==
  ASSUME TypeOK, NEW p \in Pk, row' = [row EXCEPT ![p] = None]
  PROVE  row' \in [Pk -> Row \cup {None}] /\ Fewer
  BY DEF TypeOK, Fewer

LEMMA ExpiredRows ==
  ASSUME TypeOK, NEW p \in Pk, Expire(p)
  PROVE  row' \in [Pk -> Row \cup {None}] /\ Fewer
  <1> DEFINE r == [row[p] EXCEPT !.expired = TRUE]
  <1>1. row[p] \in Row
    BY ExistingRow DEF Expire
  <1>2. r \in Row /\ r.id = row[p].id /\ r.ctx = row[p].ctx /\ r.name = row[p].name /\ r.expired
    BY <1>1 DEF Row
  <1>3. row' = [row EXCEPT ![p] = r] /\ row[p] # None
    BY DEF Expire, Exists
  <1> HIDE DEF r
  <1> QED
    BY <1>2, <1>3 DEF TypeOK, Fewer

LEMMA KickedRows ==
  ASSUME TypeOK, NEW x, row' = [p \in Pk |-> IF p \in Hit(x) THEN None ELSE row[p]]
  PROVE  row' \in [Pk -> Row \cup {None}] /\ Fewer
  BY DEF TypeOK, Fewer

\* What saving a copy does to its row.
LEMMA SavedRows ==
  ASSUME TypeOK, NEW c \in Copy, NEW user \in {c.ctx, None}, SaveCopy(c, user)
  PROVE  LET p == c.pk IN
         /\ p \in Pk /\ row' \in [Pk -> Row \cup {None}]
         /\ \A q \in Pk \ {p} : row'[q] = row[q]
         /\ ~Exists(p) => row' = row
         /\ Exists(p) => /\ row'[p] \in Row /\ row'[p].id = c.id /\ row'[p].name = user
                         /\ row'[p].ctx = IF user = c.ctx THEN row[p].ctx ELSE None
  <1> DEFINE p == c.pk
             ctx == IF user = c.ctx THEN row[p].ctx ELSE user
             r == [id |-> c.id, ctx |-> ctx, name |-> user, last |-> c.last, expired |-> FALSE]
  <1>1. p \in Pk /\ c.id \in 1..MaxId /\ user \in Principal /\ c.last \in 1..MaxClock
    BY DEF Copy, Principal
  <1>2. CASE Exists(p)
    <2>1. ctx \in Principal
      BY <1>1, <1>2, ExistingRow, RowFields
    <2>2. r \in Row /\ r.id = c.id /\ r.name = user /\ r.ctx = ctx
      BY <1>1, <2>1 DEF Row
    <2>3. row' = [row EXCEPT ![p] = r]
      BY <1>2 DEF SaveCopy
    <2> HIDE DEF r
    <2> QED
      BY <1>1, <1>2, <2>2, <2>3 DEF TypeOK
  <1>3. CASE ~Exists(p)
    <2>1. row' = row
      BY <1>3 DEF SaveCopy
    <2> QED
      BY <1>1, <1>3, <2>1 DEF TypeOK
  <1> QED
    BY <1>2, <1>3

LEMMA SavedHistory ==
  ASSUME TypeOK, NEW c \in Copy, NEW user, SaveCopy(c, user)
  PROVE  /\ stale \subseteq stale' /\ stale' \subseteq Pk /\ excess' \in BOOLEAN
         /\ IsOld(c) => c.pk \in stale'
         /\ ~excess' => ~excess /\ ~IsOld(c) /\ stale' = stale
  BY DEF SaveCopy, TypeOK, Copy

\* What Save and Leave have in common: the copy of a session that somebody has,
\* with the context it had or without.
Saving(c, user) ==
    /\ c \in Copy /\ user \in {c.ctx, None} /\ SaveCopy(c, user)
    /\ ids' = ids
    /\ \/ \E v \in Visit : c = visit[v] /\ visit[v] # None
       \/ \E t \in Login : Busy(t) /\ c = login[t].own /\ login[t].own # None
    /\ \A t \in Login : login'[t] # None =>
          (t \in Disturbs(c) => t \in disturbed') /\ (t \in Crowds(c) => t \in crowded')

LEMMA SaveSaves ==
  ASSUME TypeOK, NEW v \in Visit, Save(v)
  PROVE  Saving(visit[v], visit[v].ctx)
  BY DEF Save, Saving, TypeOK

LEMMA LeaveSaves ==
  ASSUME TypeOK, NEW t \in Login, Leave(t), login[t].own # None
  PROVE  Saving(login[t].own, Afterwards(t))
  <1>1. Busy(t) /\ login[t] \in Attempt
    BY BusyFields DEF Leave, At, Busy
  <1>2. login[t].own \in Copy
    BY <1>1, AttemptFields
  <1>3. Afterwards(t) \in {login[t].own.ctx, None}
    BY DEF Afterwards
  <1>4. \A s \in Login : login'[s] # None => s # t
    BY DEF Leave, TypeOK
  <1> QED
    BY <1>1, <1>2, <1>3, <1>4 DEF Leave, Saving

\* Where a login is stored: nowhere, or in one row, under a new id.
LEMMA StoredRows ==
  ASSUME TypeOK, NEW t \in Login, Store(t)
  PROVE  /\ row' \in [Pk -> Row \cup {None}] /\ ids' \in [Pk -> 0..MaxId]
         /\ \/ /\ row' = row /\ ids' = ids
               /\ login[t].own # None /\ ~Exists(login[t].own.pk)
            \/ \E p \in Pk :
                 /\ \A q \in Pk \ {p} : row'[q] = row[q] /\ ids'[q] = ids[q]
                 /\ ids'[p] = ids[p] + 1 /\ row'[p] \in Row /\ row'[p].id = ids[p] + 1
                 /\ row'[p].ctx = login[t].user /\ row'[p].name = login[t].user
                 /\ IF login[t].own # None THEN p = login[t].own.pk ELSE ids[p] = 0
  <1> DEFINE a == login[t]
             R(p) == [id |-> ids[p] + 1, ctx |-> a.user, name |-> a.user, last |-> a.last,
                      expired |-> FALSE]
             In(p) == /\ ids' = [ids EXCEPT ![p] = ids[p] + 1]
                      /\ row' = [row EXCEPT ![p] = R(p)]
  <1>1. a \in Attempt
    BY DEF TypeOK, Store, At
  <1>2. a.user \in User /\ a.last \in 1..MaxClock /\ a.own \in Copy \cup {None}
    BY <1>1, AttemptFields
  <1>3. ASSUME NEW p \in Pk, ids[p] + 1 <= MaxId, In(p)
        PROVE  /\ row' \in [Pk -> Row \cup {None}] /\ ids' \in [Pk -> 0..MaxId]
               /\ \A q \in Pk \ {p} : row'[q] = row[q] /\ ids'[q] = ids[q]
               /\ ids'[p] = ids[p] + 1 /\ row'[p] \in Row /\ row'[p].id = ids[p] + 1
               /\ row'[p].ctx = a.user /\ row'[p].name = a.user
    <2>1. ids[p] \in 0..MaxId /\ MaxId \in Nat
      BY BoundAssumption DEF TypeOK
    <2>2. ids[p] + 1 \in 1..MaxId /\ ids[p] + 1 \in 0..MaxId
      BY <1>3, <2>1
    <2>3. R(p) \in Row /\ R(p).id = ids[p] + 1 /\ R(p).ctx = a.user /\ R(p).name = a.user
      BY <1>2, <2>2 DEF Row, Principal
    <2> HIDE DEF R
    <2> QED
      BY <1>3, <2>2, <2>3 DEF TypeOK
  <1>4. \/ a.own # None /\ ids[a.own.pk] + 1 <= MaxId /\ In(a.own.pk)
        \/ a.own # None /\ ~Exists(a.own.pk) /\ UNCHANGED <<row, ids>>
        \/ a.own = None /\ \E p \in Pk : ids[p] = 0 /\ In(p)
    BY DEF Store, NextId
  <1>5. CASE a.own # None /\ ids[a.own.pk] + 1 <= MaxId /\ In(a.own.pk)
    <2>1. a.own.pk \in Pk
      BY <1>2, <1>5 DEF Copy
    <2> HIDE DEF In
    <2> QED
      BY <1>3, <1>5, <2>1
  <1>6. CASE a.own # None /\ ~Exists(a.own.pk) /\ UNCHANGED <<row, ids>>
    BY <1>6 DEF TypeOK
  <1>7. CASE a.own = None /\ \E p \in Pk : ids[p] = 0 /\ In(p)
    <2>1. \A p \in Pk : ids[p] = 0 => ids[p] + 1 <= MaxId
      BY BoundAssumption
    <2> HIDE DEF In
    <2> QED
      BY <1>3, <1>7, <2>1
  <1> QED
    BY <1>4, <1>5, <1>6, <1>7

-----------------------------------------------------------------------------
(* What a step does to the login that takes it *)

\* All of an attempt but where it is and what the step sets.
SameUser(b, a) == b.user = a.user /\ b.own = a.own

LEMMA BeginLogin ==
  ASSUME TypeOK, NEW t \in Login, NEW u \in User, Begin(t, u)
  PROVE  \E b \in Attempt :
           /\ login' = [login EXCEPT ![t] = b]
           /\ b.pc = "control" /\ b.user = u /\ b.max = 0 /\ b.limit = 0
           /\ b.list = {} /\ b.victims = {}
           /\ b.own # None =>
                 b.own.pk \in Pk /\ b.own.id = row[b.own.pk].id /\ Exists(b.own.pk)
           /\ row' \in [Pk -> Row \cup {None}] /\ Fewer
  <1>1. PICK own \in {None} \cup {CopyOf(p) : p \in {q \in Pk : Exists(q)}} :
          /\ login' = [login EXCEPT ![t] =
                [pc |-> "control", user |-> u, own |-> own, last |-> clock + 1,
                 max |-> 0, limit |-> 0, list |-> {}, victims |-> {}]]
          /\ IF own = None THEN UNCHANGED row ELSE Loaded(own.pk)
    BY DEF Begin
  <1> DEFINE b == [pc |-> "control", user |-> u, own |-> own, last |-> clock + 1,
                   max |-> 0, limit |-> 0, list |-> {}, victims |-> {}]
  <1>2. own # None => /\ own \in Copy /\ own.pk \in Pk /\ own.id = row[own.pk].id
                      /\ Exists(own.pk)
    BY CopyType DEF Begin
  <1>3. b \in Attempt
    BY <1>2, NextTime DEF Attempt, Begin
  <1>4. row' \in [Pk -> Row \cup {None}] /\ Fewer
    <2>1. CASE own = None
      BY <1>1, <2>1, SameRows DEF TypeOK
    <2>2. CASE own # None
      BY <1>1, <1>2, <2>2, LoadedRows
    <2> QED
      BY <2>1, <2>2
  <1>5. /\ b.pc = "control" /\ b.user = u /\ b.max = 0 /\ b.limit = 0
        /\ b.list = {} /\ b.victims = {} /\ b.own = own
    OBVIOUS
  <1>6. login' = [login EXCEPT ![t] = b]
    BY <1>1
  <1> HIDE DEF b
  <1> QED
    BY <1>2, <1>3, <1>4, <1>5, <1>6

LEMMA ControlLogin ==
  ASSUME TypeOK, NEW t \in Login, Control(t)
  PROVE  \E b \in Attempt :
           /\ login' = [login EXCEPT ![t] = b] /\ SameUser(b, login[t]) /\ b.max = login[t].max
           /\ b.pc = IF policy.control THEN "count" ELSE "store"
           /\ b.limit = login[t].limit /\ b.list = login[t].list /\ b.victims = login[t].victims
  <1> DEFINE a == login[t]
             pc == IF policy.control THEN "count" ELSE "store"
             b == [a EXCEPT !.pc = pc]
  <1>1. a \in Attempt /\ login' = [login EXCEPT ![t] = b]
    BY BusyFields DEF Control, At, Busy, Goes
  <1>2. pc \in {"count", "store"}
    OBVIOUS
  <1> HIDE DEF pc, a
  <1>3. /\ b \in Attempt /\ b.pc = pc /\ b.user = a.user /\ b.own = a.own /\ b.max = a.max
        /\ b.limit = a.limit /\ b.list = a.list /\ b.victims = a.victims
    BY <1>1, <1>2 DEF Attempt
  <1> HIDE DEF b
  <1> QED
    BY <1>1, <1>3 DEF SameUser, pc, a

\* A login that is not going to succeed.
LEMMA GivenUp ==
  ASSUME TypeOK, NEW t \in Login, login[t] # None, Refused(t) \/ Failed(t)
  PROVE  /\ \E b \in Attempt :
              /\ login' = [login EXCEPT ![t] = b] /\ SameUser(b, login[t])
              /\ b.pc = IF Refused(t) THEN "refused" ELSE "failed"
              /\ b.max = login[t].max /\ b.limit = login[t].limit /\ b.list = login[t].list
              /\ b.victims = login[t].victims
         /\ UNCHANGED <<row, ids, visit, policy, clock, changes, history>>
  <1> DEFINE a == login[t]
             pc == IF Refused(t) THEN "refused" ELSE "failed"
             b == [a EXCEPT !.pc = pc]
  <1>1. /\ login' = [login EXCEPT ![t] = b]
        /\ UNCHANGED <<row, ids, visit, policy, clock, changes, history>>
    BY DEF Refused, Failed, Goes
  <1>2. a \in Attempt /\ pc \in {"refused", "failed"}
    BY BusyFields DEF Busy
  <1> HIDE DEF pc, a
  <1>3. /\ b \in Attempt /\ b.pc = pc /\ b.user = a.user /\ b.own = a.own /\ b.max = a.max
        /\ b.limit = a.limit /\ b.list = a.list /\ b.victims = a.victims
    BY <1>2 DEF Attempt
  <1> HIDE DEF b
  <1> QED
    BY <1>1, <1>3 DEF SameUser, pc, a

LEMMA CountLogin ==
  ASSUME TypeOK, NEW t \in Login, Count(t)
  PROVE  /\ \E b \in Attempt :
              /\ login' = [login EXCEPT ![t] = b] /\ SameUser(b, login[t])
              /\ \/ b.pc \in {"refused", "failed"} /\ b.max = login[t].max
                 \/ /\ b.pc = "list" /\ b.max = policy.max /\ policy.max \in Nat
                    /\ policy.max > 0 => ~(Cardinality(Live) >= policy.max)
              /\ b.limit = login[t].limit /\ b.list = login[t].list
              /\ b.victims = login[t].victims
         /\ UNCHANGED <<row, ids, visit, policy, clock, changes, history>>
  <1>1. CASE Refused(t) \/ Failed(t)
    <2>1. login[t] # None
      BY DEF Count, At
    <2> QED
      BY <1>1, <2>1, GivenUp
  <1>2. CASE ~(Refused(t) \/ Failed(t))
    <2> DEFINE a == login[t]
               b == [a EXCEPT !.pc = "list", !.max = policy.max]
    <2>1. /\ policy.max # Null /\ ~TooMany(Cardinality(Live), policy.max)
          /\ login' = [login EXCEPT ![t] = b]
          /\ UNCHANGED <<row, ids, visit, policy, clock, changes, history>>
      BY <1>2 DEF Count, Goes
    <2>2. a \in Attempt /\ policy.max \in Nat
      BY <2>1, BusyFields, PolicyFields DEF Count, At, Busy
    <2> HIDE DEF a
    <2>3. /\ b \in Attempt /\ b.pc = "list" /\ b.user = a.user /\ b.own = a.own
          /\ b.max = policy.max /\ b.limit = a.limit /\ b.list = a.list /\ b.victims = a.victims
      BY <2>2 DEF Attempt
    <2> HIDE DEF b
    <2> QED
      BY <2>1, <2>2, <2>3 DEF SameUser, a, TooMany
  <1> QED
    BY <1>1, <1>2

\* Either as many sessions as allowed, or all of them, have been found.
Enough(t, list) == \/ policy.user = 0
                   \/ Below(list, policy.user)
                   \/ Cardinality(list) = policy.user /\ OwnIsListed(t, list)

LEMMA ListLogin ==
  ASSUME TypeOK, NEW t \in Login, List(t)
  PROVE  /\ \E b \in Attempt :
              /\ login' = [login EXCEPT ![t] = b] /\ SameUser(b, login[t])
              /\ b.max = login[t].max /\ b.victims = login[t].victims
              /\ \/ /\ b.pc = "failed" /\ b.limit = login[t].limit /\ b.list = login[t].list
                    /\ disturbed' = disturbed
                 \/ /\ b.pc = IF Enough(t, b.list) THEN "store" ELSE "decide"
                    /\ b.limit = policy.user /\ policy.user \in Nat
                    /\ b.list = SessionsNamed(b.user)
                    /\ disturbed' = IF Hidden(login[t].user) THEN disturbed \cup {t} ELSE disturbed
         /\ UNCHANGED <<row, ids, visit, policy, clock, changes, crowded, stale, excess>>
  <1>1. CASE Failed(t)
    <2>1. ~Refused(t)
      <3>1. login'[t].pc = "failed"
        BY <1>1 DEF Failed, Goes, TypeOK, List, At, Attempt
      <3> QED
        BY <3>1 DEF Refused, Goes, TypeOK, List, At, Attempt
    <2> QED
      BY <1>1, <2>1, GivenUp DEF List, At, history
  <1>2. CASE ~Failed(t)
    <2> DEFINE a == login[t]
               list == SessionsNamed(a.user)
               pc == IF Enough(t, list) THEN "store" ELSE "decide"
               b == [a EXCEPT !.pc = pc, !.limit = policy.user, !.list = list]
    <2>1. /\ policy.user # Null /\ login' = [login EXCEPT ![t] = b]
          /\ disturbed' = IF Hidden(a.user) THEN disturbed \cup {t} ELSE disturbed
          /\ UNCHANGED <<row, ids, visit, policy, clock, changes, crowded, stale, excess>>
      BY <1>2 DEF List, Enough
    <2>2. a \in Attempt /\ policy.user \in Nat
      BY <2>1, BusyFields, PolicyFields DEF List, At, Busy
    <2>3. list \in SUBSET Seen /\ pc \in {"store", "decide"}
      BY SeenType
    <2> HIDE DEF pc, list, a
    <2>4. /\ b \in Attempt /\ b.pc = pc /\ b.user = a.user /\ b.own = a.own /\ b.max = a.max
          /\ b.limit = policy.user /\ b.list = list /\ b.victims = a.victims
      BY <2>2, <2>3 DEF Attempt
    <2> HIDE DEF b
    <2> QED
      BY <2>1, <2>2, <2>4 DEF SameUser, pc, list, a
  <1> QED
    BY <1>1, <1>2

LEMMA DecideLogin ==
  ASSUME TypeOK, NEW t \in Login, Decide(t)
  PROVE  /\ \E b \in Attempt :
              /\ login' = [login EXCEPT ![t] = b] /\ SameUser(b, login[t]) /\ b.max = login[t].max
              /\ b.limit = login[t].limit /\ b.list = login[t].list
              /\ \/ b.pc = "refused" /\ b.victims = login[t].victims
                 \/ /\ b.pc = "kick"
                    /\ b.victims = Oldest(b.list, Cardinality(b.list) - b.limit + 1)
         /\ UNCHANGED <<row, ids, visit, policy, clock, changes, history>>
  <1>1. CASE Refused(t)
    BY <1>1, GivenUp DEF Decide, At
  <1>2. CASE ~Refused(t)
    <2> DEFINE a == login[t]
               victims == Oldest(a.list, Cardinality(a.list) - a.limit + 1)
               b == [a EXCEPT !.pc = "kick", !.victims = victims]
    <2>1. /\ login' = [login EXCEPT ![t] = b]
          /\ UNCHANGED <<row, ids, visit, policy, clock, changes, history>>
      BY <1>2 DEF Decide, Goes
    <2>2. a \in Attempt
      BY BusyFields DEF Decide, At, Busy
    <2>3. victims \in SUBSET Seen
      BY <2>2, AttemptFields, OldestIsPart
    <2> HIDE DEF victims, a
    <2>4. /\ b \in Attempt /\ b.pc = "kick" /\ b.user = a.user /\ b.own = a.own /\ b.max = a.max
          /\ b.limit = a.limit /\ b.list = a.list /\ b.victims = victims
      BY <2>2, <2>3 DEF Attempt
    <2> HIDE DEF b
    <2> QED
      BY <2>1, <2>4 DEF SameUser, victims, a
  <1> QED
    BY <1>1, <1>2

LEMMA KickLogin ==
  ASSUME TypeOK, NEW t \in Login, Kick(t)
  PROVE  \E x \in login[t].victims, b \in Attempt :
           /\ login' = [login EXCEPT ![t] = b] /\ SameUser(b, login[t]) /\ b.max = login[t].max
           /\ b.pc = IF login[t].victims = {x} THEN "store" ELSE "kick"
           /\ b.limit = login[t].limit /\ b.list = login[t].list
           /\ b.victims = login[t].victims \ {x}
           /\ row' = [p \in Pk |-> IF p \in Hit(x) THEN None ELSE row[p]]
  <1> DEFINE a == login[t]
  <1>1. PICK x \in Oldest(a.victims, 1) :
          /\ row' = [p \in Pk |-> IF p \in Hit(x) THEN None ELSE row[p]]
          /\ login' = [login EXCEPT ![t] =
                [a EXCEPT !.pc = IF a.victims = {x} THEN "store" ELSE "kick",
                          !.victims = a.victims \ {x}]]
    BY DEF Kick
  <1> DEFINE pc == IF a.victims = {x} THEN "store" ELSE "kick"
             b == [a EXCEPT !.pc = pc, !.victims = a.victims \ {x}]
  <1>2. a \in Attempt /\ x \in a.victims /\ pc \in {"store", "kick"}
    <2>1. Busy(t)
      BY DEF Kick, At, Busy
    <2>2. a \in Attempt
      BY <2>1, BusyFields
    <2>3. x \in a.victims
      BY OldestIsPart
    <2>4. pc \in {"store", "kick"}
      OBVIOUS
    <2> HIDE DEF pc, a
    <2> QED
      BY <2>2, <2>3, <2>4
  <1>3. login' = [login EXCEPT ![t] = b]
    BY <1>1
  <1> HIDE DEF pc, a
  <1>4. /\ b \in Attempt /\ b.pc = pc /\ b.user = a.user /\ b.own = a.own /\ b.max = a.max
        /\ b.limit = a.limit /\ b.list = a.list /\ b.victims = a.victims \ {x}
    BY <1>2 DEF Attempt
  <1> HIDE DEF b
  <1>5. SameUser(b, a)
    BY <1>4 DEF SameUser
  <1>6. row' = [p \in Pk |-> IF p \in Hit(x) THEN None ELSE row[p]]
    BY <1>1
  <1> QED
    BY ONLY <1>2, <1>3, <1>4, <1>5, <1>6 DEF pc, a

-----------------------------------------------------------------------------
(* Types *)

LEMMA LoginTypes ==
  ASSUME TypeOK, NEW t \in Login, NEW b \in Attempt \cup {None}, login' = [login EXCEPT ![t] = b]
  PROVE  login' \in [Login -> Attempt \cup {None}] /\ login'[t] = b
         /\ \A s \in Login \ {t} : login'[s] = login[s]
  BY DEF TypeOK

LEMMA AttemptingTypes ==
  ASSUME TypeOK, NEW t \in Login, Attempting(t)
  PROVE  TypeOK'
  <1>1. ASSUME NEW u \in User, Begin(t, u)
        PROVE  TypeOK'
    <2>1. login' \in [Login -> Attempt \cup {None}] /\ row' \in [Pk -> Row \cup {None}]
      BY <1>1, BeginLogin, LoginTypes
    <2>2. clock' \in 0..MaxClock
      BY <1>1, NextTime DEF Begin
    <2> QED
      BY <1>1, <2>1, <2>2 DEF Begin, TypeOK, history
  <1>2. CASE Control(t)
    <2>1. login' \in [Login -> Attempt \cup {None}]
      BY <1>2, ControlLogin, LoginTypes
    <2> QED
      BY <1>2, <2>1 DEF Control, Goes, TypeOK, history
  <1>3. CASE Count(t)
    <2>1. login' \in [Login -> Attempt \cup {None}]
      BY <1>3, CountLogin, LoginTypes
    <2>2. UNCHANGED <<row, ids, visit, policy, clock, changes, history>>
      BY <1>3, CountLogin
    <2> QED
      BY <2>1, <2>2 DEF TypeOK, history
  <1>4. CASE List(t)
    <2>1. login' \in [Login -> Attempt \cup {None}]
      BY <1>4, ListLogin, LoginTypes
    <2>2. UNCHANGED <<row, ids, visit, policy, clock, changes, crowded, stale, excess>>
      BY <1>4, ListLogin
    <2>3. disturbed' \subseteq Login
      <3>1. disturbed' = disturbed \/ disturbed' = disturbed \cup {t}
        BY <1>4, ListLogin
      <3> QED
        BY <3>1 DEF TypeOK
    <2> QED
      BY <2>1, <2>2, <2>3 DEF TypeOK
  <1>5. CASE Decide(t)
    <2>1. login' \in [Login -> Attempt \cup {None}]
      BY <1>5, DecideLogin, LoginTypes
    <2>2. UNCHANGED <<row, ids, visit, policy, clock, changes, history>>
      BY <1>5, DecideLogin
    <2> QED
      BY <2>1, <2>2 DEF TypeOK, history
  <1>6. CASE Kick(t)
    <2>1. login' \in [Login -> Attempt \cup {None}] /\ row' \in [Pk -> Row \cup {None}]
      BY <1>6, KickLogin, LoginTypes, KickedRows
    <2> QED
      BY <1>6, <2>1 DEF Kick, TypeOK, history
  <1>7. CASE Store(t)
    <2>1. /\ login' \in [Login -> Attempt \cup {None}] /\ row' \in [Pk -> Row \cup {None}]
          /\ ids' \in [Pk -> 0..MaxId]
      BY <1>7, StoredRows, LoginTypes DEF Store
    <2>2. /\ disturbed' \subseteq Login /\ crowded' \subseteq Login /\ excess' \in BOOLEAN
          /\ UNCHANGED <<visit, policy, clock, changes, stale>>
      BY <1>7 DEF Store, Others, TypeOK
    <2> QED
      BY <2>1, <2>2 DEF TypeOK
  <1>8. CASE Leave(t)
    <2>1. /\ login' \in [Login -> Attempt \cup {None}]
          /\ UNCHANGED <<ids, visit, policy, clock, changes>>
      BY <1>8, LoginTypes DEF Leave
    <2>2. disturbed' \subseteq Login /\ crowded' \subseteq Login
      BY <1>8 DEF Leave, Disturbs, Crowds, TypeOK
    <2>3. row' \in [Pk -> Row \cup {None}] /\ stale' \subseteq Pk /\ excess' \in BOOLEAN
      <3>1. CASE login[t].own = None
        BY <1>8, <3>1 DEF Leave, TypeOK
      <3>2. CASE login[t].own # None
        BY <1>8, <3>2, LeaveSaves, SavedRows, SavedHistory DEF Saving
      <3> QED
        BY <3>1, <3>2
    <2> QED
      BY <2>1, <2>2, <2>3 DEF TypeOK
  <1> QED
    BY <1>1, <1>2, <1>3, <1>4, <1>5, <1>6, <1>7, <1>8 DEF Attempting

LEMMA OtherTypes ==
  ASSUME TypeOK, \/ \E v \in Visit : Save(v) \/ \E p \in Pk : Load(v, p)
                 \/ \E p \in Pk : Remove(p) \/ Expire(p)
                 \/ ChangePolicy
  PROVE  TypeOK'
  <1>1. ASSUME NEW v \in Visit, Save(v)
        PROVE  TypeOK'
    <2>1. row' \in [Pk -> Row \cup {None}] /\ stale' \subseteq Pk /\ excess' \in BOOLEAN
      BY <1>1, SaveSaves, SavedRows, SavedHistory DEF Saving
    <2>2. /\ disturbed' \subseteq Login /\ crowded' \subseteq Login
          /\ visit' \in [Visit -> Copy \cup {None}]
      BY <1>1 DEF Save, Disturbs, Crowds, TypeOK
    <2>3. UNCHANGED <<ids, login, policy, clock, changes>>
      BY <1>1 DEF Save
    <2> QED
      BY <2>1, <2>2, <2>3 DEF TypeOK
  <1>2. ASSUME NEW v \in Visit, NEW p \in Pk, Load(v, p)
        PROVE  TypeOK'
    <2>1. row' \in [Pk -> Row \cup {None}] /\ CopyOf(p) \in Copy /\ clock' \in 0..MaxClock
      BY <1>2, LoadedRows, CopyType, NextTime DEF Load
    <2> QED
      BY <1>2, <2>1 DEF Load, TypeOK, history
  <1>3. ASSUME NEW p \in Pk, Remove(p)
        PROVE  TypeOK'
    BY <1>3, RemovedRows DEF Remove, TypeOK, history
  <1>4. ASSUME NEW p \in Pk, Expire(p)
        PROVE  TypeOK'
    <2>1. row' \in [Pk -> Row \cup {None}]
      BY <1>4, ExpiredRows
    <2> QED
      BY <1>4, <2>1 DEF Expire, TypeOK, history
  <1>5. CASE ChangePolicy
    <2>1. changes' \in 0..MaxChange
      BY <1>5, BoundAssumption DEF ChangePolicy, TypeOK
    <2> QED
      BY <1>5, <2>1 DEF ChangePolicy, TypeOK
  <1> QED
    BY <1>1, <1>2, <1>3, <1>4, <1>5

LEMMA TypesStep == TypeOK /\ [Next]_vars => TypeOK'
  <1>1. TypeOK /\ UNCHANGED vars => TypeOK'
    BY DEF vars, TypeOK
  <1> QED
    BY <1>1, AttemptingTypes, OtherTypes DEF Next

LEMMA TypesInit == Init => TypeOK
  <1> SUFFICES ASSUME Init PROVE TypeOK
    OBVIOUS
  <1>1. /\ row \in [Pk -> Row \cup {None}] /\ login \in [Login -> Attempt \cup {None}]
        /\ visit \in [Visit -> Copy \cup {None}]
    BY DEF Init
  <1>2. ids \in [Pk -> 0..MaxId] /\ clock \in 0..MaxClock /\ changes \in 0..MaxChange
    BY BoundAssumption DEF Init
  <1> QED
    BY <1>1, <1>2 DEF Init, TypeOK

\* The rows, the logins and visits under way and the strategy keep their types.
THEOREM TypesAreRight == Spec => []TypeOK
  BY TypesInit, TypesStep, PTL DEF Spec

-----------------------------------------------------------------------------
(* Each step is of one of these kinds *)

LEMMA RowKinds ==
  ASSUME TypeOK, [Next]_vars
  PROVE  \/ Fewer /\ ids' = ids /\ stale' = stale
         \/ \E t \in Login : Store(t)
         \/ \E c \in Copy, user \in Principal : Saving(c, user)
  <1> DEFINE Small == Fewer /\ ids' = ids /\ stale' = stale
             Saves == \E c \in Copy, user \in Principal : Saving(c, user)
  <1>0. ASSUME NEW c, NEW user, Saving(c, user)
        PROVE  Saves
    <2>1. c \in Copy /\ user \in Principal
      BY <1>0 DEF Saving, Copy, Principal
    <2> QED
      BY <1>0, <2>1
  <1> HIDE DEF Saves
  <1>1. CASE UNCHANGED vars
    BY <1>1, SameRows DEF vars
  <1>2. ASSUME NEW t \in Login, Attempting(t), ~Store(t)
        PROVE  Small \/ Saves
    <2>1. ASSUME NEW u \in User, Begin(t, u)
          PROVE  Small
      <3>1. Fewer
        BY <2>1, BeginLogin
      <3> QED
        BY <2>1, <3>1 DEF Begin, history
    <2>2. CASE Kick(t)
      <3>1. Fewer
        BY <2>2, KickLogin, KickedRows
      <3> QED
        BY <2>2, <3>1 DEF Kick, history
    <2>3. CASE Control(t)
      BY <2>3, SameRows DEF Control, Goes, history
    <2>4. CASE Count(t) \/ List(t) \/ Decide(t)
      <3>1. UNCHANGED <<row, ids, stale>>
        BY <2>4, CountLogin, ListLogin, DecideLogin DEF history
      <3> QED
        BY <3>1, SameRows
    <2>5. CASE Leave(t) /\ login[t].own = None
      BY <2>5, SameRows DEF Leave
    <2>6. CASE Leave(t) /\ login[t].own # None
      BY <2>6, <1>0, LeaveSaves
    <2> QED
      BY <1>2, <2>1, <2>2, <2>3, <2>4, <2>5, <2>6 DEF Attempting
  <1>3. ASSUME NEW v \in Visit, NEW p \in Pk, Load(v, p)
        PROVE  Small
    BY <1>3, LoadedRows DEF Load, history
  <1>4. ASSUME NEW p \in Pk, Remove(p) \/ Expire(p)
        PROVE  Small
    BY <1>4, RemovedRows, ExpiredRows DEF Remove, Expire, history
  <1>5. CASE ChangePolicy
    BY <1>5, SameRows DEF ChangePolicy
  <1>6. ASSUME NEW v \in Visit, Save(v)
        PROVE  Saves
    BY <1>0, <1>6, SaveSaves
  <1> QED
    BY <1>1, <1>2, <1>3, <1>4, <1>5, <1>6 DEF Next, Saves

LEMMA LoginStays ==
  ASSUME TypeOK, [Next]_vars, NEW t \in Login
  PROVE  login'[t] = login[t] \/ Attempting(t)
  <1>1. CASE UNCHANGED vars
    BY <1>1 DEF vars
  <1>2. ASSUME NEW s \in Login \ {t}, Attempting(s)
        PROVE  login'[t] = login[t]
    <2>1. ASSUME NEW u \in User, Begin(s, u)
          PROVE  login'[t] = login[t]
      BY <2>1, BeginLogin, LoginTypes
    <2>2. CASE Control(s) \/ Count(s) \/ List(s) \/ Decide(s) \/ Kick(s)
      <3>1. \E b \in Attempt \cup {None} : login' = [login EXCEPT ![s] = b]
        <4>1. CASE Control(s)
          BY <4>1, ControlLogin
        <4>2. CASE Count(s)
          BY <4>2, CountLogin
        <4>3. CASE List(s)
          BY <4>3, ListLogin
        <4>4. CASE Decide(s)
          BY <4>4, DecideLogin
        <4>5. CASE Kick(s)
          BY <4>5, KickLogin
        <4> QED
          BY <2>2, <4>1, <4>2, <4>3, <4>4, <4>5
      <3> QED
        BY <3>1, LoginTypes
    <2>3. CASE Store(s) \/ Leave(s)
      <3>1. login' = [login EXCEPT ![s] = None]
        <4>1. CASE Store(s)
          BY <4>1 DEF Store
        <4>2. CASE Leave(s)
          BY <4>2 DEF Leave
        <4> QED
          BY <2>3, <4>1, <4>2
      <3> QED
        BY <1>2, <3>1 DEF TypeOK
    <2> QED
      BY <1>2, <2>1, <2>2, <2>3 DEF Attempting
  <1>3. ASSUME NEW v \in Visit, Save(v) \/ \E p \in Pk : Load(v, p)
        PROVE  login'[t] = login[t]
    BY <1>3 DEF Save, Load
  <1>4. ASSUME NEW p \in Pk, Remove(p) \/ Expire(p)
        PROVE  login'[t] = login[t]
    BY <1>4 DEF Remove, Expire
  <1>5. CASE ChangePolicy
    BY <1>5 DEF ChangePolicy
  <1> QED
    BY <1>1, <1>2, <1>3, <1>4, <1>5 DEF Next

LEMMA SeenFields ==
  ASSUME NEW x \in Seen
  PROVE  x.pk \in Pk /\ x.id \in 1..MaxId /\ x.last \in 1..MaxClock
  BY DEF Seen

-----------------------------------------------------------------------------
(* Session ids *)

RowsFit == \A p \in Pk : Exists(p) => row[p].id <= ids[p] /\ (p \notin stale => row[p].name = row[p].ctx)
VisitsFit == \A v \in Visit : visit[v] # None => visit[v].id <= ids[visit[v].pk]
OwnsFit == \A t \in Login : Busy(t) /\ login[t].own # None => login[t].own.id <= ids[login[t].own.pk]

\* What a login has found under its user's name, and has kept its id, is the
\* user's still, or nobody's.
FoundOf(t) ==
    Busy(t) =>
        /\ login[t].victims \subseteq login[t].list
        /\ login[t].pc \in {"control", "count", "list", "decide"} => login[t].victims = {}
        /\ \A x \in login[t].list :
              /\ x.id <= ids[x.pk]
              /\ Exists(x.pk) /\ row[x.pk].id = x.id =>
                    row[x.pk].ctx \in {login[t].user, None} \/ x.pk \in stale

Found == \A t \in Login : FoundOf(t)

Ids == RowsFit /\ VisitsFit /\ OwnsFit /\ Found

LEMMA Grown ==
  ASSUME TypeOK, [Next]_vars
  PROVE  stale \subseteq stale' /\ \A p \in Pk : ids[p] <= ids'[p]
  <1>1. stale \subseteq stale'
    <2>1. ASSUME NEW c \in Copy, NEW user, Saving(c, user)
          PROVE  stale \subseteq stale'
      BY <2>1, SavedHistory DEF Saving
    <2>2. ASSUME NEW t \in Login, Store(t)
          PROVE  stale' = stale
      BY <2>2 DEF Store
    <2> QED
      BY <2>1, <2>2, RowKinds
  <1>2. ASSUME NEW p \in Pk
        PROVE  ids[p] <= ids'[p]
    <2>1. ids[p] \in 0..MaxId /\ MaxId \in Nat
      BY BoundAssumption DEF TypeOK
    <2>2. ids'[p] = ids[p] \/ ids'[p] = ids[p] + 1
      <3>1. ASSUME NEW t \in Login, Store(t)
            PROVE  ids'[p] = ids[p] \/ ids'[p] = ids[p] + 1
        BY <3>1, StoredRows
      <3>2. ASSUME NEW c \in Copy, NEW user, Saving(c, user)
            PROVE  ids' = ids
        BY <3>2 DEF Saving
      <3> QED
        BY <3>1, <3>2, RowKinds
    <2> QED
      BY <2>1, <2>2
  <1> QED
    BY <1>1, <1>2

\* A copy that is not old is saved over the row it was read from.
LEMMA SavedAsIs ==
  ASSUME TypeOK, NEW c \in Copy, NEW user, Saving(c, user)
  PROVE  LET p == c.pk IN
         /\ p \in Pk
         /\ Exists(p) => p \in stale' \/ (row[p].id = c.id /\ row[p].ctx = c.ctx)
  <1>1. c.pk \in Pk
    BY DEF Copy
  <1>2. IsOld(c) => c.pk \in stale'
    BY SavedHistory DEF Saving
  <1> QED
    BY <1>1, <1>2 DEF IsOld

\* A copy has an id that was drawn.
LEMMA SavedId ==
  ASSUME TypeOK, Ids, NEW c, NEW user, Saving(c, user)
  PROVE  c.id <= ids[c.pk]
  BY DEF Saving, Ids, VisitsFit, OwnsFit

\* A row that has an id that was known, and has it still, is the same user's,
\* or nobody's.
LEMMA SameSession ==
  ASSUME TypeOK, [Next]_vars, NEW p \in Pk, row'[p] # None, row'[p].id <= ids[p]
  PROVE  \/ p \in stale'
         \/ row[p] # None /\ row'[p].id = row[p].id /\ row'[p].ctx \in {row[p].ctx, None}
  <1>1. CASE Fewer
    BY <1>1 DEF Fewer
  <1>2. ASSUME NEW t \in Login, Store(t)
        PROVE  row'[p] = row[p]
    <2>1. ids[p] \in 0..MaxId /\ MaxId \in Nat
      BY BoundAssumption DEF TypeOK
    <2>2. row'[p].id = ids[p] + 1 => FALSE
      BY <2>1
    <2> QED
      BY <1>2, <2>2, StoredRows
  <1>3. ASSUME NEW c \in Copy, NEW user, Saving(c, user)
        PROVE  \/ p \in stale'
               \/ row[p] # None /\ row'[p].id = row[p].id /\ row'[p].ctx \in {row[p].ctx, None}
    <2>0. user \in {c.ctx, None} /\ SaveCopy(c, user)
      BY <1>3 DEF Saving
    <2>1. CASE p = c.pk /\ Exists(p)
      <3>1. row'[p].id = c.id /\ row'[p].ctx \in {row[p].ctx, None}
        BY <2>0, <2>1, SavedRows
      <3>2. p \in stale' \/ row[p].id = c.id
        BY <1>3, <2>1, SavedAsIs
      <3> QED
        BY <2>1, <3>1, <3>2 DEF Exists
    <2>2. CASE p # c.pk \/ ~Exists(p)
      <3>1. row'[p] = row[p]
        BY <2>0, <2>2, SavedRows
      <3> QED
        BY <3>1
    <2> QED
      BY <2>1, <2>2
  <1> QED
    BY <1>1, <1>2, <1>3, RowKinds

LEMMA RowsFitStep ==
  ASSUME TypeOK, Ids, [Next]_vars
  PROVE  RowsFit'
  <1> SUFFICES ASSUME NEW p \in Pk, row'[p] # None
               PROVE  row'[p].id <= ids'[p] /\ (p \notin stale' => row'[p].name = row'[p].ctx)
    BY DEF RowsFit, Exists
  <1>0. stale \subseteq stale' /\ ids[p] \in 0..MaxId /\ MaxId \in Nat
    BY Grown, BoundAssumption DEF TypeOK
  <1>a. row[p] # None => row[p].id <= ids[p] /\ (p \notin stale => row[p].name = row[p].ctx)
    BY DEF Ids, RowsFit, Exists
  <1>1. CASE Fewer /\ ids' = ids
    BY <1>0, <1>a, <1>1 DEF Fewer
  <1>2. ASSUME NEW t \in Login, Store(t)
        PROVE  row'[p].id <= ids'[p] /\ (p \notin stale' => row'[p].name = row'[p].ctx)
    <2>1. CASE row'[p] = row[p] /\ ids'[p] = ids[p]
      BY <1>0, <1>a, <2>1
    <2>2. CASE ids'[p] = ids[p] + 1 /\ row'[p].id = ids[p] + 1 /\ row'[p].ctx = row'[p].name
      BY <1>0, <2>2
    <2> QED
      BY <1>2, <2>1, <2>2, StoredRows
  <1>3. ASSUME NEW c \in Copy, NEW user, Saving(c, user)
        PROVE  row'[p].id <= ids'[p] /\ (p \notin stale' => row'[p].name = row'[p].ctx)
    <2>0. user \in {c.ctx, None} /\ SaveCopy(c, user)
      BY <1>3 DEF Saving
    <2>1. ids' = ids /\ c.id <= ids[c.pk]
      BY <1>3, SavedId DEF Saving
    <2>2. CASE p = c.pk /\ Exists(p)
      <3>1. /\ row'[p].id = c.id /\ row'[p].name = user
            /\ row'[p].ctx = IF user = c.ctx THEN row[p].ctx ELSE None
        BY <2>0, <2>2, SavedRows
      <3>2. p \in stale' \/ row[p].ctx = c.ctx
        BY <1>3, <2>2, SavedAsIs
      <3> QED
        BY <2>0, <2>1, <2>2, <3>1, <3>2
    <2>3. CASE p # c.pk \/ ~Exists(p)
      <3>1. row'[p] = row[p]
        BY <2>0, <2>3, SavedRows
      <3> QED
        BY <1>0, <1>a, <2>1, <3>1
    <2> QED
      BY <2>2, <2>3
  <1> QED
    BY <1>1, <1>2, <1>3, RowKinds

LEMMA VisitsFitStep ==
  ASSUME TypeOK, Ids, [Next]_vars
  PROVE  VisitsFit'
  <1> SUFFICES ASSUME NEW v \in Visit, visit'[v] # None
               PROVE  visit'[v].id <= ids'[visit'[v].pk]
    BY DEF VisitsFit
  <1>1. CASE visit'[v] = visit[v]
    <2>1. visit[v] \in Copy /\ visit[v].id <= ids[visit[v].pk]
      BY <1>1 DEF Ids, VisitsFit, TypeOK
    <2>2. visit[v].id \in 1..MaxId /\ visit[v].pk \in Pk
      BY <2>1 DEF Copy
    <2>3. /\ ids[visit[v].pk] <= ids'[visit[v].pk] /\ ids[visit[v].pk] \in Nat
          /\ ids'[visit[v].pk] \in Nat /\ visit[v].id \in Nat
      BY <2>2, Grown, TypesStep, BoundAssumption DEF TypeOK
    <2> QED
      BY <1>1, <2>1, <2>3
  <1>2. CASE visit'[v] # visit[v]
    <2>1. PICK p \in Pk : Load(v, p)
      <3>1. \A w \in Visit \ {v} : ~Save(w) /\ \A p \in Pk : ~Load(w, p)
        BY <1>2 DEF Save, Load, TypeOK
      <3>2. ~Save(v)
        BY DEF Save, TypeOK
      <3>3. UNCHANGED visit \/ (\E w \in Visit : Save(w) \/ \E p \in Pk : Load(w, p))
        <4>1. ASSUME NEW t \in Login, Attempting(t)
              PROVE  UNCHANGED visit
          <5>1. CASE Count(t) \/ List(t) \/ Decide(t)
            BY <5>1, CountLogin, ListLogin, DecideLogin
          <5>2. CASE Control(t) \/ Kick(t) \/ Store(t) \/ Leave(t) \/ \E u \in User : Begin(t, u)
            BY <5>2 DEF Begin, Control, Kick, Store, Leave, Goes
          <5> QED
            BY <4>1, <5>1, <5>2 DEF Attempting
        <4> QED
          BY <4>1 DEF Next, Remove, Expire, ChangePolicy, vars
      <3> QED
        BY <1>2, <3>1, <3>2, <3>3
    <2>2. visit'[v] = CopyOf(p) /\ ids' = ids /\ Exists(p)
      BY <2>1 DEF Load, TypeOK
    <2>3. CopyOf(p).pk = p /\ CopyOf(p).id = row[p].id
      BY DEF CopyOf
    <2> QED
      BY <2>2, <2>3 DEF Ids, RowsFit
  <1> QED
    BY <1>1, <1>2

\* A login keeps the copy of its session that it began with.
LEMMA OwnStaysOwn ==
  ASSUME TypeOK, NEW t \in Login, Busy(t), Attempting(t), login'[t] # None
  PROVE  login'[t] \in Attempt /\ SameUser(login'[t], login[t])
  <1>1. \A u \in User : ~Begin(t, u)
    BY DEF Begin, Busy
  <1>2. ~Store(t) /\ ~Leave(t)
    BY LoginTypes DEF Store, Leave
  <1>3. CASE Control(t) \/ Kick(t)
    <2>1. PICK b \in Attempt : login' = [login EXCEPT ![t] = b] /\ SameUser(b, login[t])
      BY <1>3, ControlLogin, KickLogin
    <2> QED
      BY <2>1, LoginTypes
  <1>4. CASE Count(t) \/ List(t) \/ Decide(t)
    <2>1. PICK b \in Attempt : login' = [login EXCEPT ![t] = b] /\ SameUser(b, login[t])
      BY <1>4, CountLogin, ListLogin, DecideLogin
    <2> QED
      BY <2>1, LoginTypes
  <1> QED
    BY <1>1, <1>2, <1>3, <1>4 DEF Attempting

LEMMA OwnsFitStep ==
  ASSUME TypeOK, Ids, [Next]_vars
  PROVE  OwnsFit'
  <1> SUFFICES ASSUME NEW t \in Login, login'[t] # None, login'[t].own # None
               PROVE  login'[t].own.id <= ids'[login'[t].own.pk]
    BY DEF OwnsFit, Busy
  <1>1. CASE Busy(t) /\ login'[t].own = login[t].own
    <2>1. login[t].own \in Copy /\ login[t].own.id <= ids[login[t].own.pk]
      BY <1>1, BusyFields, AttemptFields DEF Ids, OwnsFit
    <2>2. login[t].own.id \in 1..MaxId /\ login[t].own.pk \in Pk
      BY <2>1 DEF Copy
    <2>3. /\ ids[login[t].own.pk] <= ids'[login[t].own.pk] /\ ids[login[t].own.pk] \in Nat
          /\ ids'[login[t].own.pk] \in Nat /\ login[t].own.id \in Nat
      BY <2>2, Grown, TypesStep, BoundAssumption DEF TypeOK
    <2> QED
      BY <1>1, <2>1, <2>3
  <1>2. ASSUME NEW u \in User, Begin(t, u)
        PROVE  login'[t].own.id <= ids'[login'[t].own.pk]
    <2>1. PICK b \in Attempt :
             /\ login' = [login EXCEPT ![t] = b]
             /\ b.own # None => b.own.pk \in Pk /\ b.own.id = row[b.own.pk].id /\ Exists(b.own.pk)
      BY <1>2, BeginLogin
    <2>2. login'[t] = b /\ ids' = ids
      BY <1>2, <2>1, LoginTypes DEF Begin
    <2> QED
      BY <2>1, <2>2 DEF Ids, RowsFit
  <1>3. CASE Busy(t) /\ Attempting(t)
    BY <1>1, <1>3, OwnStaysOwn DEF SameUser
  <1>4. CASE login'[t] = login[t]
    BY <1>1, <1>4 DEF Busy
  <1>5. CASE ~Busy(t) /\ Attempting(t)
    BY <1>2, <1>5 DEF Attempting, Control, Count, List, Decide, Kick, Store, Leave, At, Busy
  <1> QED
    BY <1>3, <1>4, <1>5, LoginStays

\* A list that stays, while the rows change.
LEMMA ListStays ==
  ASSUME TypeOK, [Next]_vars, NEW list \in SUBSET Seen, NEW u,
         \A x \in list : /\ x.id <= ids[x.pk]
                         /\ Exists(x.pk) /\ row[x.pk].id = x.id => row[x.pk].ctx \in {u, None} \/ x.pk \in stale
  PROVE  \A x \in list :
            /\ x.id <= ids'[x.pk]
            /\ row'[x.pk] # None /\ row'[x.pk].id = x.id => row'[x.pk].ctx \in {u, None} \/ x.pk \in stale'
  <1> SUFFICES ASSUME NEW x \in list
               PROVE  /\ x.id <= ids'[x.pk]
                      /\ row'[x.pk] # None /\ row'[x.pk].id = x.id =>
                            row'[x.pk].ctx \in {u, None} \/ x.pk \in stale'
    OBVIOUS
  <1>1. x.pk \in Pk /\ x.id \in Nat
    BY SeenFields, BoundAssumption
  <1>2. ids[x.pk] <= ids'[x.pk] /\ ids[x.pk] \in Nat /\ ids'[x.pk] \in Nat /\ stale \subseteq stale'
    BY <1>1, Grown, TypesStep, BoundAssumption DEF TypeOK
  <1>3. x.id <= ids[x.pk]
    OBVIOUS
  <1>4. x.id <= ids'[x.pk]
    BY <1>1, <1>2, <1>3
  <1>5. ASSUME row'[x.pk] # None, row'[x.pk].id = x.id
        PROVE  row'[x.pk].ctx \in {u, None} \/ x.pk \in stale'
    <2>1. \/ x.pk \in stale'
          \/ row[x.pk] # None /\ row'[x.pk].id = row[x.pk].id /\ row'[x.pk].ctx \in {row[x.pk].ctx, None}
      BY <1>1, <1>3, <1>5, SameSession
    <2> QED
      BY <1>2, <1>5, <2>1 DEF Exists
  <1> QED
    BY <1>4, <1>5

LEMMA FoundStays ==
  ASSUME TypeOK, Ids, [Next]_vars, NEW t \in Login, NEW b \in Attempt, Busy(t), login'[t] = b,
         b.user = login[t].user, b.list = login[t].list, b.victims \subseteq b.list,
         b.pc \in {"control", "count", "list", "decide"} => b.victims = {}
  PROVE  FoundOf(t)'
  <1>1. b.list \in SUBSET Seen
    BY AttemptFields
  <1>2. \A x \in b.list :
          /\ x.id <= ids[x.pk]
          /\ Exists(x.pk) /\ row[x.pk].id = x.id => row[x.pk].ctx \in {b.user, None} \/ x.pk \in stale
    BY DEF Ids, Found, FoundOf
  <1>3. \A x \in b.list :
          /\ x.id <= ids'[x.pk]
          /\ row'[x.pk] # None /\ row'[x.pk].id = x.id => row'[x.pk].ctx \in {b.user, None} \/ x.pk \in stale'
    BY <1>1, <1>2, ListStays
  <1> QED
    BY <1>3 DEF FoundOf, Busy, Exists

LEMMA ListFound ==
  ASSUME TypeOK, Ids, [Next]_vars, NEW t \in Login, List(t)
  PROVE  FoundOf(t)'
  <1>0. Busy(t) /\ FoundOf(t) /\ login[t].pc = "list"
    BY DEF Ids, Found, List, At, Busy
  <1>1. PICK b \in Attempt :
           /\ login' = [login EXCEPT ![t] = b] /\ SameUser(b, login[t])
           /\ b.list = login[t].list \/ b.list = SessionsNamed(b.user)
           /\ b.victims = login[t].victims
           /\ UNCHANGED <<row, ids, stale>>
    BY ListLogin
  <1>2. login'[t] = b
    BY <1>1, LoginTypes
  <1>3. b.victims = {}
    BY <1>0, <1>1 DEF FoundOf
  <1>4. CASE b.list = login[t].list
    BY <1>0, <1>1, <1>2, <1>3, <1>4, FoundStays DEF SameUser
  <1>5. CASE b.list = SessionsNamed(b.user)
    <2>1. ASSUME NEW x \in b.list
          PROVE  /\ x.id <= ids[x.pk]
                 /\ Exists(x.pk) /\ row[x.pk].id = x.id =>
                       row[x.pk].ctx \in {b.user, None} \/ x.pk \in stale
      <3>1. x.pk \in Pk /\ Exists(x.pk) /\ row[x.pk].name = b.user /\ x.id = row[x.pk].id
        BY <1>5, SeenType
      <3> QED
        BY <3>1 DEF Ids, RowsFit
    <2> QED
      BY <1>1, <1>2, <1>3, <2>1 DEF FoundOf, Busy, Exists
  <1> QED
    BY <1>1, <1>4, <1>5

LEMMA FoundStep ==
  ASSUME TypeOK, Ids, [Next]_vars
  PROVE  Found'
  <1> SUFFICES ASSUME NEW t \in Login PROVE FoundOf(t)'
    BY DEF Found
  <1>0. FoundOf(t)
    BY DEF Ids, Found
  <1>1. CASE login'[t] = None
    BY <1>1 DEF FoundOf, Busy
  <1>2. CASE login'[t] = login[t] /\ login'[t] # None
    <2>1. Busy(t) /\ login[t] \in Attempt
      BY <1>2, BusyFields DEF Busy
    <2> QED
      BY <1>0, <1>2, <2>1, FoundStays DEF FoundOf
  <1>3. ASSUME NEW u \in User, Begin(t, u)
        PROVE  FoundOf(t)'
    <2>1. PICK b \in Attempt : login' = [login EXCEPT ![t] = b] /\ b.list = {} /\ b.victims = {}
      BY <1>3, BeginLogin
    <2> QED
      BY <2>1, LoginTypes DEF FoundOf
  <1>4. CASE Control(t)
    <2>1. PICK b \in Attempt :
             /\ login' = [login EXCEPT ![t] = b] /\ SameUser(b, login[t])
             /\ b.list = login[t].list /\ b.victims = login[t].victims
      BY <1>4, ControlLogin
    <2>2. login'[t] = b /\ Busy(t) /\ login[t].pc = "control"
      BY <1>4, <2>1, LoginTypes DEF Control, At, Busy
    <2> QED
      BY <1>0, <2>1, <2>2, FoundStays DEF FoundOf, SameUser
  <1>5. CASE Count(t)
    <2>1. PICK b \in Attempt :
             /\ login' = [login EXCEPT ![t] = b] /\ SameUser(b, login[t])
             /\ b.list = login[t].list /\ b.victims = login[t].victims
      BY <1>5, CountLogin
    <2>2. login'[t] = b /\ Busy(t) /\ login[t].pc = "count"
      BY <1>5, <2>1, LoginTypes DEF Count, At, Busy
    <2> QED
      BY <1>0, <2>1, <2>2, FoundStays DEF FoundOf, SameUser
  <1>6. CASE Decide(t)
    <2>1. PICK b \in Attempt :
             /\ login' = [login EXCEPT ![t] = b] /\ SameUser(b, login[t])
             /\ b.list = login[t].list /\ b.pc \in {"refused", "kick"}
             /\ \/ b.victims = login[t].victims
                \/ b.victims = Oldest(b.list, Cardinality(b.list) - b.limit + 1)
      BY <1>6, DecideLogin
    <2>2. login'[t] = b
      BY <2>1, LoginTypes
    <2>3. Busy(t)
      BY <1>6 DEF Decide, At, Busy
    <2>4. b.victims \subseteq b.list
      BY <1>0, <2>1, <2>3 DEF Oldest, FoundOf
    <2> QED
      BY <2>1, <2>2, <2>3, <2>4, FoundStays DEF SameUser
  <1>7. CASE Kick(t)
    <2>1. PICK x \in login[t].victims, b \in Attempt :
             /\ login' = [login EXCEPT ![t] = b] /\ SameUser(b, login[t])
             /\ b.list = login[t].list /\ b.victims = login[t].victims \ {x}
             /\ b.pc = IF login[t].victims = {x} THEN "store" ELSE "kick"
      BY <1>7, KickLogin
    <2>2. login'[t] = b /\ Busy(t)
      BY <1>7, <2>1, LoginTypes DEF Kick, At, Busy
    <2>3. b.victims \subseteq b.list /\ b.pc \in {"store", "kick"}
      BY <1>0, <2>1, <2>2 DEF FoundOf
    <2> QED
      BY <2>1, <2>2, <2>3, FoundStays DEF SameUser
  <1>8. CASE Store(t) \/ Leave(t)
    <2>1. login'[t] = None
      BY <1>8, LoginTypes DEF Store, Leave
    <2> QED
      BY <1>1, <2>1
  <1> QED
    BY <1>1, <1>2, <1>3, <1>4, <1>5, <1>6, <1>7, <1>8, ListFound, LoginStays DEF Attempting

LEMMA IdsAlways == Spec => [](TypeOK /\ Ids)
  <1>1. Init => TypeOK /\ Ids
    <2> SUFFICES ASSUME Init PROVE TypeOK /\ Ids
      OBVIOUS
    <2>1. /\ \A p \in Pk : row[p] = None
          /\ \A v \in Visit : visit[v] = None
          /\ \A t \in Login : login[t] = None
      BY DEF Init
    <2>2. Ids
      BY <2>1 DEF Ids, RowsFit, VisitsFit, OwnsFit, Found, FoundOf, Exists, Busy
    <2> QED
      BY <2>2, TypesInit
  <1>2. TypeOK /\ Ids /\ [Next]_vars => (TypeOK /\ Ids)'
    BY TypesStep, RowsFitStep, VisitsFitStep, OwnsFitStep, FoundStep DEF Ids
  <1> QED
    BY <1>1, <1>2, PTL DEF Spec

-----------------------------------------------------------------------------
(* Whose sessions are deleted *)

\* Only the step of the login itself changes it at "kick".
LEMMA WhoKicks ==
  ASSUME TypeOK, [Next]_vars, NEW t \in Login, NEW p \in Pk, Kicks(t, p)
  PROVE  \E x \in login[t].victims : Kick(t) /\ x.pk = p /\ row[p].id = x.id
  <1>1. Kick(t)
    BY LoginStays DEF Kicks, At, Attempting, Begin, Control, Count, List, Decide, Store, Leave
  <1>2. PICK x \in login[t].victims :
           row' = [q \in Pk |-> IF q \in Hit(x) THEN None ELSE row[q]]
    BY <1>1, KickLogin
  <1>3. p \in Hit(x)
    BY <1>2 DEF Kicks, Exists
  <1> QED
    BY <1>1, <1>3 DEF Hit

OwnUserOnly == \A t \in Login, p \in Pk :
                  Kicks(t, p) => row[p].ctx \in {login[t].user, None} \/ p \in stale

LEMMA OwnUserStep == TypeOK /\ Ids /\ [Next]_vars => OwnUserOnly
  <1> SUFFICES ASSUME TypeOK, Ids, [Next]_vars, NEW t \in Login, NEW p \in Pk, Kicks(t, p)
               PROVE  row[p].ctx \in {login[t].user, None} \/ p \in stale
    BY DEF OwnUserOnly
  <1>1. PICK x \in login[t].victims : x.pk = p /\ row[p].id = x.id
    BY WhoKicks
  <1>2. Busy(t) /\ Exists(p)
    BY DEF Kicks, At, Busy
  <1> QED
    BY <1>1, <1>2 DEF Ids, Found, FoundOf

\* A login only deletes sessions of its own user, or of nobody any more:
\* between its look at the list and the deletion a session that somebody else
\* logged in with has got a new id.  An old copy saved over the session brings
\* the old id back.
THEOREM OnlyOwnUsersAreKicked == Spec => KicksOnlyItsOwnUser
  <1>1. [OwnUserOnly]_vars => [\A t \in Login, p \in Pk :
           Kicks(t, p) => row[p].ctx \in {login[t].user, None} \/ p \in stale]_vars
    BY DEF OwnUserOnly
  <1>2. TypeOK /\ Ids /\ [Next]_vars => [OwnUserOnly]_vars
    BY OwnUserStep
  <1> QED
    BY <1>1, <1>2, IdsAlways, PTL DEF Spec, KicksOnlyItsOwnUser

-----------------------------------------------------------------------------
(* Counting *)

LEMMA FiniteRows == ASSUME NEW S \in SUBSET Pk PROVE IsFiniteSet(S) /\ Cardinality(S) \in Nat
  BY PkAssumption, FS_Subset, FS_CardinalityType

LEMMA SmallerRows ==
  ASSUME NEW S \in SUBSET Pk, NEW T \in SUBSET S
  PROVE  Cardinality(T) <= Cardinality(S) /\ Cardinality(S) \in Nat /\ Cardinality(T) \in Nat
  BY FiniteRows, FS_Subset

\* As many sessions as entries of a list that has them all.
LEMMA ListedSize ==
  ASSUME NEW list, IsFiniteSet(list), NEW S, \A p \in S : \E x \in list : x.pk = p
  PROVE  Cardinality(S) <= Cardinality(list) /\ Cardinality(S) \in Nat /\ Cardinality(list) \in Nat
  <1> DEFINE T == {x.pk : x \in list}
             f == [x \in list |-> x.pk]
  <1>1. f \in Surjection(list, T)
    BY DEF Surjection
  <1>2. IsFiniteSet(T) /\ Cardinality(T) <= Cardinality(list)
    BY <1>1, FS_Surjection
  <1>3. S \in SUBSET T
    OBVIOUS
  <1>4. IsFiniteSet(S) /\ Cardinality(S) <= Cardinality(T)
    BY <1>2, <1>3, FS_Subset
  <1>5. Cardinality(S) \in Nat /\ Cardinality(T) \in Nat /\ Cardinality(list) \in Nat
    BY <1>2, <1>4, FS_CardinalityType
  <1> QED
    BY <1>2, <1>4, <1>5

\* A user's list is as long as he has rows.
LEMMA NamedSize ==
  ASSUME TypeOK, NEW u
  PROVE  /\ IsFiniteSet(SessionsNamed(u))
         /\ Cardinality(SessionsNamed(u)) <= Cardinality({p \in Pk : Exists(p) /\ row[p].name = u})
  <1> DEFINE S == {p \in Pk : Exists(p) /\ row[p].name = u}
             f == [p \in S |-> [pk |-> p, id |-> row[p].id, last |-> row[p].last]]
  <1>1. f \in Surjection(S, SessionsNamed(u))
    BY DEF Surjection, SessionsNamed
  <1>2. IsFiniteSet(S)
    BY FiniteRows
  <1> QED
    BY <1>1, <1>2, FS_Surjection

\* A set of times has a first.
LEMMA FirstTime ==
  ASSUME NEW T \in SUBSET Nat, T # {}
  PROVE  \E m \in T : \A k \in T : m <= k
  <1>1. PICK m \in T : \A k \in T : ~ (<<k, m>> \in OpToRel(<, Nat))
    BY NatLessThanWellFounded, WFMin
  <1>2. \A k \in T : ~(k < m)
    BY <1>1 DEF OpToRel
  <1> QED
    BY <1>2

\* The n least recently used ones are n at least: of the others, the first has n before it.
LEMMA OldestSize ==
  ASSUME NEW list \in SUBSET Seen, IsFiniteSet(list), NEW n \in Nat, n <= Cardinality(list)
  PROVE  Cardinality(list \ Oldest(list, n)) <= Cardinality(list) - n
  <1> DEFINE old == Oldest(list, n)
             rest == list \ old
  <1>1. /\ IsFiniteSet(old) /\ IsFiniteSet(rest) /\ Cardinality(list) \in Nat
        /\ Cardinality(old) \in Nat /\ Cardinality(rest) \in Nat
    <2>1. old \in SUBSET list /\ rest \in SUBSET list
      BY DEF Oldest
    <2> QED
      BY <2>1, FS_Subset, FS_CardinalityType
  <1>2. Cardinality(old) + Cardinality(rest) = Cardinality(list)
    <2>1. old \cup rest = list /\ old \cap rest = {}
      BY DEF Oldest
    <2> HIDE DEF old, rest
    <2>2. Cardinality(old \cup rest) = Cardinality(old) + Cardinality(rest) - Cardinality(old \cap rest)
      BY <1>1, FS_Union
    <2>3. Cardinality(old \cap rest) = 0
      BY <2>1, FS_EmptySet
    <2> QED
      BY <1>1, <2>1, <2>2, <2>3
  <1>3. Cardinality(old) >= n
    <2>1. CASE rest = {}
      <3>1. old = list
        BY <2>1 DEF Oldest
      <3> QED
        BY <1>1, <3>1
    <2>2. CASE rest # {}
      <3> DEFINE T == {x.last : x \in rest}
      <3>1. T \in SUBSET Nat /\ T # {}
        <4>1. \A x \in rest : x.last \in 1..MaxClock
          BY SeenFields
        <4>2. \A x \in rest : x.last \in Nat
          BY <4>1, BoundAssumption
        <4> QED
          BY <2>2, <4>2
      <3>2. PICK x \in rest : \A y \in rest : x.last <= y.last
        <4>1. PICK m \in T : \A k \in T : m <= k
          BY <3>1, FirstTime
        <4> QED
          BY <4>1
      <3> DEFINE before == {y \in list : y.last < x.last}
      <3>3. ~(Cardinality(before) < n)
        BY DEF Oldest
      <3>4. before \in SUBSET old
        <4>1. \A y \in list : y.last \in 1..MaxClock /\ x.last \in 1..MaxClock
          BY SeenFields
        <4>2. \A y \in rest : ~(y.last < x.last)
          BY <3>2, <4>1, BoundAssumption
        <4> QED
          BY <4>2
      <3>5. Cardinality(before) <= Cardinality(old) /\ Cardinality(before) \in Nat
        BY <1>1, <3>4, FS_Subset, FS_CardinalityType
      <3> QED
        BY <1>1, <3>3, <3>5
    <2> QED
      BY <2>1, <2>2
  <1> QED
    BY <1>1, <1>2, <1>3

-----------------------------------------------------------------------------
(* The limit of a user *)

Has(t) == SessionsOf(login[t].user)
OwnPk(t) == IF login[t].own = None THEN {} ELSE {login[t].own.pk}

\* The user's sessions that the login is not going to delete.
Spared(t) == {p \in Has(t) : \A x \in login[t].victims : x.pk # p \/ x.id # row[p].id}

LimitOf(t) ==
    Busy(t) /\ t \notin disturbed =>
        /\ login[t].pc \in {"control", "count", "list"} => login[t].limit = 0
        /\ login[t].pc = "decide" =>
              /\ IsFiniteSet(login[t].list)
              /\ 0 < login[t].limit /\ login[t].limit <= Cardinality(login[t].list)
              /\ \A p \in Has(t) : \E x \in login[t].list : x.pk = p /\ x.id = row[p].id
        /\ login[t].pc = "kick" => Cardinality(Spared(t)) < login[t].limit
        /\ login[t].pc = "store" /\ login[t].limit > 0 =>
              Cardinality(Has(t) \ OwnPk(t)) < login[t].limit

Limits == \A t \in Login : LimitOf(t)

\* A login that has been disturbed, or crowded, stays so until it ends.
LEMMA StaysDisturbed ==
  ASSUME TypeOK, [Next]_vars, NEW t \in Login, login'[t] # None
  PROVE  (t \in disturbed => t \in disturbed') /\ (t \in crowded => t \in crowded')
  <1>1. CASE UNCHANGED vars
    BY <1>1 DEF vars
  <1>2. ASSUME NEW s \in Login, Attempting(s)
        PROVE  (t \in disturbed => t \in disturbed') /\ (t \in crowded => t \in crowded')
    <2>1. CASE Store(s) \/ Leave(s)
      <3>1. login'[s] = None
        BY <2>1, LoginTypes DEF Store, Leave
      <3> QED
        BY <2>1, <3>1 DEF Store, Leave
    <2>2. CASE \E u \in User : Begin(s, u)
      BY <2>2 DEF Begin, history
    <2>3. CASE Control(s) \/ Kick(s)
      BY <2>3 DEF Control, Kick, Goes, history
    <2>4. CASE Count(s) \/ Decide(s)
      BY <2>4, CountLogin, DecideLogin DEF history
    <2>5. CASE List(s)
      <3>1. /\ disturbed' = disturbed \/ disturbed' = disturbed \cup {s}
            /\ crowded' = crowded
        BY <2>5, ListLogin
      <3> QED
        BY <3>1
    <2> QED
      BY <1>2, <2>1, <2>2, <2>3, <2>4, <2>5 DEF Attempting
  <1>3. ASSUME NEW v \in Visit, Save(v) \/ \E p \in Pk : Load(v, p)
        PROVE  (t \in disturbed => t \in disturbed') /\ (t \in crowded => t \in crowded')
    BY <1>3 DEF Save, Load, history
  <1>4. ASSUME NEW p \in Pk, Remove(p) \/ Expire(p)
        PROVE  (t \in disturbed => t \in disturbed') /\ (t \in crowded => t \in crowded')
    BY <1>4 DEF Remove, Expire, history
  <1>5. CASE ChangePolicy
    BY <1>5 DEF ChangePolicy
  <1> QED
    BY <1>1, <1>2, <1>3, <1>4, <1>5 DEF Next

\* A session that has a user after a copy was saved had him before.
LEMMA SavedUser ==
  ASSUME TypeOK, NEW c \in Copy, NEW w, Saving(c, w), NEW p \in Pk, NEW u \in User,
         row'[p] # None, row'[p].ctx = u
  PROVE  /\ row[p] # None /\ row[p].ctx = u
         /\ row'[p].id # row[p].id => p = c.pk /\ IsOld(c)
  <1>1. w \in {c.ctx, None} /\ SaveCopy(c, w)
    BY DEF Saving
  <1>2. CASE p = c.pk /\ Exists(p)
    <2>1. row'[p].id = c.id /\ row'[p].ctx = IF w = c.ctx THEN row[p].ctx ELSE None
      BY <1>1, <1>2, SavedRows
    <2>2. row'[p].ctx = row[p].ctx
      BY <2>1, NoneAssumption
    <2> QED
      BY <1>2, <2>1, <2>2 DEF Exists, IsOld
  <1>3. CASE p # c.pk \/ ~Exists(p)
    <2>1. row'[p] = row[p]
      BY <1>1, <1>3, SavedRows
    <2> QED
      BY <2>1
  <1> QED
    BY <1>2, <1>3

\* While a login is not disturbed its user gets no session and none of his
\* sessions gets another id.
LEMMA Undisturbed ==
  ASSUME TypeOK, [Next]_vars, NEW t \in Login, Busy(t), login'[t] # None, t \notin disturbed'
  PROVE  /\ t \notin disturbed
         /\ \A p \in Pk : row'[p] # None /\ row'[p].ctx = login[t].user =>
               row[p] # None /\ row[p].ctx = login[t].user /\ row'[p].id = row[p].id
  <1>0. t \notin disturbed
    BY StaysDisturbed
  <1> SUFFICES ASSUME NEW p \in Pk, row'[p] # None, row'[p].ctx = login[t].user
               PROVE  row[p] # None /\ row[p].ctx = login[t].user /\ row'[p].id = row[p].id
    BY <1>0
  <1>1. CASE Fewer
    BY <1>1 DEF Fewer
  <1>2. ASSUME NEW s \in Login, Store(s)
        PROVE  row'[p] = row[p]
    <2>1. login'[s] = None
      BY <1>2, LoginTypes DEF Store
    <2>2. s # t
      BY <2>1
    <2>3. login[s].user # login[t].user
      BY <1>2, <2>2 DEF Store, Others, Busy
    <2> QED
      BY <1>2, <2>3, StoredRows
  <1>3. ASSUME NEW c \in Copy, NEW w, Saving(c, w)
        PROVE  row[p] # None /\ row[p].ctx = login[t].user /\ row'[p].id = row[p].id
    <2>1. login[t].user \in User
      BY BusyFields, AttemptFields
    <2>2. /\ row[p] # None /\ row[p].ctx = login[t].user
          /\ row'[p].id # row[p].id => p = c.pk /\ IsOld(c)
      BY <1>3, <2>1, SavedUser
    <2>3. p = c.pk => ~IsOld(c)
      BY <1>3, <2>2 DEF Saving, Disturbs, Busy
    <2> QED
      BY <2>2, <2>3
  <1> QED
    BY <1>1, <1>2, <1>3, RowKinds

\* The same for a login that goes on for its user: he has no more than he had.
LEMMA HasNoMore ==
  ASSUME TypeOK, [Next]_vars, NEW t \in Login, Busy(t), login'[t] # None, t \notin disturbed',
         login'[t].user = login[t].user
  PROVE  /\ t \notin disturbed
         /\ Has(t) \in SUBSET Pk /\ Has(t)' \in SUBSET Has(t)
         /\ \A p \in Has(t)' : row'[p].id = row[p].id
  BY Undisturbed DEF Has, SessionsOf, Exists

LEMMA LimitStays ==
  ASSUME TypeOK, [Next]_vars, NEW t \in Login, LimitOf(t), login'[t] = login[t]
  PROVE  LimitOf(t)'
  <1> SUFFICES ASSUME Busy(t)', t \notin disturbed'
               PROVE  LimitOf(t)'
    BY DEF LimitOf
  <1>1. Busy(t) /\ login[t] \in Attempt
    BY BusyFields DEF Busy
  <1>2. /\ t \notin disturbed /\ Has(t) \in SUBSET Pk /\ Has(t)' \in SUBSET Has(t)
        /\ \A p \in Has(t)' : row'[p].id = row[p].id
    BY <1>1, HasNoMore DEF Busy
  <1>3. login[t].limit \in Nat
    BY <1>1, AttemptFields
  <1>4. Spared(t)' \in SUBSET Spared(t) /\ Spared(t) \in SUBSET Pk
    BY <1>2 DEF Spared
  <1>5. OwnPk(t)' = OwnPk(t)
    BY DEF OwnPk
  <1>6. /\ (Has(t) \ OwnPk(t))' \in SUBSET (Has(t) \ OwnPk(t))
        /\ Has(t) \ OwnPk(t) \in SUBSET Pk
    BY <1>2, <1>5
  <1>7. login[t].pc = "kick" => Cardinality(Spared(t)') < login[t].limit
    <2>1. Cardinality(Spared(t)') <= Cardinality(Spared(t)) /\ Cardinality(Spared(t)') \in Nat
          /\ Cardinality(Spared(t)) \in Nat
      BY <1>4, SmallerRows
    <2> QED
      BY <1>1, <1>2, <1>3, <2>1 DEF LimitOf
  <1>8. login[t].pc = "store" /\ login[t].limit > 0 =>
           Cardinality((Has(t) \ OwnPk(t))') < login[t].limit
    <2> DEFINE S == Has(t) \ OwnPk(t)
               T == (Has(t) \ OwnPk(t))'
    <2>1. S \in SUBSET Pk /\ T \in SUBSET S
      BY <1>6
    <2>2. login[t].pc = "store" /\ login[t].limit > 0 => Cardinality(S) < login[t].limit
      BY <1>1, <1>2 DEF LimitOf
    <2> HIDE DEF S, T
    <2>3. Cardinality(T) <= Cardinality(S) /\ Cardinality(S) \in Nat /\ Cardinality(T) \in Nat
      BY <2>1, SmallerRows
    <2>4. login[t].pc = "store" /\ login[t].limit > 0 => Cardinality(T) < login[t].limit
      BY <1>3, <2>2, <2>3
    <2> QED
      BY <2>4 DEF T
  <1>9. login[t].pc = "decide" =>
           \A p \in Has(t)' : \E x \in login[t].list : x.pk = p /\ x.id = row'[p].id
    BY <1>1, <1>2 DEF LimitOf
  <1> QED
    BY <1>1, <1>2, <1>7, <1>8, <1>9 DEF LimitOf

\* A login that ends without success has no limit to keep.
LEMMA GivenUpLimit ==
  ASSUME NEW t \in Login, login'[t].pc \in {"refused", "failed"}
  PROVE  LimitOf(t)'
  BY DEF LimitOf

\* A login that has found as many sessions as are allowed, or fewer.
LEMMA ListLimit ==
  ASSUME TypeOK, [Next]_vars, NEW t \in Login, List(t), login'[t].pc # "failed"
  PROVE  LimitOf(t)'
  <1> SUFFICES ASSUME Busy(t)', t \notin disturbed'
               PROVE  LimitOf(t)'
    BY DEF LimitOf
  <1>1. PICK b \in Attempt :
           /\ login' = [login EXCEPT ![t] = b] /\ SameUser(b, login[t])
           /\ b.limit = policy.user /\ b.list = SessionsNamed(b.user)
           /\ b.pc = IF Enough(t, b.list) THEN "store" ELSE "decide"
           /\ policy.user \in Nat /\ ~Hidden(b.user) /\ row' = row
    BY ListLogin, LoginTypes DEF SameUser
  <1> DEFINE u == b.user
             S == SessionsOf(u)
             list == b.list
             limit == b.limit
  <1>2. login'[t] = b
    BY <1>1, LoginTypes
  <1>3. S \in SUBSET Pk /\ \A p \in S : \E x \in list : x.pk = p /\ x.id = row[p].id
    <2>1. S \in SUBSET Pk /\ \A p \in S : Exists(p) /\ row[p].name = u
      BY <1>1 DEF Hidden, SessionsOf
    <2> QED
      BY <1>1, <2>1, SeenType
  <1>4. IsFiniteSet(list) /\ Cardinality(S) <= Cardinality(list)
        /\ Cardinality(S) \in Nat /\ Cardinality(list) \in Nat /\ limit \in Nat
    <2>1. IsFiniteSet(list)
      BY <1>1, NamedSize
    <2> QED
      BY <1>1, <1>3, <2>1, ListedSize
  <1>5. Has(t)' = S /\ row' = row
    BY <1>1, <1>2 DEF Has, SessionsOf, Exists
  <1>6. b.pc = "decide" => 0 < limit /\ limit <= Cardinality(list)
    BY <1>1, <1>4 DEF Enough, Below
  <1>7. ASSUME b.pc = "store", limit > 0
        PROVE  Cardinality((Has(t) \ OwnPk(t))') < limit
    <2> DEFINE T == (Has(t) \ OwnPk(t))'
    <2>1. T \in SUBSET S
      BY <1>5
    <2>2. CASE Below(list, limit)
      <3>1. Cardinality(T) <= Cardinality(S) /\ Cardinality(T) \in Nat
        BY <1>3, <2>1, SmallerRows
      <3>2. Cardinality(list) < limit
        BY <2>2 DEF Below
      <3> HIDE DEF T
      <3>3. Cardinality(T) < limit
        BY <1>4, <3>1, <3>2
      <3> QED
        BY <3>3 DEF T
    <2>3. CASE Cardinality(list) = limit /\ OwnIsListed(t, list)
      <3>1. PICK x \in list : b.own # None /\ x.pk = b.own.pk
        BY <1>1, <2>3 DEF OwnIsListed, SameUser
      <3>2. OwnPk(t)' = {x.pk}
        BY <1>2, <3>1 DEF OwnPk
      <3>3. \A p \in T : \E y \in list \ {x} : y.pk = p
        BY <1>3, <2>1, <3>2
      <3>4. IsFiniteSet(list \ {x}) /\ Cardinality(list \ {x}) = Cardinality(list) - 1
        BY <1>4, <3>1, FS_RemoveElement
      <3> HIDE DEF T
      <3>5. Cardinality(T) <= Cardinality(list \ {x}) /\ Cardinality(T) \in Nat
        BY <3>3, <3>4, ListedSize
      <3>6. Cardinality(T) < limit
        BY <1>4, <2>3, <3>4, <3>5
      <3> QED
        BY <3>6 DEF T
    <2> QED
      BY <1>1, <1>7, <2>2, <2>3 DEF Enough
  <1> HIDE DEF list, limit, S
  <1>8. login'[t].pc \in {"store", "decide"} /\ login'[t].limit = limit /\ login'[t].list = list
    BY <1>1, <1>2 DEF list, limit
  <1> QED
    BY <1>2, <1>3, <1>4, <1>5, <1>6, <1>7, <1>8 DEF LimitOf

LEMMA DecideLimit ==
  ASSUME TypeOK, [Next]_vars, NEW t \in Login, LimitOf(t), Decide(t), login'[t].pc # "refused"
  PROVE  LimitOf(t)'
  <1> SUFFICES ASSUME Busy(t)', t \notin disturbed'
               PROVE  LimitOf(t)'
    BY DEF LimitOf
  <1>0. Busy(t) /\ login[t] \in Attempt /\ login[t].pc = "decide"
    BY BusyFields DEF Decide, At, Busy
  <1>1. PICK b \in Attempt :
           /\ login' = [login EXCEPT ![t] = b] /\ SameUser(b, login[t]) /\ b.pc = "kick"
           /\ b.limit = login[t].limit /\ b.list = login[t].list
           /\ b.victims = Oldest(b.list, Cardinality(b.list) - b.limit + 1)
           /\ row' = row
    BY DecideLogin, LoginTypes
  <1>2. login'[t] = b
    BY <1>1, LoginTypes
  <1>3. t \notin disturbed
    BY StaysDisturbed DEF Busy
  <1> DEFINE list == b.list
             limit == b.limit
             n == Cardinality(list) - limit + 1
             rest == list \ Oldest(list, n)
             S == Spared(t)'
  <1>4. /\ list \in SUBSET Seen /\ IsFiniteSet(list) /\ limit \in Nat /\ 0 < limit
        /\ limit <= Cardinality(list) /\ Cardinality(list) \in Nat
        /\ \A p \in Has(t) : \E x \in list : x.pk = p /\ x.id = row[p].id
    <2>1. list \in SUBSET Seen /\ limit \in Nat
      BY AttemptFields
    <2>2. /\ IsFiniteSet(list) /\ 0 < limit /\ limit <= Cardinality(list)
          /\ \A p \in Has(t) : \E x \in list : x.pk = p /\ x.id = row[p].id
      BY <1>0, <1>1, <1>3 DEF LimitOf
    <2> QED
      BY <2>1, <2>2, FS_CardinalityType
  <1>5. \A p \in S : \E x \in rest : x.pk = p
    <2>1. \A p \in S : p \in Has(t) /\ \A x \in b.victims : x.pk # p \/ x.id # row[p].id
      BY <1>1, <1>2 DEF Spared, Has, SessionsOf, Exists, SameUser
    <2>2. b.victims = Oldest(list, n)
      BY <1>1
    <2> QED
      BY <1>4, <2>1, <2>2
  <1> HIDE DEF S, list, limit
  <1>6. n \in Nat /\ n <= Cardinality(list)
    BY <1>4
  <1>7. Cardinality(rest) <= Cardinality(list) - n /\ IsFiniteSet(rest)
    <2>1. rest \in SUBSET list
      OBVIOUS
    <2> HIDE DEF n
    <2> QED
      BY <1>4, <1>6, <2>1, OldestSize, FS_Subset
  <1> HIDE DEF rest
  <1>8. Cardinality(S) <= Cardinality(rest) /\ Cardinality(S) \in Nat /\ Cardinality(rest) \in Nat
    BY <1>5, <1>7, ListedSize
  <1>9. Cardinality(S) < limit
    BY <1>4, <1>7, <1>8
  <1> QED
    BY <1>1, <1>2, <1>9 DEF LimitOf, S, limit

LEMMA KickLimit ==
  ASSUME TypeOK, [Next]_vars, NEW t \in Login, LimitOf(t), Kick(t)
  PROVE  LimitOf(t)'
  <1> SUFFICES ASSUME Busy(t)', t \notin disturbed'
               PROVE  LimitOf(t)'
    BY DEF LimitOf
  <1>0. Busy(t) /\ login[t] \in Attempt /\ login[t].pc = "kick"
    BY BusyFields DEF Kick, At, Busy
  <1>1. PICK x \in login[t].victims, b \in Attempt :
           /\ login' = [login EXCEPT ![t] = b] /\ SameUser(b, login[t])
           /\ b.pc = IF login[t].victims = {x} THEN "store" ELSE "kick"
           /\ b.limit = login[t].limit /\ b.victims = login[t].victims \ {x}
           /\ row' = [p \in Pk |-> IF p \in Hit(x) THEN None ELSE row[p]]
    BY KickLogin
  <1>2. login'[t] = b /\ b.user = login[t].user
    BY <1>1, LoginTypes DEF SameUser
  <1>3. /\ t \notin disturbed /\ Has(t) \in SUBSET Pk /\ Has(t)' \in SUBSET Has(t)
        /\ \A p \in Has(t)' : row'[p].id = row[p].id
    BY <1>0, <1>2, HasNoMore DEF Busy
  <1>4. Spared(t)' \in SUBSET Spared(t) /\ Spared(t) \in SUBSET Pk
    <2>1. ASSUME NEW p \in Spared(t)'
          PROVE  p \in Spared(t)
      <3>1. p \in Has(t)' /\ \A y \in b.victims : y.pk # p \/ y.id # row'[p].id
        BY <1>2, <2>1 DEF Spared
      <3>2. p \in Has(t) /\ row'[p].id = row[p].id /\ row'[p] # None /\ p \in Pk
        BY <1>3, <3>1 DEF Has, SessionsOf, Exists
      <3>3. x.pk # p \/ x.id # row[p].id
        BY <1>1, <1>3, <3>2 DEF Hit, Has, SessionsOf, Exists
      <3> QED
        BY <1>1, <3>1, <3>2, <3>3 DEF Spared
    <2> QED
      BY <1>3, <2>1 DEF Spared
  <1>5. Cardinality(Spared(t)) < b.limit /\ b.limit \in Nat
    BY <1>0, <1>1, <1>3, AttemptFields DEF LimitOf
  <1>6. Cardinality(Spared(t)') < b.limit
    <2>1. Cardinality(Spared(t)') <= Cardinality(Spared(t)) /\ Cardinality(Spared(t)') \in Nat
          /\ Cardinality(Spared(t)) \in Nat
      BY <1>4, SmallerRows
    <2> QED
      BY <1>5, <2>1
  <1>7. ASSUME b.pc = "store"
        PROVE  Cardinality((Has(t) \ OwnPk(t))') < b.limit
    <2> DEFINE T == (Has(t) \ OwnPk(t))'
    <2>1. b.victims = {}
      BY <1>1, <1>7
    <2>2. T \in SUBSET Spared(t)'
      BY <1>2, <2>1 DEF Spared
    <2>3. Spared(t)' \in SUBSET Pk
      BY <1>4
    <2> HIDE DEF T
    <2>4. Cardinality(T) <= Cardinality(Spared(t)') /\ Cardinality(T) \in Nat
          /\ Cardinality(Spared(t)') \in Nat
      BY <2>2, <2>3, SmallerRows
    <2>5. Cardinality(T) < b.limit
      BY <1>5, <1>6, <2>4
    <2> QED
      BY <2>5 DEF T
  <1>8. b.pc \in {"store", "kick"}
    BY <1>1
  <1> QED
    BY <1>2, <1>6, <1>7, <1>8 DEF LimitOf

LEMMA LimitsStep ==
  ASSUME TypeOK, Limits, [Next]_vars
  PROVE  Limits'
  <1> SUFFICES ASSUME NEW t \in Login, login'[t] # None PROVE LimitOf(t)'
    BY DEF Limits, LimitOf, Busy
  <1>0. LimitOf(t)
    BY DEF Limits
  <1>1. ASSUME NEW u \in User, Begin(t, u)
        PROVE  LimitOf(t)'
    <2>1. PICK b \in Attempt : login' = [login EXCEPT ![t] = b] /\ b.pc = "control" /\ b.limit = 0
      BY <1>1, BeginLogin
    <2> QED
      BY <2>1, LoginTypes DEF LimitOf
  <1>2. CASE Control(t)
    <2>1. PICK b \in Attempt :
             /\ login' = [login EXCEPT ![t] = b] /\ b.pc \in {"count", "store"}
             /\ b.limit = login[t].limit
      BY <1>2, ControlLogin
    <2>2. login'[t] = b
      BY <2>1, LoginTypes
    <2>3. t \notin disturbed' => b.limit = 0
      BY <1>0, <1>2, <2>1, StaysDisturbed DEF LimitOf, Control, At, Busy
    <2> QED
      BY <2>1, <2>2, <2>3 DEF LimitOf
  <1>3. CASE Count(t)
    <2>1. PICK b \in Attempt :
             /\ login' = [login EXCEPT ![t] = b] /\ b.pc \in {"list", "refused", "failed"}
             /\ b.limit = login[t].limit
      BY <1>3, CountLogin
    <2>2. login'[t] = b
      BY <2>1, LoginTypes
    <2>3. t \notin disturbed' => b.limit = 0
      BY <1>0, <1>3, <2>1, StaysDisturbed DEF LimitOf, Count, At, Busy
    <2> QED
      BY <2>1, <2>2, <2>3 DEF LimitOf
  <1>4. CASE Store(t) \/ Leave(t)
    BY <1>4, LoginTypes DEF Store, Leave
  <1>5. CASE List(t) \/ Decide(t)
    BY <1>0, <1>5, ListLimit, DecideLimit, GivenUpLimit
  <1> QED
    BY <1>0, <1>1, <1>2, <1>3, <1>4, <1>5, KickLimit, LimitStays, LoginStays DEF Attempting

LEMMA LimitsAlways == Spec => [](TypeOK /\ Limits)
  <1>1. Init => TypeOK /\ Limits
    <2> SUFFICES ASSUME Init PROVE TypeOK /\ Limits
      OBVIOUS
    <2>1. \A t \in Login : login[t] = None
      BY DEF Init
    <2> QED
      BY <2>1, TypesInit DEF Limits, LimitOf, Busy
  <1>2. TypeOK /\ Limits /\ [Next]_vars => (TypeOK /\ Limits)'
    BY TypesStep, LimitsStep
  <1> QED
    BY <1>1, <1>2, PTL DEF Spec

\* Only the step of the login itself stores it.
LEMMA WhoStores ==
  ASSUME TypeOK, [Next]_vars, NEW t \in Login, Stores(t)
  PROVE  Store(t) /\ Busy(t) /\ login[t].pc = "store" /\ login[t] \in Attempt
  <1>1. Busy(t) /\ login[t].pc = "store" /\ login'[t] # login[t]
    BY DEF Stores, At, Busy
  <1>2. Store(t)
    BY <1>1, LoginStays DEF At, Busy, Attempting, Begin, Control, Count, List, Decide, Kick, Leave
  <1> QED
    BY <1>1, <1>2, BusyFields

LEMMA OneMore ==
  ASSUME NEW S \in SUBSET Pk, NEW p, NEW T \in SUBSET (S \cup {p}), NEW n \in Nat,
         Cardinality(S) < n
  PROVE  Cardinality(T) <= n
  <1>1. IsFiniteSet(S) /\ Cardinality(S) \in Nat
    BY FiniteRows
  <1>2. /\ IsFiniteSet(S \cup {p})
        /\ Cardinality(S \cup {p}) = IF p \in S THEN Cardinality(S) ELSE Cardinality(S) + 1
    BY <1>1, FS_AddElement
  <1>3. Cardinality(T) <= Cardinality(S \cup {p}) /\ Cardinality(T) \in Nat
    BY <1>2, FS_Subset, FS_CardinalityType
  <1> QED
    BY <1>1, <1>2, <1>3

LimitKept(t) ==
    Stores(t) /\ login[t].limit > 0 /\ t \notin disturbed =>
        Cardinality({p \in Pk : row'[p] # None /\ row'[p].ctx = login[t].user}) <= login[t].limit

LEMMA LimitKeptStep ==
  ASSUME TypeOK, Limits, [Next]_vars, NEW t \in Login
  PROVE  LimitKept(t)
  <1> SUFFICES ASSUME Stores(t), login[t].limit > 0, t \notin disturbed
               PROVE  Cardinality({p \in Pk : row'[p] # None /\ row'[p].ctx = login[t].user})
                         <= login[t].limit
    BY DEF LimitKept
  <1> DEFINE limit == login[t].limit
             S == Has(t) \ OwnPk(t)
             T == {p \in Pk : row'[p] # None /\ row'[p].ctx = login[t].user}
  <1>1. Store(t) /\ Busy(t) /\ login[t].pc = "store" /\ limit \in Nat
    BY WhoStores, AttemptFields
  <1>2. Cardinality(S) < limit /\ S \in SUBSET Pk
    BY <1>1 DEF Limits, LimitOf, Has, SessionsOf
  <1>3. PICK p : T \in SUBSET (S \cup {p})
    <2>1. CASE row' = row /\ login[t].own # None /\ ~Exists(login[t].own.pk)
      <3>1. T \in SUBSET S
        BY <2>1 DEF Has, SessionsOf, OwnPk, Exists
      <3> QED
        BY <3>1
    <2>2. ASSUME NEW p \in Pk, \A q \in Pk \ {p} : row'[q] = row[q],
                 IF login[t].own # None THEN p = login[t].own.pk ELSE ids[p] = 0
          PROVE  T \in SUBSET (S \cup {p})
      BY <2>2 DEF Has, SessionsOf, OwnPk, Exists
    <2>3. \/ row' = row /\ login[t].own # None /\ ~Exists(login[t].own.pk)
          \/ \E p \in Pk :
               /\ \A q \in Pk \ {p} : row'[q] = row[q]
               /\ IF login[t].own # None THEN p = login[t].own.pk ELSE ids[p] = 0
      BY <1>1, StoredRows
    <2> HIDE DEF S, T
    <2> QED
      BY ONLY <2>1, <2>2, <2>3
  <1> HIDE DEF S, T, limit
  <1>4. Cardinality(T) <= limit
    BY <1>1, <1>2, <1>3, OneMore
  <1> QED
    BY <1>4 DEF T, limit

\* A login that read a limit for its user leaves the user with no more
\* sessions than that, whatever else goes on, unless another login of the same
\* user, or an old copy of one of the user's sessions, was stored meanwhile.
THEOREM UserLimitHolds == Spec => UserLimitUnlessDisturbed
  <1>1. (\A t \in Login : LimitKept(t)) =>
           [\A t \in Login : Stores(t) /\ login[t].limit > 0 /\ t \notin disturbed =>
              Cardinality({p \in Pk : row'[p] # None /\ row'[p].ctx = login[t].user})
                 <= login[t].limit]_vars
    BY DEF LimitKept
  <1>2. TypeOK /\ Limits /\ [Next]_vars => \A t \in Login : LimitKept(t)
    BY LimitKeptStep
  <1> QED
    BY <1>1, <1>2, LimitsAlways, PTL DEF Spec, UserLimitUnlessDisturbed

-----------------------------------------------------------------------------
(* The limit of the system *)

RoomOf(t) ==
    Busy(t) /\ t \notin crowded =>
        /\ login[t].pc \in {"control", "count"} => login[t].max = 0
        /\ login[t].max > 0 => Cardinality(Live) < login[t].max

Room == \A t \in Login : RoomOf(t)

\* While a login is not crowded no session comes to live.
LEMMA NoMoreLive ==
  ASSUME TypeOK, [Next]_vars, NEW t \in Login, Busy(t), login'[t] # None, t \notin crowded'
  PROVE  t \notin crowded /\ Live \in SUBSET Pk /\ Live' \in SUBSET Live
  <1>0. t \notin crowded
    BY StaysDisturbed
  <1> SUFFICES ASSUME NEW p \in Pk, row'[p] # None, ~row'[p].expired
               PROVE  row[p] # None /\ ~row[p].expired
    BY <1>0 DEF Live, Exists
  <1>1. CASE Fewer
    BY <1>1 DEF Fewer
  <1>2. ASSUME NEW s \in Login, Store(s)
        PROVE  FALSE
    <2>1. login'[s] = None
      BY <1>2, LoginTypes DEF Store
    <2> QED
      BY <1>2, <2>1 DEF Store, Busy
  <1>3. ASSUME NEW c \in Copy, NEW w, Saving(c, w)
        PROVE  row[p] # None /\ ~row[p].expired
    <2>1. CASE p = c.pk /\ Exists(p)
      BY <1>3, <2>1 DEF Saving, Crowds, Busy, Exists
    <2>2. CASE p # c.pk \/ ~Exists(p)
      <3>1. row'[p] = row[p]
        BY <1>3, <2>2, SavedRows DEF Saving
      <3> QED
        BY <3>1
    <2> QED
      BY <2>1, <2>2
  <1> QED
    BY <1>1, <1>2, <1>3, RowKinds

LEMMA RoomStays ==
  ASSUME TypeOK, [Next]_vars, NEW t \in Login, RoomOf(t), Busy(t), login'[t] # None,
         login'[t].max = login[t].max,
         login'[t].pc \in {"control", "count"} => login[t].pc \in {"control", "count"}
  PROVE  RoomOf(t)'
  <1> SUFFICES ASSUME t \notin crowded'
               PROVE  RoomOf(t)'
    BY DEF RoomOf
  <1>1. t \notin crowded /\ Live \in SUBSET Pk /\ Live' \in SUBSET Live
    BY NoMoreLive
  <1>2. Cardinality(Live') <= Cardinality(Live) /\ Cardinality(Live') \in Nat /\ Cardinality(Live) \in Nat
    BY <1>1, SmallerRows
  <1>3. login[t].max \in Nat
    BY BusyFields, AttemptFields
  <1>4. login[t].max > 0 => Cardinality(Live) < login[t].max
    BY <1>1 DEF RoomOf
  <1>5. login[t].max > 0 => Cardinality(Live') < login[t].max
    BY <1>2, <1>3, <1>4
  <1> QED
    BY <1>1, <1>5 DEF RoomOf

LEMMA RoomStep ==
  ASSUME TypeOK, Room, [Next]_vars
  PROVE  Room'
  <1> SUFFICES ASSUME NEW t \in Login, login'[t] # None PROVE RoomOf(t)'
    BY DEF Room, RoomOf, Busy
  <1>0. RoomOf(t)
    BY DEF Room
  <1>1. ASSUME NEW u \in User, Begin(t, u)
        PROVE  RoomOf(t)'
    <2>1. PICK b \in Attempt : login' = [login EXCEPT ![t] = b] /\ b.max = 0
      BY <1>1, BeginLogin
    <2>2. login'[t].max = 0
      BY <2>1, LoginTypes
    <2>3. ~(login'[t].max > 0)
      BY <2>2
    <2> QED
      BY <2>2, <2>3 DEF RoomOf
  <1>2. CASE Control(t)
    <2>1. PICK b \in Attempt : login' = [login EXCEPT ![t] = b] /\ b.max = login[t].max
      BY <1>2, ControlLogin
    <2>2. login'[t] = b /\ Busy(t) /\ login[t].pc = "control"
      BY <1>2, <2>1, LoginTypes DEF Control, At, Busy
    <2> QED
      BY <1>0, <2>1, <2>2, RoomStays
  <1>3. CASE Count(t)
    <2>1. PICK b \in Attempt :
             /\ login' = [login EXCEPT ![t] = b] /\ row' = row
             /\ \/ b.pc \in {"refused", "failed"} /\ b.max = login[t].max
                \/ /\ b.pc = "list" /\ b.max = policy.max /\ policy.max \in Nat
                   /\ policy.max > 0 => ~(Cardinality(Live) >= policy.max)
      BY <1>3, CountLogin
    <2>2. login'[t] = b /\ Busy(t)
      BY <1>3, <2>1, LoginTypes DEF Count, At, Busy
    <2>3. CASE b.pc = "list"
      <3>1. Live' = Live /\ Cardinality(Live) \in Nat
        BY <2>1, FiniteRows DEF Live, Exists
      <3>2. b.max > 0 => Cardinality(Live) < b.max
        BY <2>1, <2>3, <3>1
      <3> QED
        BY <2>2, <2>3, <3>1, <3>2 DEF RoomOf
    <2>4. CASE b.pc # "list"
      BY <1>0, <2>1, <2>2, <2>4, RoomStays
    <2> QED
      BY <2>3, <2>4
  <1>4. CASE List(t) \/ Decide(t) \/ Kick(t)
    <2>1. PICK b \in Attempt :
             /\ login' = [login EXCEPT ![t] = b] /\ b.max = login[t].max
             /\ b.pc \in {"store", "decide", "kick", "refused", "failed"}
      BY <1>4, ListLogin, DecideLogin, KickLogin
    <2>2. login'[t] = b /\ Busy(t)
      BY <1>4, <2>1, LoginTypes DEF List, Decide, Kick, At, Busy
    <2> QED
      BY <1>0, <2>1, <2>2, RoomStays
  <1>5. CASE Store(t) \/ Leave(t)
    BY <1>5, LoginTypes DEF Store, Leave
  <1>6. CASE login'[t] = login[t]
    BY <1>0, <1>6, RoomStays DEF Busy
  <1> QED
    BY <1>1, <1>2, <1>3, <1>4, <1>5, <1>6, LoginStays DEF Attempting

LEMMA RoomAlways == Spec => [](TypeOK /\ Room)
  <1>1. Init => TypeOK /\ Room
    <2> SUFFICES ASSUME Init PROVE TypeOK /\ Room
      OBVIOUS
    <2>1. \A t \in Login : login[t] = None
      BY DEF Init
    <2> QED
      BY <2>1, TypesInit DEF Room, RoomOf, Busy
  <1>2. TypeOK /\ Room /\ [Next]_vars => (TypeOK /\ Room)'
    BY TypesStep, RoomStep
  <1> QED
    BY <1>1, <1>2, PTL DEF Spec

RoomKept(t) ==
    Stores(t) /\ login[t].max > 0 /\ t \notin crowded =>
        Cardinality({p \in Pk : row'[p] # None /\ ~row'[p].expired}) <= login[t].max

LEMMA RoomKeptStep ==
  ASSUME TypeOK, Room, [Next]_vars, NEW t \in Login
  PROVE  RoomKept(t)
  <1> SUFFICES ASSUME Stores(t), login[t].max > 0, t \notin crowded
               PROVE  Cardinality({p \in Pk : row'[p] # None /\ ~row'[p].expired}) <= login[t].max
    BY DEF RoomKept
  <1> DEFINE max == login[t].max
             S == Live
             T == {p \in Pk : row'[p] # None /\ ~row'[p].expired}
  <1>1. Store(t) /\ Busy(t) /\ max \in Nat
    BY WhoStores, AttemptFields
  <1>2. Cardinality(S) < max /\ S \in SUBSET Pk
    BY <1>1 DEF Room, RoomOf, Live
  <1>3. PICK p : T \in SUBSET (S \cup {p})
    <2>1. CASE row' = row
      BY <2>1 DEF Live, Exists
    <2>2. ASSUME NEW p \in Pk, \A q \in Pk \ {p} : row'[q] = row[q]
          PROVE  T \in SUBSET (S \cup {p})
      BY <2>2 DEF Live, Exists
    <2> QED
      BY <1>1, <2>1, <2>2, StoredRows
  <1> HIDE DEF S, T, max
  <1>4. Cardinality(T) <= max
    BY <1>1, <1>2, <1>3, OneMore
  <1> QED
    BY <1>4 DEF T, max

\* A login that read a limit for the system leaves no more live sessions than
\* that, unless another login added one, or a request brought a timed-out one
\* back, after the login began.
THEOREM SystemLimitHolds == Spec => SystemLimitUnlessCrowded
  <1>1. (\A t \in Login : RoomKept(t)) =>
           [\A t \in Login : Stores(t) /\ login[t].max > 0 /\ t \notin crowded =>
              Cardinality({p \in Pk : row'[p] # None /\ ~row'[p].expired}) <= login[t].max]_vars
    BY DEF RoomKept
  <1>2. TypeOK /\ Room /\ [Next]_vars => \A t \in Login : RoomKept(t)
    BY RoomKeptStep
  <1> QED
    BY <1>1, <1>2, RoomAlways, PTL DEF Spec, SystemLimitUnlessCrowded

-----------------------------------------------------------------------------
(* The own session of a login *)

\* The user's limit has been read and is too small.
Over(a) == a.pc \in {"decide", "kick"} \/ (a.pc = "refused" /\ a.limit # 0)

\* A login that was not disturbed goes by the strategy there is, its own
\* session has the id it had, and is none of its user's if he has too many.
OwnFits(t) ==
    Busy(t) /\ t \notin disturbed =>
        /\ login[t].pc \in {"count", "list", "decide", "kick"} => policy.control
        /\ login[t].pc \in {"decide", "kick"} => login[t].limit = policy.user
        /\ login[t].pc = "store" => login[t].limit = policy.user \/ ~policy.control
        /\ login[t].own # None =>
              /\ login[t].own.pk \in Has(t) => row[login[t].own.pk].id = login[t].own.id
              /\ Over(login[t]) => login[t].own.pk \notin Has(t)

NobodyHasTooMany ==
    policy.control /\ policy.user \in Nat \ {0} =>
        \A u \in User : Cardinality(SessionsOf(u)) <= policy.user

NoExcess == ~excess => stale = {} /\ NobodyHasTooMany /\ \A t \in Login : OwnFits(t)

\* Without excess so far the strategy is the old one, no old copy was saved,
\* and no disturbed login was stored.
LEMMA WhoExceeds ==
  ASSUME TypeOK, [Next]_vars, ~excess'
  PROVE  /\ ~excess /\ policy' = policy /\ stale' = stale
         /\ \A t \in Login : Store(t) => t \notin disturbed
  <1>1. \A t \in Login : Store(t) => t \notin disturbed /\ ~excess
    BY DEF Store
  <1>2. ~excess /\ policy' = policy /\ stale' = stale
    <2>1. CASE UNCHANGED vars
      BY <2>1 DEF vars
    <2>2. ASSUME NEW t \in Login, Attempting(t)
          PROVE  ~excess /\ policy' = policy /\ stale' = stale
      <3>1. CASE Store(t)
        BY <1>1, <3>1 DEF Store
      <3>2. CASE \E u \in User : Begin(t, u)
        BY <3>2 DEF Begin, history
      <3>3. CASE Control(t) \/ Kick(t)
        <4>1. CASE Control(t)
          <5>1. PICK a : Goes(t, a)
            BY <4>1, Zenon DEF Control
          <5> QED
            BY <5>1 DEF Goes, history
        <4>2. CASE Kick(t)
          BY <4>2 DEF Kick, history
        <4> QED
          BY <3>3, <4>1, <4>2
      <3>4. CASE Count(t)
        BY <3>4, CountLogin DEF history
      <3>5. CASE List(t)
        BY <3>5, ListLogin
      <3>6. CASE Decide(t)
        BY <3>6, DecideLogin DEF history
      <3>7. CASE Leave(t) /\ login[t].own = None
        BY <3>7 DEF Leave
      <3>8. CASE Leave(t) /\ login[t].own # None
        <4>1. Saving(login[t].own, Afterwards(t))
          BY <3>8, LeaveSaves
        <4>2. ~excess /\ stale' = stale
          BY <4>1, SavedHistory DEF Saving
        <4> QED
          BY <3>8, <4>2 DEF Leave
      <3> QED
        BY <2>2, <3>1, <3>2, <3>3, <3>4, <3>5, <3>6, <3>7, <3>8 DEF Attempting
    <2>3. ASSUME NEW v \in Visit, Save(v)
          PROVE  ~excess /\ policy' = policy /\ stale' = stale
      BY <2>3, SaveSaves, SavedHistory DEF Save, Saving
    <2>4. ASSUME NEW v \in Visit, NEW p \in Pk, Load(v, p)
          PROVE  ~excess /\ policy' = policy /\ stale' = stale
      BY <2>4 DEF Load, history
    <2>5. ASSUME NEW p \in Pk, Remove(p) \/ Expire(p)
          PROVE  ~excess /\ policy' = policy /\ stale' = stale
      BY <2>5 DEF Remove, Expire, history
    <2>6. CASE ChangePolicy
      BY <2>6 DEF ChangePolicy
    <2> QED
      BY <2>1, <2>2, <2>3, <2>4, <2>5, <2>6 DEF Next
  <1> QED
    BY <1>1, <1>2

LEMMA FewSessionsStep ==
  ASSUME TypeOK, Limits, NoExcess, [Next]_vars, ~excess'
  PROVE  NobodyHasTooMany'
  <1>0. /\ ~excess /\ policy' = policy
        /\ \A t \in Login : Store(t) => t \notin disturbed
    BY WhoExceeds
  <1> SUFFICES ASSUME policy.control, policy.user \in Nat \ {0}, NEW u \in User
               PROVE  Cardinality(SessionsOf(u)') <= policy.user
    BY <1>0 DEF NobodyHasTooMany
  <1> DEFINE S == SessionsOf(u)
             T == SessionsOf(u)'
  <1>1. S \in SUBSET Pk /\ Cardinality(S) <= policy.user
    BY <1>0 DEF NoExcess, NobodyHasTooMany, SessionsOf
  <1>2. T = {p \in Pk : row'[p] # None /\ row'[p].ctx = u}
    BY DEF SessionsOf, Exists
  <1>3. ASSUME NEW t \in Login, Store(t), login[t].user = u
        PROVE  Cardinality(T) <= policy.user
    <2>1. login'[t] = None
      BY <1>3, LoginTypes DEF Store
    <2>2. Stores(t) /\ Busy(t) /\ login[t].pc = "store" /\ t \notin disturbed
      BY <1>0, <1>3, <2>1 DEF Stores, Store, At, Busy
    <2>3. login[t].limit = policy.user
      BY <1>0, <2>2 DEF NoExcess, OwnFits
    <2>4. login[t].limit > 0
      BY <2>3
    <2>5. LimitKept(t)
      BY LimitKeptStep
    <2> QED
      BY <1>2, <1>3, <2>2, <2>3, <2>4, <2>5 DEF LimitKept
  <1>4. ASSUME NEW t \in Login, Store(t), login[t].user # u
        PROVE  T \in SUBSET S
    BY <1>2, <1>4, StoredRows DEF SessionsOf, Exists
  <1>5. ASSUME NEW c \in Copy, NEW w, Saving(c, w)
        PROVE  T \in SUBSET S
    BY <1>2, <1>5, SavedUser DEF SessionsOf, Exists
  <1>6. ASSUME Fewer
        PROVE  T \in SUBSET S
    BY <1>2, <1>6 DEF Fewer, SessionsOf, Exists
  <1>7. CASE T \in SUBSET S
    <2> HIDE DEF S, T
    <2>1. Cardinality(T) <= Cardinality(S) /\ Cardinality(T) \in Nat /\ Cardinality(S) \in Nat
      BY <1>1, <1>7, SmallerRows
    <2>2. Cardinality(T) <= policy.user
      BY <1>1, <2>1
    <2> QED
      BY <2>2 DEF T
  <1> QED
    BY <1>3, <1>4, <1>5, <1>6, <1>7, RowKinds

\* A login that keeps its strategy, its own session and its list.
LEMMA OwnStays ==
  ASSUME TypeOK, NoExcess, [Next]_vars, ~excess', NEW t \in Login, Busy(t), login'[t] # None,
         login'[t].user = login[t].user, login'[t].own = login[t].own,
         login'[t].limit = login[t].limit, Over(login'[t]) => Over(login[t]) \/ t \in disturbed,
         \/ login'[t].pc = login[t].pc \/ login'[t].pc \in {"refused", "failed"}
         \/ login[t].pc = "decide" /\ login'[t].pc = "kick"
         \/ login[t].pc = "count" /\ login'[t].pc = "list"
         \/ login[t].pc = "kick" /\ login'[t].pc = "store"
         \/ login[t].pc = "control" /\ login'[t].pc = "count" /\ policy.control
         \/ login[t].pc = "control" /\ login'[t].pc = "store" /\ ~policy.control
  PROVE  OwnFits(t)'
  <1> SUFFICES ASSUME t \notin disturbed'
               PROVE  OwnFits(t)'
    BY DEF OwnFits
  <1>1. policy' = policy /\ ~excess
    BY WhoExceeds
  <1>2. /\ t \notin disturbed /\ Has(t)' \in SUBSET Has(t)
        /\ \A p \in Has(t)' : row'[p].id = row[p].id
    BY HasNoMore
  <1>3. OwnFits(t)
    BY <1>1 DEF NoExcess
  <1>4. login[t].own # None /\ login[t].own.pk \in Has(t)' =>
           row'[login[t].own.pk].id = login[t].own.id
    BY <1>2, <1>3 DEF OwnFits
  <1>5. login[t].own # None /\ Over(login'[t]) => login[t].own.pk \notin Has(t)'
    BY <1>2, <1>3 DEF OwnFits
  <1>6. /\ login'[t].pc \in {"count", "list", "decide", "kick"} => policy.control
        /\ login'[t].pc \in {"decide", "kick"} => login[t].limit = policy.user
        /\ login'[t].pc = "store" => login[t].limit = policy.user \/ ~policy.control
    BY <1>2, <1>3 DEF OwnFits
  <1> QED
    BY <1>1, <1>4, <1>5, <1>6 DEF OwnFits

LEMMA BeginOwn ==
  ASSUME TypeOK, NoExcess, [Next]_vars, ~excess', NEW t \in Login, NEW u \in User, Begin(t, u)
  PROVE  OwnFits(t)'
  <1>1. PICK b \in Attempt :
           /\ login' = [login EXCEPT ![t] = b] /\ b.pc = "control" /\ b.user = u
           /\ b.own # None => b.own.pk \in Pk /\ b.own.id = row[b.own.pk].id
           /\ Fewer
    BY BeginLogin
  <1>2. login'[t] = b
    BY <1>1, LoginTypes
  <1>3. b.own # None /\ b.own.pk \in Has(t)' => row'[b.own.pk].id = b.own.id
    BY <1>1 DEF Has, SessionsOf, Exists, Fewer
  <1> QED
    BY <1>1, <1>2, <1>3 DEF OwnFits, Over

\* A session of the user that the login was made in is not one of too many:
\* they are no more than allowed, and it one of them.
LEMMA ListOwn ==
  ASSUME TypeOK, Ids, NoExcess, [Next]_vars, ~excess', NEW t \in Login, List(t)
  PROVE  OwnFits(t)'
  <1> SUFFICES ASSUME t \notin disturbed', login'[t] # None
               PROVE  OwnFits(t)'
    BY DEF OwnFits, Busy
  <1>0. /\ policy' = policy /\ ~excess /\ stale = {} /\ t \notin disturbed /\ Busy(t)
        /\ login[t].pc = "list"
    BY WhoExceeds, StaysDisturbed DEF NoExcess, List, At, Busy
  <1>1. PICK b \in Attempt :
           /\ login' = [login EXCEPT ![t] = b] /\ SameUser(b, login[t]) /\ row' = row
           /\ \/ b.pc = "failed" /\ b.limit = login[t].limit
              \/ /\ b.pc = IF Enough(t, b.list) THEN "store" ELSE "decide"
                 /\ b.limit = policy.user /\ policy.user \in Nat
                 /\ b.list = SessionsNamed(b.user)
    BY ListLogin
  <1>2. login'[t] = b /\ b.user = login[t].user /\ b.own = login[t].own /\ b.user \in User
    BY <1>1, LoginTypes, AttemptFields DEF SameUser
  <1>3. OwnFits(t) /\ policy.control
    BY <1>0 DEF NoExcess, OwnFits
  <1>4. Has(t)' = Has(t)
    BY <1>1, <1>2 DEF Has, SessionsOf, Exists
  <1>5. ASSUME b.pc = "decide", b.own # None, b.own.pk \in Has(t)
        PROVE  FALSE
    <2>1. ~Enough(t, b.list) /\ policy.user \in Nat \ {0} /\ b.list = SessionsNamed(b.user)
      BY <1>1, <1>5 DEF Enough
    <2>2. b.own.pk \in Pk /\ Exists(b.own.pk) /\ row[b.own.pk].name = b.user
      BY <1>0, <1>2, <1>5 DEF Ids, RowsFit, Has, SessionsOf
    <2>3. PICK x \in b.list : x.pk = b.own.pk /\ x.id = row[b.own.pk].id
      BY <2>1, <2>2, SeenType
    <2>4. OwnIsListed(t, b.list)
      BY <1>0, <1>2, <1>3, <1>5, <2>3 DEF OwnFits, OwnIsListed
    <2>5. {p \in Pk : Exists(p) /\ row[p].name = b.user} \in SUBSET Pk
      OBVIOUS
    <2>6. {p \in Pk : Exists(p) /\ row[p].name = b.user} = SessionsOf(b.user)
      BY <1>0 DEF Ids, RowsFit, SessionsOf
    <2>7. IsFiniteSet(b.list) /\ Cardinality(b.list) <= Cardinality(SessionsOf(b.user))
      BY <2>1, <2>6, NamedSize
    <2>8. Cardinality(SessionsOf(b.user)) <= policy.user
      BY <1>0, <1>2, <1>3, <2>1 DEF NoExcess, NobodyHasTooMany
    <2>9. Cardinality(b.list) \in Nat /\ Cardinality(SessionsOf(b.user)) \in Nat
      BY <2>5, <2>6, <2>7, FiniteRows, FS_CardinalityType
    <2>10. Cardinality(b.list) < policy.user \/ Cardinality(b.list) = policy.user
      BY <2>1, <2>7, <2>8, <2>9
    <2> QED
      BY <2>1, <2>4, <2>10 DEF Enough, Below
  <1> HIDE DEF Has
  <1>6. b.own # None /\ b.own.pk \in Has(t)' => row'[b.own.pk].id = b.own.id
    BY <1>0, <1>1, <1>2, <1>3, <1>4 DEF OwnFits
  <1>7. b.pc \in {"store", "decide", "failed"} /\ (b.pc # "failed" => b.limit = policy.user)
    BY <1>1
  <1> QED
    BY <1>0, <1>2, <1>3, <1>4, <1>5, <1>6, <1>7 DEF OwnFits, Over

LEMMA OwnStep ==
  ASSUME TypeOK, Ids, Limits, NoExcess, [Next]_vars, ~excess', NEW t \in Login
  PROVE  OwnFits(t)'
  <1> SUFFICES ASSUME login'[t] # None PROVE OwnFits(t)'
    BY DEF OwnFits, Busy
  <1>1. CASE login'[t] = login[t]
    BY <1>1, OwnStays DEF Busy
  <1>2. CASE Control(t)
    <2>1. PICK b \in Attempt :
             /\ login' = [login EXCEPT ![t] = b] /\ SameUser(b, login[t])
             /\ b.pc = IF policy.control THEN "count" ELSE "store"
             /\ b.limit = login[t].limit
      BY <1>2, ControlLogin
    <2>2. login'[t] = b /\ Busy(t) /\ login[t].pc = "control" /\ ~Over(b)
      BY <1>2, <2>1, LoginTypes DEF Control, At, Busy, Over
    <2> QED
      BY <2>1, <2>2, OwnStays DEF SameUser
  <1>3. CASE Count(t)
    <2>1. PICK b \in Attempt :
             /\ login' = [login EXCEPT ![t] = b] /\ SameUser(b, login[t])
             /\ b.pc \in {"list", "refused", "failed"} /\ b.limit = login[t].limit
      BY <1>3, CountLogin
    <2>2. login'[t] = b /\ Busy(t) /\ login[t].pc = "count"
      BY <1>3, <2>1, LoginTypes DEF Count, At, Busy
    <2>3. t \notin disturbed => b.limit = 0
      BY <2>1, <2>2 DEF Limits, LimitOf
    <2>4. Over(b) => t \in disturbed
      BY <2>1, <2>3 DEF Over
    <2> QED
      BY <2>1, <2>2, <2>4, OwnStays DEF SameUser
  <1>4. CASE Decide(t)
    <2>1. PICK b \in Attempt :
             /\ login' = [login EXCEPT ![t] = b] /\ SameUser(b, login[t])
             /\ b.pc \in {"kick", "refused"} /\ b.limit = login[t].limit
      BY <1>4, DecideLogin
    <2>2. login'[t] = b /\ Busy(t) /\ login[t].pc = "decide" /\ Over(login[t])
      BY <1>4, <2>1, LoginTypes DEF Decide, At, Busy, Over
    <2> QED
      BY <2>1, <2>2, OwnStays DEF SameUser
  <1>5. CASE Kick(t)
    <2>1. PICK x \in login[t].victims, b \in Attempt :
             /\ login' = [login EXCEPT ![t] = b] /\ SameUser(b, login[t])
             /\ b.pc = IF login[t].victims = {x} THEN "store" ELSE "kick"
             /\ b.limit = login[t].limit
      BY <1>5, KickLogin
    <2>2. login'[t] = b /\ Busy(t) /\ login[t].pc = "kick" /\ Over(login[t])
      BY <1>5, <2>1, LoginTypes DEF Kick, At, Busy, Over
    <2> QED
      BY <2>1, <2>2, OwnStays DEF SameUser
  <1>6. CASE Store(t) \/ Leave(t)
    BY <1>6, LoginTypes DEF Store, Leave
  <1> QED
    BY <1>1, <1>2, <1>3, <1>4, <1>5, <1>6, BeginOwn, ListOwn, LoginStays DEF Attempting

LEMMA NoExcessStep ==
  ASSUME TypeOK, Ids, Limits, NoExcess, [Next]_vars
  PROVE  NoExcess'
  <1> SUFFICES ASSUME ~excess'
               PROVE  stale' = {} /\ NobodyHasTooMany' /\ \A t \in Login : OwnFits(t)'
    BY DEF NoExcess
  <1>1. stale' = {}
    BY WhoExceeds DEF NoExcess
  <1> QED
    BY <1>1, FewSessionsStep, OwnStep

LEMMA OwnAlways == Spec => [](TypeOK /\ Ids /\ Limits /\ NoExcess)
  <1>1. Init => NoExcess
    <2> SUFFICES ASSUME Init PROVE NoExcess
      OBVIOUS
    <2>1. /\ \A p \in Pk : row[p] = None
          /\ \A t \in Login : login[t] = None
          /\ stale = {}
      BY DEF Init
    <2>2. \A u \in User : SessionsOf(u) = {}
      BY <2>1 DEF SessionsOf, Exists
    <2>3. ASSUME policy.user \in Nat \ {0}, NEW u \in User
          PROVE  Cardinality(SessionsOf(u)) <= policy.user
      BY <2>2, <2>3, FS_EmptySet
    <2> QED
      BY <2>1, <2>3 DEF NoExcess, NobodyHasTooMany, OwnFits, Busy
  <1>2. TypeOK /\ Ids /\ Limits /\ NoExcess /\ [Next]_vars => NoExcess'
    BY NoExcessStep
  <1> QED
    BY <1>1, <1>2, IdsAlways, LimitsAlways, PTL DEF Spec

OwnKept == \A t \in Login : LosesOwn(t) => excess \/ t \in disturbed \/ login[t].limit = 0

LEMMA OwnKeptStep ==
  ASSUME TypeOK, NoExcess, [Next]_vars
  PROVE  OwnKept
  <1> SUFFICES ASSUME NEW t \in Login, LosesOwn(t), ~excess, t \notin disturbed,
                      login[t].limit # 0
               PROVE  FALSE
    BY DEF OwnKept
  <1> DEFINE p == login[t].own.pk
  <1>1. /\ Busy(t) /\ Attempting(t) /\ login[t].own # None /\ login[t].own \in Copy
        /\ login[t].user \in User
    BY LoginStays, BusyFields, AttemptFields DEF LosesOwn, Busy
  <1>2. p \in Has(t) /\ p \in Pk /\ row[p] # None /\ row[p].ctx = login[t].user
    BY DEF LosesOwn, Has, SessionsOf, Exists
  <1>3. row'[p] = None \/ row'[p].ctx # login[t].user
    BY DEF LosesOwn
  <1>4. ~Over(login[t])
    BY <1>1, <1>2 DEF NoExcess, OwnFits
  <1>5. row' # row
    BY <1>2, <1>3
  <1>6. ~Control(t) /\ ~Count(t) /\ ~List(t) /\ ~Decide(t)
    BY <1>5, CountLogin, ListLogin, DecideLogin DEF Control, Goes
  <1>7. ~Kick(t) /\ \A u \in User : ~Begin(t, u)
    BY <1>1, <1>4 DEF Kick, Begin, At, Busy, Over
  <1>8. CASE Store(t)
    <2>1. row'[p] \in Row /\ row'[p].ctx = login[t].user
      BY <1>1, <1>5, <1>8, StoredRows
    <2> QED
      BY <1>3, <2>1, NoneAssumption
  <1>9. CASE Leave(t)
    <2>1. ~At(t, "refused")
      BY <1>4 DEF At, Over
    <2>2. SaveCopy(login[t].own, login[t].own.ctx)
      BY <1>1, <1>9, <2>1 DEF Leave, Afterwards
    <2>3. row'[p] \in Row /\ row'[p].ctx = row[p].ctx
      BY <1>1, <1>2, <2>2, SavedRows DEF Exists
    <2> QED
      BY <1>2, <1>3, <2>3, NoneAssumption
  <1> QED
    BY <1>1, <1>6, <1>7, <1>8, <1>9 DEF Attempting

\* Who logs in again in a session he is logged in with keeps it, as far as the
\* limit for a user goes: that limit makes the login delete it, or refuses the
\* login and so logs the user out of it, only if he had come to have too many
\* sessions.
THEOREM OwnSessionsAreKept == Spec => OwnSessionIsKept
  <1>1. OwnKept => [\A t \in Login :
           LosesOwn(t) => excess \/ t \in disturbed \/ login[t].limit = 0]_vars
    BY DEF OwnKept
  <1>2. TypeOK /\ Ids /\ Limits /\ NoExcess /\ [Next]_vars => OwnKept
    BY OwnKeptStep
  <1> QED
    BY <1>1, <1>2, OwnAlways, PTL DEF Spec, OwnSessionIsKept
=============================================================================
