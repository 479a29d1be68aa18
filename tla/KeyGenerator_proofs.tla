------------------------ MODULE KeyGenerator_proofs ------------------------
(***************************************************************************)
(* Proofs about KeyGenerator: for any number of servers, threads, names,   *)
(* days, restarts and failures, the types are right, two servers never     *)
(* hold the same unused number, no backed key is handed out twice, the     *)
(* row never falls back, and a key the row does not account for needs a    *)
(* failure that the code swallowed (its own invariant, Sound, comes        *)
(* last).                                                                  *)
(*                                                                         *)
(* The inductive invariant says who holds the monitors and the row         *)
(* (Locks), what a thread about to write the row has in hand (InFlight),   *)
(* and that every backed block and every key given out lies below the row  *)
(* (BelowRow), the blocks being disjoint and free of given keys.           *)
(***************************************************************************)
EXTENDS KeyGenerator, TLAPS

\* The day the numbers of a row belong to; plain keys count on over all days.
Epoch(k, r) == IF IsDateKey(k) THEN r.date ELSE 0

Object(t) == keyMap[NodeOf[t]][thread[t].name]

\* Each monitor, the creation monitor and the row have one holder at most.
Locks ==
    \A t, u \in Thread : t # u =>
        /\ NodeOf[t] = NodeOf[u] /\ thread[t].name = thread[u].name /\ InMonitor(t)
              => ~InMonitor(u)
        /\ thread[t].name = thread[u].name /\ HoldsRow(t) => ~HoldsRow(u)
        /\ NodeOf[t] = NodeOf[u] /\ thread[t].pc = "insert" => thread[u].pc # "insert"

\* A thread past getKeyObject has an object, one about to create it has none.
HasObject ==
    \A t \in Thread :
        /\ thread[t].pc = "insert" => ~Known(NodeOf[t], thread[t].name)
        /\ thread[t].pc \in {"enter", "reload", "update", "commit", "take"}
              => Known(NodeOf[t], thread[t].name)

\* Rows that exist have a number; their date is not in the future.
Rows ==
    /\ today > 0
    /\ \A k \in Name : table[k].date <= today /\ (table[k] # NoRow => table[k].max > 0)

\* Plain keys have no prefix; the last block of an object ends above zero.
Objects ==
    \A n \in Node, k \in Name :
        /\ ~IsDateKey(k) => keyMap[n][k].prefix = 0
        /\ Known(n, k) => keyMap[n][k].max > 0

\* Between select and commit the object holds a block that starts where the
\* row ends, or on a later day.
Follows(k, o, r) ==
    /\ ~o.backed
    /\ o.value < o.max
    /\ r.date <= o.keyDate /\ o.keyDate <= today
    /\ IsDateKey(k) => o.prefix = o.keyDate
    /\ ~IsDateKey(k) \/ o.keyDate = r.date => o.keyDate = r.date /\ r.max <= o.value

InFlight ==
    \A t \in Thread : HoldsRow(t) =>
        /\ table[thread[t].name] # NoRow
        /\ Follows(thread[t].name, Object(t), table[thread[t].name])

Below(prefix, end, k, r) ==
    prefix <= Epoch(k, r) /\ (prefix = Epoch(k, r) => end <= r.max)

BelowRow ==
    /\ \A n \in Node, k \in Name :
          keyMap[n][k].backed => Below(keyMap[n][k].prefix, keyMap[n][k].max, k, table[k])
    /\ \A x \in issued : Below(x.prefix, x.value + 1, x.name, table[x.name])

\* Two blocks of which one is used up, or that do not meet.
Apart(o, p) ==
    \/ o.max <= o.value \/ p.max <= p.value
    \/ o.max <= p.value \/ p.max <= o.value

BlocksApart ==
    \A n, m \in Node, k \in Name :
        LET o == keyMap[n][k]
            p == keyMap[m][k]
        IN n # m /\ o.backed /\ p.backed /\ o.prefix = p.prefix => Apart(o, p)

\* No backed block holds a number that was given out.
IssuedIsUsedUp ==
    \A x \in issued, n \in Node :
        LET o == keyMap[n][x.name]
        IN o.backed /\ o.prefix = x.prefix => x.value < o.value \/ o.max <= x.value

IInv ==
    /\ TypeOK
    /\ Locks /\ HasObject /\ Rows /\ Objects /\ InFlight
    /\ BelowRow /\ BlocksApart /\ IssuedIsUsedUp

\* Without one of the failures the code swallows, every object has a row, every
\* object that has numbers left is backed or about to be, and a thread that takes
\* a number takes a backed one.
Swallowed == fails \cap {"insert", "select", "update", "commit"} # {}

HasRow == \A n \in Node, k \in Name : Known(n, k) => table[k] # NoRow

Covered(n, k) ==
    keyMap[n][k].value < keyMap[n][k].max =>
       \/ keyMap[n][k].backed
       \/ \E t \in Thread : NodeOf[t] = n /\ thread[t].name = k /\ HoldsRow(t)

InHand(t) ==
    /\ thread[t].pc = "commit" => thread[t].wrote
    /\ thread[t].pc = "take" => Object(t).backed /\ Object(t).value < Object(t).max

Sound ==
    ~Swallowed =>
        /\ unbacked = {}
        /\ HasRow
        /\ \A n \in Node, k \in Name : Covered(n, k)
        /\ \A t \in Thread : InHand(t)

-----------------------------------------------------------------------------
(* Types. *)

LEMMA IdleType == Idle \in ThreadState
  BY NameAssumption DEF Idle, ThreadState, Pc

LEMMA PutType ==
  ASSUME TypeOK, NEW n \in Node, NEW k \in Name, NEW o \in KeyObject, Put(n, k, o)
  PROVE  keyMap' \in [Node -> [Name -> KeyObject]]
  BY DEF TypeOK, Put

LEMMA GotoType ==
  ASSUME TypeOK, NEW t \in Thread, NEW pc \in Pc, Goto(t, pc)
  PROVE  thread' \in [Thread -> ThreadState]
  BY DEF TypeOK, Goto, ThreadState

LEMMA ReturnType ==
  ASSUME TypeOK, NEW t \in Thread, Return(t)
  PROVE  thread' \in [Thread -> ThreadState]
  BY IdleType DEF TypeOK, Return

LEMMA LoadedType ==
  ASSUME NEW k \in Name, NEW o \in KeyObject, NEW r \in Row, today \in Nat
  PROVE  Loaded(k, o, r) \in KeyObject
  BY NameAssumption DEF Loaded, KeyObject, Row

LEMMA TypeInit == Init => TypeOK
  BY IdleType DEF Init, TypeOK, NoRow, NoObject, Row, KeyObject

LEMMA TypeStep == TypeOK /\ [Next]_vars => TypeOK'
<1> SUFFICES ASSUME TypeOK, [Next]_vars PROVE TypeOK'
  OBVIOUS
<1> USE ThreadAssumption, NameAssumption
<1>1. ASSUME NEW t \in Thread, NEW k \in Name, Lookup(t, k) PROVE TypeOK'
  BY <1>1 DEF TypeOK, Lookup, ThreadState, Pc, keys
<1>2. ASSUME NEW t \in Thread, Probe(t) PROVE TypeOK'
  <2>1. FromRow(table[thread[t].name]) \in KeyObject
    BY DEF TypeOK, FromRow, NoObject, KeyObject, Row, ThreadState
  <2>2. NodeOf[t] \in Node /\ thread[t].name \in Name
    BY DEF TypeOK, ThreadState
  <2>3. thread' \in [Thread -> ThreadState]
    BY <1>2, GotoType DEF Probe, Pc
  <2>4. keyMap' \in [Node -> [Name -> KeyObject]]
    BY <1>2, <2>1, <2>2, PutType DEF Probe, TypeOK
  <2> QED BY <1>2, <2>3, <2>4 DEF Probe, TypeOK, keys, Faults
<1>3. ASSUME NEW t \in Thread, Insert(t) PROVE TypeOK'
  <2>1. [NoObject EXCEPT !.value = 1, !.max = 1] \in KeyObject
    BY DEF NoObject, KeyObject
  <2>2. NodeOf[t] \in Node /\ thread[t].name \in Name
    BY DEF TypeOK, ThreadState
  <2>3. thread' \in [Thread -> ThreadState]
    BY <1>3, GotoType DEF Insert, Pc
  <2>4. keyMap' \in [Node -> [Name -> KeyObject]]
    BY <1>3, <2>1, <2>2, PutType DEF Insert
  <2>5. table' \in [Name -> Row]
    BY <1>3, <2>2 DEF Insert, TypeOK, Row
  <2> QED BY <1>3, <2>3, <2>4, <2>5 DEF Insert, TypeOK, keys, Faults
<1>4. ASSUME NEW t \in Thread, Enter(t) PROVE TypeOK'
  <2>1. thread' \in [Thread -> ThreadState]
    BY <1>4, GotoType DEF Enter, Pc
  <2> QED BY <1>4, <2>1 DEF Enter, TypeOK, keys
<1>5. ASSUME NEW t \in Thread, NoConnection(t) PROVE TypeOK'
  BY <1>5, ReturnType DEF NoConnection, TypeOK, keys, Faults
<1>6. ASSUME NEW t \in Thread, ReloadSelect(t) PROVE TypeOK'
  <2>1. NodeOf[t] \in Node /\ thread[t].name \in Name
    BY DEF TypeOK, ThreadState
  <2>2. Loaded(thread[t].name, Object(t), table[thread[t].name]) \in KeyObject
    BY <2>1, LoadedType DEF TypeOK, Object
  <2>3. thread' \in [Thread -> ThreadState]
    BY <1>6, GotoType DEF ReloadSelect, Pc
  <2>4. keyMap' \in [Node -> [Name -> KeyObject]]
    BY <1>6, <2>1, <2>2, PutType DEF ReloadSelect, Object
  <2> QED BY <1>6, <2>3, <2>4 DEF ReloadSelect, TypeOK, keys
<1>7. ASSUME NEW t \in Thread, ReloadSelectFails(t) PROVE TypeOK'
  <2>1. NodeOf[t] \in Node /\ thread[t].name \in Name
    BY DEF TypeOK, ThreadState
  <2>0. Object(t) \in KeyObject
    BY <2>1 DEF TypeOK, Object
  <2>2. [Object(t) EXCEPT !.backed = FALSE] \in KeyObject
    BY <2>0 DEF KeyObject
  <2>3. thread' \in [Thread -> ThreadState]
    BY <1>7, GotoType DEF ReloadSelectFails, Pc
  <2>4. keyMap' \in [Node -> [Name -> KeyObject]]
    BY <1>7, <2>1, <2>2, PutType DEF ReloadSelectFails, Object
  <2> QED BY <1>7, <2>3, <2>4 DEF ReloadSelectFails, TypeOK, keys, Faults
<1>8. ASSUME NEW t \in Thread, ReloadUpdate(t) PROVE TypeOK'
  <2>1. ASSUME NEW s \in ThreadState, NEW ok \in BOOLEAN
        PROVE  [s EXCEPT !.pc = "commit", !.wrote = ok] \in ThreadState
    BY DEF ThreadState, Pc
  <2>2. thread' \in [Thread -> ThreadState]
    <3>1. PICK ok \in BOOLEAN :
             thread' = [thread EXCEPT ![t] = [@ EXCEPT !.pc = "commit", !.wrote = ok]]
      BY <1>8 DEF ReloadUpdate
    <3>2. [thread[t] EXCEPT !.pc = "commit", !.wrote = ok] \in ThreadState
      BY <2>1 DEF TypeOK
    <3> QED BY <3>1, <3>2 DEF TypeOK
  <2> QED BY <1>8, <2>2 DEF ReloadUpdate, TypeOK, keys, Faults
<1>9. ASSUME NEW t \in Thread, ReloadCommit(t) PROVE TypeOK'
  <2>1. NodeOf[t] \in Node /\ thread[t].name \in Name
    BY DEF TypeOK, ThreadState
  <2>2. Object(t) \in KeyObject
    BY <2>1 DEF TypeOK, Object
  <2>3. /\ [Object(t) EXCEPT !.backed = TRUE] \in KeyObject
        /\ [max |-> Object(t).max, date |-> Object(t).keyDate] \in Row
    BY <2>2 DEF KeyObject, Row
  <2>4. thread' \in [Thread -> ThreadState]
    BY <1>9, GotoType DEF ReloadCommit, Pc
  <2>5. keyMap' \in [Node -> [Name -> KeyObject]]
    BY <1>9, <2>1, <2>3, PutType DEF ReloadCommit, Object, TypeOK
  <2>6. table' \in [Name -> Row]
    BY <1>9, <2>1, <2>3 DEF ReloadCommit, Object, TypeOK
  <2> QED BY <1>9, <2>4, <2>5, <2>6 DEF ReloadCommit, TypeOK, keys, Faults
<1>10. ASSUME NEW t \in Thread, Take(t) PROVE TypeOK'
  <2>1. NodeOf[t] \in Node /\ thread[t].name \in Name
    BY DEF TypeOK, ThreadState
  <2>2. Object(t) \in KeyObject
    BY <2>1 DEF TypeOK, Object
  <2>3. /\ [Object(t) EXCEPT !.value = @ + 1] \in KeyObject
        /\ NumberOf(thread[t].name, Object(t)) \in Numbered
    BY <2>1, <2>2 DEF KeyObject, Numbered, NumberOf
  <2>4. thread' \in [Thread -> ThreadState]
    BY <1>10, ReturnType DEF Take
  <2>5. keyMap' \in [Node -> [Name -> KeyObject]]
    BY <1>10, <2>1, <2>3, PutType DEF Take, Object
  <2>6. /\ UNCHANGED <<table, today, crashes, fails>>
        /\ issued' \in {issued, issued \cup {NumberOf(thread[t].name, Object(t))}}
        /\ unbacked' \in {unbacked, unbacked \cup {NumberOf(thread[t].name, Object(t))}}
        /\ answers' \in {answers, answers + 1}
    BY <1>10 DEF Take, Object, keys
  <2> QED BY ONLY TypeOK, <2>3, <2>4, <2>5, <2>6 DEF TypeOK
<1>11. CASE NextDay
  BY <1>11 DEF NextDay, TypeOK, keys
<1>12. ASSUME NEW n \in Node, Crash(n) PROVE TypeOK'
  BY <1>12, IdleType DEF Crash, TypeOK, keys, NoObject, KeyObject
<1>13. CASE UNCHANGED vars
  BY <1>13 DEF vars, TypeOK
<1> QED
  BY <1>1, <1>2, <1>3, <1>4, <1>5, <1>6, <1>7, <1>8, <1>9, <1>10, <1>11, <1>12, <1>13
  DEF Next, GeneratorStep

\* Every variable keeps its type, for all values of the constants.
THEOREM TypesAreRight == Spec => []TypeOK
  BY TypeInit, TypeStep, PTL DEF Spec

-----------------------------------------------------------------------------
(* What the three ways of assigning keyMap and thread do, value by value. *)

LEMMA PutEffect ==
  ASSUME TypeOK, NEW n \in Node, NEW k \in Name, NEW o, Put(n, k, o)
  PROVE  \A m \in Node, j \in Name :
            keyMap'[m][j] = IF m = n /\ j = k THEN o ELSE keyMap[m][j]
  BY DEF TypeOK, Put

LEMMA GotoEffect ==
  ASSUME TypeOK, NEW t \in Thread, NEW pc, Goto(t, pc)
  PROVE  /\ thread'[t].pc = pc
         /\ \A u \in Thread : /\ thread'[u].name = thread[u].name
                              /\ thread'[u].wrote = thread[u].wrote
                              /\ u # t => thread'[u].pc = thread[u].pc
  BY DEF TypeOK, Goto, ThreadState

LEMMA ReturnEffect ==
  ASSUME TypeOK, NEW t \in Thread, Return(t)
  PROVE  /\ thread'[t].pc = "idle"
         /\ \A u \in Thread \ {t} : thread'[u] = thread[u]
  BY DEF TypeOK, Return, Idle

LEMMA UpdateEffect ==
  ASSUME TypeOK, NEW t \in Thread, ReloadUpdate(t)
  PROVE  /\ thread'[t].pc = "commit" /\ thread'[t].name = thread[t].name
         /\ \A u \in Thread \ {t} : thread'[u] = thread[u]
<1>1. PICK ok \in BOOLEAN :
         thread' = [thread EXCEPT ![t] = [@ EXCEPT !.pc = "commit", !.wrote = ok]]
  BY DEF ReloadUpdate
<1>2. ASSUME NEW s \in ThreadState
      PROVE  /\ [s EXCEPT !.pc = "commit", !.wrote = ok].pc = "commit"
             /\ [s EXCEPT !.pc = "commit", !.wrote = ok].name = s.name
  BY DEF ThreadState
<1> QED BY <1>1, <1>2 DEF TypeOK

-----------------------------------------------------------------------------
(* The monitors and the row. *)

LEMMA LocksStep == TypeOK /\ Locks /\ [Next]_vars => Locks'
<1> SUFFICES ASSUME TypeOK, Locks, [Next]_vars PROVE Locks'
  OBVIOUS
<1> USE DEF Locks, InMonitor, HoldsRow
<1>1. ASSUME NEW t \in Thread, NEW k \in Name, Lookup(t, k) PROVE Locks'
  <2>1. /\ thread'[t].pc \in {"enter", "create"}
        /\ \A u \in Thread \ {t} : thread'[u] = thread[u]
    BY <1>1 DEF Lookup, TypeOK
  <2> QED BY <2>1
<1>2. ASSUME NEW t \in Thread, Probe(t) PROVE Locks'
  <2>1. PICK pc \in {"enter", "insert"} : Goto(t, pc)
    BY <1>2 DEF Probe
  <2> QED BY <1>2, <2>1, GotoEffect DEF Probe, CreatorFree
<1>3. ASSUME NEW t \in Thread, Insert(t) PROVE Locks'
  BY <1>3, GotoEffect DEF Insert
<1>4. ASSUME NEW t \in Thread, Enter(t) PROVE Locks'
  <2>1. PICK pc \in {"reload", "take"} : Goto(t, pc)
    BY <1>4 DEF Enter
  <2> QED BY <1>4, <2>1, GotoEffect DEF Enter, MonitorFree
<1>5. ASSUME NEW t \in Thread, NoConnection(t) PROVE Locks'
  BY <1>5, ReturnEffect DEF NoConnection
<1>6. ASSUME NEW t \in Thread, ReloadSelect(t) PROVE Locks'
  BY <1>6, GotoEffect DEF ReloadSelect, RowFree
<1>7. ASSUME NEW t \in Thread, ReloadSelectFails(t) PROVE Locks'
  BY <1>7, GotoEffect DEF ReloadSelectFails
<1>8. ASSUME NEW t \in Thread, ReloadUpdate(t) PROVE Locks'
  <2>1. /\ thread'[t].pc = "commit" /\ thread'[t].name = thread[t].name
        /\ \A u \in Thread \ {t} : thread'[u] = thread[u]
    BY <1>8, UpdateEffect
  <2>2. thread[t].pc = "update"
    BY <1>8 DEF ReloadUpdate
  <2> QED BY <2>1, <2>2
<1>9. ASSUME NEW t \in Thread, ReloadCommit(t) PROVE Locks'
  <2>1. thread[t].pc = "commit" /\ Goto(t, "take")
    BY <1>9 DEF ReloadCommit
  <2> QED BY <2>1, GotoEffect
<1>10. ASSUME NEW t \in Thread, Take(t) PROVE Locks'
  <2>1. Return(t)
    BY <1>10 DEF Take
  <2> QED BY <2>1, ReturnEffect
<1>11. CASE NextDay
  BY <1>11 DEF NextDay
<1>12. ASSUME NEW n \in Node, Crash(n) PROVE Locks'
  BY <1>12 DEF Crash, Idle
<1>13. CASE UNCHANGED vars
  BY <1>13 DEF vars
<1> QED
  BY <1>1, <1>2, <1>3, <1>4, <1>5, <1>6, <1>7, <1>8, <1>9, <1>10, <1>11, <1>12, <1>13
  DEF Next, GeneratorStep

\* IInv without BlocksApart and what depends on the numbers, for the lemmas
\* below: everything a step of one thread needs to know of the others.
Control == TypeOK /\ Locks /\ HasObject /\ Rows /\ Objects

LEMMA FromRowFields ==
  ASSUME NEW r \in Row, today \in Nat
  PROVE  /\ FromRow(r) \in KeyObject
         /\ FromRow(r).value = r.max /\ FromRow(r).max = r.max
         /\ FromRow(r).prefix = 0 /\ ~FromRow(r).backed
  BY DEF FromRow, NoObject, KeyObject, Row

FirstObject == [NoObject EXCEPT !.value = 1, !.max = 1]

LEMMA FirstObjectFields ==
  /\ FirstObject \in KeyObject
  /\ FirstObject.value = 1 /\ FirstObject.max = 1
  /\ FirstObject.prefix = 0 /\ ~FirstObject.backed
  BY DEF FirstObject, NoObject, KeyObject

LEMMA ObjectChange ==
  ASSUME NEW o \in KeyObject, NEW v \in Nat, NEW b \in BOOLEAN
  PROVE  /\ [o EXCEPT !.backed = b] \in KeyObject
         /\ [o EXCEPT !.backed = b].backed = b
         /\ [o EXCEPT !.backed = b].value = o.value
         /\ [o EXCEPT !.backed = b].max = o.max
         /\ [o EXCEPT !.backed = b].prefix = o.prefix
         /\ [o EXCEPT !.value = v] \in KeyObject
         /\ [o EXCEPT !.value = v].backed = o.backed
         /\ [o EXCEPT !.value = v].value = v
         /\ [o EXCEPT !.value = v].max = o.max
         /\ [o EXCEPT !.value = v].prefix = o.prefix
  BY DEF KeyObject

LEMMA LoadedMax ==
  ASSUME NEW k \in Name, NEW o \in KeyObject, NEW r \in Row
  PROVE  /\ Loaded(k, o, r).value < Loaded(k, o, r).max
         /\ Loaded(k, o, r).max > 0
         /\ ~Loaded(k, o, r).backed
         /\ ~IsDateKey(k) => Loaded(k, o, r).prefix = o.prefix
  BY NameAssumption DEF Loaded, KeyObject, Row

\* An object that has numbers never looks like no object.
LEMMA Positive ==
  ASSUME NEW o \in KeyObject, o.max > 0
  PROVE  o # NoObject
  BY DEF KeyObject, NoObject

LEMMA HasObjectStep == Control /\ [Next]_vars => HasObject'
<1> SUFFICES ASSUME Control, [Next]_vars PROVE HasObject'
  OBVIOUS
<1> USE ThreadAssumption DEF Control, HasObject, Known
<1>0. \A t \in Thread : NodeOf[t] \in Node /\ thread[t].name \in Name
  BY DEF TypeOK, ThreadState
<1>1. ASSUME NEW t \in Thread, NEW k \in Name, Lookup(t, k) PROVE HasObject'
  <2>1. /\ thread'[t].pc = IF Known(NodeOf[t], k) THEN "enter" ELSE "create"
        /\ thread'[t].name = k
        /\ \A u \in Thread \ {t} : thread'[u] = thread[u]
        /\ keyMap' = keyMap
    BY <1>1 DEF Lookup, TypeOK
  <2> QED BY <2>1
<1>2. ASSUME NEW t \in Thread, Probe(t) PROVE HasObject'
  <2> DEFINE n == NodeOf[t]
             k == thread[t].name
  <2>1. CASE Known(n, k) /\ Goto(t, "enter") /\ UNCHANGED keyMap
    BY <2>1, GotoEffect
  <2>2. CASE ~Known(n, k) /\ Goto(t, "insert") /\ UNCHANGED keyMap
    BY <2>2, GotoEffect
  <2>3. CASE ~Known(n, k) /\ table[k] # NoRow /\ Put(n, k, FromRow(table[k])) /\ Goto(t, "enter")
    <3>1. FromRow(table[k]) # NoObject
      BY <2>3, <1>0, FromRowFields, Positive DEF Rows, TypeOK
    <3>2. \A m \in Node, j \in Name :
             keyMap'[m][j] = IF m = n /\ j = k THEN FromRow(table[k]) ELSE keyMap[m][j]
      BY <2>3, <1>0, PutEffect
    <3>3. \A u \in Thread : u # t /\ NodeOf[u] = n => thread[u].pc # "insert"
      BY <1>2 DEF Probe, CreatorFree
    <3>4. /\ thread'[t].pc = "enter" /\ thread'[t].name = k
          /\ \A u \in Thread \ {t} :
                thread'[u].pc = thread[u].pc /\ thread'[u].name = thread[u].name
      BY <2>3, GotoEffect
    <3> SUFFICES ASSUME NEW u \in Thread
                 PROVE  /\ thread'[u].pc = "insert"
                              => keyMap'[NodeOf[u]][thread'[u].name] = NoObject
                        /\ thread'[u].pc \in {"enter", "reload", "update", "commit", "take"}
                              => keyMap'[NodeOf[u]][thread'[u].name] # NoObject
      OBVIOUS
    <3>5. CASE u = t
      BY <3>5, <3>1, <3>2, <3>4, <1>0
    <3>6. CASE u # t
      BY <3>6, <3>1, <3>2, <3>3, <3>4, <1>0
    <3> QED BY <3>5, <3>6
  <2> QED BY <1>2, <2>1, <2>2, <2>3 DEF Probe
<1>3. ASSUME NEW t \in Thread, Insert(t) PROVE HasObject'
  <2> DEFINE n == NodeOf[t]
             k == thread[t].name
             o == FirstObject
  <2>1. o # NoObject
    BY FirstObjectFields, Positive
  <2>2. \A m \in Node, j \in Name :
           keyMap'[m][j] = IF m = n /\ j = k THEN o ELSE keyMap[m][j]
    BY <1>3, <1>0, PutEffect DEF Insert, FirstObject
  <2>3. \A u \in Thread : u # t /\ NodeOf[u] = n => thread[u].pc # "insert"
    BY <1>3 DEF Insert, Locks
  <2>4. /\ thread'[t].pc = "enter" /\ thread'[t].name = k
        /\ \A u \in Thread \ {t} :
              thread'[u].pc = thread[u].pc /\ thread'[u].name = thread[u].name
    BY <1>3, GotoEffect DEF Insert
  <2> SUFFICES ASSUME NEW u \in Thread
               PROVE  /\ thread'[u].pc = "insert"
                            => keyMap'[NodeOf[u]][thread'[u].name] = NoObject
                      /\ thread'[u].pc \in {"enter", "reload", "update", "commit", "take"}
                            => keyMap'[NodeOf[u]][thread'[u].name] # NoObject
    OBVIOUS
  <2>5. CASE u = t
    BY <2>5, <2>1, <2>2, <2>4, <1>0
  <2>6. CASE u # t
    BY <2>6, <2>1, <2>2, <2>3, <2>4, <1>0
  <2> QED BY <2>5, <2>6
<1>4. ASSUME NEW t \in Thread, Enter(t) PROVE HasObject'
  <2>1. PICK pc \in {"reload", "take"} : Goto(t, pc)
    BY <1>4 DEF Enter
  <2> QED BY <1>4, <2>1, GotoEffect DEF Enter
<1>5. ASSUME NEW t \in Thread, NoConnection(t) PROVE HasObject'
  BY <1>5, ReturnEffect DEF NoConnection
\* The remaining steps replace an object by another one that is known too.
<1>6. ASSUME NEW t \in Thread, NEW o \in KeyObject,
             Put(NodeOf[t], thread[t].name, o) \/ UNCHANGED keyMap,
             o # NoObject,
             thread[t].pc \in {"reload", "commit", "take"},
             thread'[t].name = thread[t].name \/ thread'[t].pc = "idle",
             thread'[t].pc \in {"idle", "update", "take"},
             \A u \in Thread \ {t} : thread'[u].pc = thread[u].pc /\ thread'[u].name = thread[u].name
      PROVE  HasObject'
  <2>1. \A m \in Node, j \in Name : keyMap'[m][j] = keyMap[m][j]
           \/ (m = NodeOf[t] /\ j = thread[t].name /\ keyMap'[m][j] = o)
    BY <1>6, <1>0, PutEffect
  <2> QED BY <1>6, <2>1, <1>0
<1>7. ASSUME NEW t \in Thread, ReloadSelect(t) PROVE HasObject'
  <2> DEFINE o == Loaded(thread[t].name, Object(t), table[thread[t].name])
  <2>1. Object(t) \in KeyObject /\ table[thread[t].name] \in Row /\ today \in Nat
    BY <1>0 DEF TypeOK, Object
  <2>2. o \in KeyObject /\ o # NoObject
    BY <2>1, <1>0, LoadedType, LoadedMax, Positive DEF TypeOK
  <2>3. Put(NodeOf[t], thread[t].name, o)
    BY <1>7 DEF ReloadSelect, Object
  <2> HIDE DEF o
  <2>4. thread[t].pc = "reload" /\ Goto(t, "update")
    BY <1>7 DEF ReloadSelect
  <2> QED BY <1>6, <2>2, <2>3, <2>4, <1>0, GotoEffect
<1>8. ASSUME NEW t \in Thread, ReloadSelectFails(t) PROVE HasObject'
  <2> DEFINE o == [Object(t) EXCEPT !.backed = FALSE]
  <2>1. Object(t) \in KeyObject /\ Object(t).max > 0
    BY <1>8, <1>0 DEF TypeOK, Object, Objects, ReloadSelectFails
  <2>2. o \in KeyObject /\ o # NoObject
    BY <2>1, ObjectChange, Positive DEF KeyObject
  <2>3. Put(NodeOf[t], thread[t].name, o)
    BY <1>8 DEF ReloadSelectFails, Object
  <2> HIDE DEF o
  <2> QED BY <1>8, <1>6, <2>2, <2>3, GotoEffect DEF ReloadSelectFails
<1>9. ASSUME NEW t \in Thread, ReloadUpdate(t) PROVE HasObject'
  <2>1. thread[t].pc = "update" /\ UNCHANGED keyMap
    BY <1>9 DEF ReloadUpdate
  <2>2. /\ thread'[t].pc = "commit" /\ thread'[t].name = thread[t].name
        /\ \A u \in Thread \ {t} : thread'[u] = thread[u]
    BY <1>9, <1>0, UpdateEffect
  <2> QED BY <2>1, <2>2
<1>10. ASSUME NEW t \in Thread, ReloadCommit(t) PROVE HasObject'
  <2> DEFINE o == [Object(t) EXCEPT !.backed = TRUE]
  <2>1. Object(t) \in KeyObject /\ Object(t).max > 0
    BY <1>10, <1>0 DEF TypeOK, Object, Objects, ReloadCommit
  <2>2. o \in KeyObject /\ o # NoObject
    BY <2>1, ObjectChange, Positive DEF KeyObject
  <2>3. Put(NodeOf[t], thread[t].name, o) \/ UNCHANGED keyMap
    BY <1>10 DEF ReloadCommit, Object
  <2> HIDE DEF o
  <2>4. thread[t].pc = "commit" /\ Goto(t, "take")
    BY <1>10 DEF ReloadCommit
  <2> QED BY <1>6, <2>2, <2>3, <2>4, <1>0, GotoEffect
<1>11. ASSUME NEW t \in Thread, Take(t) PROVE HasObject'
  <2> DEFINE o == [Object(t) EXCEPT !.value = @ + 1]
  <2>1. Object(t) \in KeyObject /\ Object(t).max > 0
    BY <1>11, <1>0 DEF TypeOK, Object, Objects, Take
  <2>2. o \in KeyObject /\ o # NoObject
    BY <2>1, ObjectChange, Positive DEF KeyObject
  <2>3. Put(NodeOf[t], thread[t].name, o)
    BY <1>11 DEF Take, Object
  <2> HIDE DEF o
  <2> QED BY <1>11, <1>6, <2>2, <2>3, ReturnEffect DEF Take
<1>12. CASE NextDay
  BY <1>12 DEF NextDay
<1>13. ASSUME NEW n \in Node, Crash(n) PROVE HasObject'
  <2>1. /\ \A m \in Node : m # n => keyMap'[m] = keyMap[m]
        /\ \A u \in Thread : thread'[u] = IF NodeOf[u] = n THEN Idle ELSE thread[u]
    BY <1>13 DEF Crash, TypeOK
  <2> SUFFICES ASSUME NEW u \in Thread, thread'[u].pc # "idle"
               PROVE  /\ thread'[u] = thread[u]
                      /\ keyMap'[NodeOf[u]] = keyMap[NodeOf[u]]
    BY <1>0
  <2>2. Idle.pc = "idle"
    BY DEF Idle
  <2> QED BY <2>1, <2>2, <1>0
<1>14. CASE UNCHANGED vars
  BY <1>14 DEF vars
<1> QED
  BY <1>1, <1>2, <1>3, <1>4, <1>5, <1>7, <1>8, <1>9, <1>10, <1>11, <1>12, <1>13, <1>14
  DEF Next, GeneratorStep

-----------------------------------------------------------------------------
(* The numbers. *)

Numbers == InFlight /\ BelowRow /\ BlocksApart /\ IssuedIsUsedUp

\* The field types, one by one.
Typed ==
    /\ today \in Nat
    /\ \A k \in Name : table[k].max \in Nat /\ table[k].date \in Nat
    /\ \A n \in Node, k \in Name :
          /\ keyMap[n][k].value \in Nat /\ keyMap[n][k].max \in Nat
          /\ keyMap[n][k].keyDate \in Nat /\ keyMap[n][k].prefix \in Nat
          /\ keyMap[n][k].backed \in BOOLEAN
    /\ \A t \in Thread : NodeOf[t] \in Node /\ thread[t].name \in Name
    /\ \A x \in issued : x.name \in Name /\ x.prefix \in Nat /\ x.value \in Nat

LEMMA TypedFields == TypeOK => Typed
  BY ThreadAssumption DEF TypeOK, Typed, Row, KeyObject, ThreadState, Numbered

\* Steps that at most make an object useless, insert a missing row or let a
\* day pass, and let no thread pick up a row.
LEMMA HarmlessStep ==
  ASSUME IInv, TypeOK', UNCHANGED issued, today <= today',
         \A k \in Name : \/ table'[k] = table[k]
                         \/ table[k] = NoRow /\ table'[k] = [max |-> 1, date |-> today],
         \A n \in Node, k \in Name :
            \/ keyMap'[n][k] = keyMap[n][k]
            \/ /\ ~keyMap'[n][k].backed
               /\ ~IsDateKey(k) => keyMap'[n][k].prefix = 0
               /\ keyMap'[n][k] # NoObject => keyMap'[n][k].max > 0,
         \A u \in Thread : HoldsRow(u)' =>
            /\ HoldsRow(u) /\ thread'[u].name = thread[u].name
            /\ Object(u)' = Object(u)
  PROVE  (Rows /\ Objects /\ Numbers)'
<1> USE DEF IInv
<1>1. Typed /\ Typed'
  BY TypedFields, PTL
<1>2. Rows'
  BY <1>1 DEF Rows, Typed, NoRow
<1>3. Objects'
  BY DEF Objects, Known
<1>4. InFlight'
  <2> SUFFICES ASSUME NEW u \in Thread, HoldsRow(u)'
               PROVE  /\ table'[thread'[u].name] # NoRow
                      /\ Follows(thread[u].name, Object(u), table[thread[u].name])'
    BY DEF InFlight
  <2>1. /\ table[thread[u].name] # NoRow
        /\ Follows(thread[u].name, Object(u), table[thread[u].name])
        /\ thread'[u].name = thread[u].name /\ Object(u)' = Object(u)
    BY DEF InFlight
  <2>2. table'[thread[u].name] = table[thread[u].name]
    BY <2>1, <1>1 DEF Typed
  <2>3. thread'[u].name = thread[u].name /\ table'[thread'[u].name] # NoRow
    BY ONLY <2>1, <2>2
  <2>4. today' >= today /\ today \in Nat /\ today' \in Nat
    BY <1>1 DEF Typed
  <2>5. Object(u).keyDate \in Nat
    BY <1>1 DEF Typed, Object
  <2>6. Follows(thread[u].name, Object(u), table[thread[u].name])'
    BY ONLY <2>1, <2>2, <2>4, <2>5, thread'[u].name = thread[u].name DEF Follows, IsDateKey
  <2> QED BY <2>3, <2>6
<1>5. BelowRow'
  <2>1. ASSUME NEW k \in Name, NEW p \in Nat, NEW e \in Nat, Below(p, e, k, table[k])
        PROVE  Below(p, e, k, table'[k])
    BY <2>1, <1>1 DEF Below, Epoch, NoRow, Rows, Typed
  <2> QED BY <2>1, <1>1 DEF BelowRow, Typed
<1>6. BlocksApart'
  BY DEF BlocksApart, Apart
<1>7. IssuedIsUsedUp'
  BY <1>1 DEF IssuedIsUsedUp, Typed
<1> QED BY <1>2, <1>3, <1>4, <1>5, <1>6, <1>7 DEF Numbers

\* The step that reads the row: the block in hand follows it, and only its
\* thread has the row.
LEMMA SelectStep ==
  ASSUME IInv, TypeOK', NEW t \in Thread, ReloadSelect(t)
  PROVE  (Rows /\ Objects /\ Numbers)'
<1> DEFINE n == NodeOf[t]
           k == thread[t].name
           o == Loaded(k, Object(t), table[k])
<1> USE DEF IInv
<1>0. Typed /\ Typed'
  BY TypedFields, PTL
<1>1. Typed /\ Typed' /\ n \in Node /\ k \in Name
  BY <1>0 DEF Typed
<1>2. /\ UNCHANGED <<table, issued, today>>
      /\ \A m \in Node, j \in Name :
            keyMap'[m][j] = IF m = n /\ j = k THEN o ELSE keyMap[m][j]
  BY <1>1, PutEffect DEF ReloadSelect, Object, keys
<1>3. /\ thread'[t].name = k
      /\ \A u \in Thread \ {t} :
            /\ thread'[u].pc = thread[u].pc /\ thread'[u].name = thread[u].name
            /\ HoldsRow(u) => thread[u].name # k
  BY GotoEffect DEF ReloadSelect, RowFree
<1>4. Object(t) \in KeyObject /\ table[k] \in Row /\ table[k] # NoRow
  BY <1>1 DEF TypeOK, Object, ReloadSelect
<1>5. /\ ~o.backed /\ o.max > 0
      /\ ~IsDateKey(k) => o.prefix = 0
  BY <1>1, <1>4, LoadedMax DEF Objects, Object
<1>6. Follows(k, o, table[k])
  <2>1. o.value < o.max
    BY <1>4, <1>1, LoadedMax
  <2>2. table[k].date <= today
    BY <1>1 DEF Rows
  <2>3. table[k].date \in Nat /\ table[k].max \in Nat /\ today \in Nat
    BY <1>1 DEF Typed
  <2>4. /\ o.keyDate = IF IsDateKey(k) /\ table[k].date # today THEN today ELSE table[k].date
        /\ o.value = IF IsDateKey(k) /\ table[k].date # today THEN 1 ELSE table[k].max
        /\ IsDateKey(k) => o.prefix = o.keyDate
    BY ONLY DEF Loaded
  <2> HIDE DEF o
  <2> QED BY ONLY <1>5, <2>1, <2>2, <2>3, <2>4 DEF Follows
<1> HIDE DEF o
<1>7. Rows' /\ Objects'
  BY <1>2, <1>5 DEF Rows, Objects, Known
<1>8. InFlight'
  <2> SUFFICES ASSUME NEW u \in Thread, HoldsRow(u)'
               PROVE  /\ table'[thread'[u].name] # NoRow
                      /\ Follows(thread[u].name, Object(u), table[thread[u].name])'
    BY DEF InFlight
  <2>1. CASE u = t
    <3>1. Object(t)' = o
      BY <1>1, <1>2, <1>3 DEF Object
    <3> QED BY <2>1, <3>1, <1>2, <1>3, <1>4, <1>6 DEF Follows, IsDateKey
  <2>2. CASE u # t
    <3>1. HoldsRow(u) /\ thread'[u].name = thread[u].name /\ thread[u].name # k
      BY <2>2, <1>3 DEF HoldsRow
    <3>2. Object(u)' = Object(u)
      BY <3>1, <1>1, <1>2 DEF Object, Typed
    <3> QED BY <3>1, <3>2, <1>2 DEF InFlight, Follows, IsDateKey
  <2> QED BY <2>1, <2>2
<1>9. BelowRow'
  BY <1>1, <1>2, <1>5 DEF BelowRow, Below, Epoch, IsDateKey, Typed
<1>10. BlocksApart'
  BY <1>2, <1>5 DEF BlocksApart, Apart
<1>11. IssuedIsUsedUp'
  BY <1>1, <1>2, <1>5 DEF IssuedIsUsedUp, Typed
<1> QED BY <1>7, <1>8, <1>9, <1>10, <1>11 DEF Numbers

\* The step that makes a block backed and moves the row behind it.
LEMMA WrittenStep ==
  ASSUME IInv, TypeOK', NEW t \in Thread, thread[t].pc = "commit", Goto(t, "take"),
         table' = [table EXCEPT ![thread[t].name] =
                      [max |-> Object(t).max, date |-> Object(t).keyDate]],
         Put(NodeOf[t], thread[t].name, [Object(t) EXCEPT !.backed = TRUE]),
         UNCHANGED <<issued, today>>
  PROVE  (Rows /\ Objects /\ Numbers)'
<1> DEFINE n == NodeOf[t]
           k == thread[t].name
           o == [Object(t) EXCEPT !.backed = TRUE]
<1> USE DEF IInv
<1>0. Typed /\ Typed'
  BY TypedFields, PTL
<1>1. Typed /\ Typed' /\ n \in Node /\ k \in Name
  BY <1>0 DEF Typed
<1>2. Object(t) \in KeyObject
  BY <1>1 DEF TypeOK, Object
<1>3. /\ o.backed /\ o.max = Object(t).max /\ o.value = Object(t).value
      /\ o.prefix = Object(t).prefix
  BY <1>2, ObjectChange
<1>4. \A m \in Node, j \in Name :
         keyMap'[m][j] = IF m = n /\ j = k THEN o ELSE keyMap[m][j]
  BY <1>1, PutEffect
<1>5. /\ table'[k].max = o.max /\ table'[k].date = Object(t).keyDate
      /\ \A j \in Name : j # k => table'[j] = table[j]
  BY <1>1, <1>3 DEF TypeOK
<1>6. \A u \in Thread : HoldsRow(u)' =>
         /\ u # t /\ HoldsRow(u) /\ thread'[u].name = thread[u].name
         /\ thread[u].name # k
  BY GotoEffect DEF HoldsRow, Locks
<1>7. Follows(k, Object(t), table[k])
  BY DEF InFlight, HoldsRow
<1>8. o.prefix = Epoch(k, table'[k])
  BY <1>7, <1>3, <1>5, <1>1 DEF Follows, Epoch, Objects, Object
<1>9. Epoch(k, table[k]) <= Epoch(k, table'[k])
  BY <1>7, <1>5, <1>1 DEF Follows, Epoch, Typed
<1>10. Epoch(k, table[k]) = Epoch(k, table'[k]) => table[k].max <= o.value
  BY <1>7, <1>3, <1>5, <1>1 DEF Follows, Epoch, Typed
<1>11. o.value \in Nat /\ o.max \in Nat /\ o.prefix \in Nat /\ o.value < o.max
  BY <1>2, <1>3, <1>7 DEF KeyObject, Follows
<1> HIDE DEF o
<1>12. Rows'
  BY <1>1, <1>5, <1>7, <1>11 DEF Rows, Follows, Typed, NoRow
<1>13. Objects'
  <2>1. \A m \in Node, j \in Name : /\ ~IsDateKey(j) => keyMap[m][j].prefix = 0
                                    /\ keyMap[m][j] # NoObject => keyMap[m][j].max > 0
    BY DEF Objects, Known
  <2>2. o.prefix = keyMap[n][k].prefix /\ o.max > 0
    BY ONLY <1>3, <1>11 DEF Object
  <2> SUFFICES ASSUME NEW m \in Node, NEW j \in Name
               PROVE  /\ ~IsDateKey(j) => keyMap'[m][j].prefix = 0
                      /\ keyMap'[m][j] # NoObject => keyMap'[m][j].max > 0
    BY DEF Objects, Known
  <2>3. CASE m = n /\ j = k
    <3>1. keyMap'[m][j] = o
      BY <1>4, <2>3
    <3> QED BY ONLY <2>1, <2>2, <2>3, <3>1, m \in Node, j \in Name
  <2>4. CASE ~(m = n /\ j = k)
    BY <1>4, <2>1, <2>4
  <2> QED BY <2>3, <2>4
<1>14. InFlight'
  <2> SUFFICES ASSUME NEW u \in Thread, HoldsRow(u)'
               PROVE  /\ table'[thread'[u].name] # NoRow
                      /\ Follows(thread[u].name, Object(u), table[thread[u].name])'
    BY DEF InFlight
  <2>1. Object(u)' = Object(u) /\ table'[thread[u].name] = table[thread[u].name]
    <3>1. /\ thread[u].name \in Name /\ NodeOf[u] \in Node
          /\ thread'[u].name = thread[u].name /\ thread[u].name # k
      BY <1>1, <1>6 DEF Typed
    <3> QED BY ONLY <3>1, <1>4, <1>5, <1>1 DEF Object
  <2> QED BY <2>1, <1>6 DEF InFlight, Follows, IsDateKey
<1>15. ASSUME NEW p \in Nat, NEW e \in Nat, Below(p, e, k, table[k])
       PROVE  /\ Below(p, e, k, table'[k])
              /\ p = o.prefix => e <= o.value
  <2>1. Epoch(k, table[k]) \in Nat /\ table[k].max \in Nat
    BY <1>1 DEF Epoch, Typed
  <2>2. p <= Epoch(k, table[k]) /\ (p = Epoch(k, table[k]) => e <= table[k].max)
    BY <1>15 DEF Below
  <2>3. p = o.prefix => e <= o.value
    BY <2>1, <2>2, <1>8, <1>9, <1>10, <1>11
  <2> QED BY <2>1, <2>2, <2>3, <1>5, <1>8, <1>9, <1>10, <1>11 DEF Below
<1>16. BelowRow'
  <2>1. ASSUME NEW m \in Node, NEW j \in Name, keyMap'[m][j].backed
        PROVE  Below(keyMap'[m][j].prefix, keyMap'[m][j].max, j, table'[j])
    <3>1. CASE m = n /\ j = k
      BY <3>1, <1>4, <1>5, <1>8, <1>11, <1>1 DEF Below, Typed
    <3>2. CASE j = k /\ m # n
      BY <3>2, <2>1, <1>4, <1>15, <1>1 DEF BelowRow, Typed
    <3>3. CASE j # k
      BY <3>3, <2>1, <1>4, <1>5 DEF BelowRow, Below, Epoch, IsDateKey
    <3> QED BY <3>1, <3>2, <3>3
  <2>2. ASSUME NEW x \in issued
        PROVE  Below(x.prefix, x.value + 1, x.name, table'[x.name])
    <3>1. Below(x.prefix, x.value + 1, x.name, table[x.name])
      BY DEF BelowRow
    <3>2. CASE x.name = k
      BY <3>1, <3>2, <1>15, <1>1 DEF Typed
    <3>3. CASE x.name # k
      BY <3>1, <3>3, <1>5, <1>1 DEF Below, Epoch, Typed
    <3> QED BY <3>2, <3>3
  <2> QED BY <2>1, <2>2 DEF BelowRow, Below, Epoch, IsDateKey
<1>17. BlocksApart'
  <2> SUFFICES ASSUME NEW l \in Node, NEW m \in Node, NEW j \in Name, l # m,
                      keyMap'[l][j].backed, keyMap'[m][j].backed,
                      keyMap'[l][j].prefix = keyMap'[m][j].prefix
               PROVE  Apart(keyMap'[l][j], keyMap'[m][j])
    BY DEF BlocksApart, Apart
  <2>1. CASE j = k /\ l = n
    <3>1. keyMap[m][k].backed /\ keyMap[m][k].prefix = o.prefix
      BY <2>1, <1>4, <1>1
    <3>2. keyMap[m][k].max <= o.value
      BY <3>1, <1>15, <1>1 DEF BelowRow, Typed
    <3> QED BY <2>1, <3>2, <1>4, <1>1 DEF Apart
  <2>2. CASE j = k /\ m = n
    <3>1. keyMap[l][k].backed /\ keyMap[l][k].prefix = o.prefix
      BY <2>2, <1>4, <1>1
    <3>2. keyMap[l][k].max <= o.value
      BY <3>1, <1>15, <1>1 DEF BelowRow, Typed
    <3> QED BY <2>2, <3>2, <1>4, <1>1 DEF Apart
  <2>3. CASE j # k \/ (l # n /\ m # n)
    BY <2>3, <1>4 DEF BlocksApart
  <2> QED BY <2>1, <2>2, <2>3
<1>18. IssuedIsUsedUp'
  <2> SUFFICES ASSUME NEW x \in issued, NEW m \in Node,
                      keyMap'[m][x.name].backed, keyMap'[m][x.name].prefix = x.prefix
               PROVE  \/ x.value < keyMap'[m][x.name].value
                      \/ keyMap'[m][x.name].max <= x.value
    BY DEF IssuedIsUsedUp
  <2>1. CASE m = n /\ x.name = k
    <3>1. Below(x.prefix, x.value + 1, k, table[k])
      BY <2>1 DEF BelowRow
    <3>2. x.value + 1 <= o.value
      <4>1. o.prefix = x.prefix
        BY <2>1, <1>4, <1>1
      <4>2. x.prefix \in Nat /\ x.value + 1 \in Nat
        BY <1>1 DEF Typed
      <4> QED BY ONLY <1>15, <3>1, <4>1, <4>2
    <3>3. keyMap'[m][x.name] = o
      BY <2>1, <1>4, <1>1
    <3>4. x.value \in Nat
      BY <1>1 DEF Typed
    <3> QED BY ONLY <3>2, <3>3, <3>4, <1>11
  <2>2. CASE m # n \/ x.name # k
    BY <2>2, <1>4, <1>1 DEF IssuedIsUsedUp, Typed
  <2> QED BY <2>1, <2>2
<1> QED BY <1>12, <1>13, <1>14, <1>16, <1>17, <1>18 DEF Numbers

\* A backed number about to be given out was not given out before.
LEMMA FreshKey ==
  ASSUME IInv, NEW t \in Thread, Object(t).backed, Object(t).value < Object(t).max
  PROVE  NumberOf(thread[t].name, Object(t)) \notin issued
<1> DEFINE x == NumberOf(thread[t].name, Object(t))
<1>1. /\ x.name = thread[t].name /\ x.prefix = Object(t).prefix
      /\ x.value = Object(t).value
  BY DEF NumberOf
<1>2. Typed
  BY TypedFields DEF IInv
<1>3. x \in issued => x.value < Object(t).value \/ Object(t).max <= x.value
  BY <1>1, <1>2 DEF IInv, IssuedIsUsedUp, Object, Typed
<1>4. Object(t).value \in Nat /\ Object(t).max \in Nat
  BY <1>2 DEF Typed, Object
<1> QED BY <1>1, <1>3, <1>4

\* The step that gives a key out and moves the object on by one.
LEMMA TakeStep ==
  ASSUME IInv, TypeOK', NEW t \in Thread, Take(t)
  PROVE  (Rows /\ Objects /\ Numbers)'
<1> DEFINE n == NodeOf[t]
           k == thread[t].name
           o == [Object(t) EXCEPT !.value = @ + 1]
           x == NumberOf(k, Object(t))
<1> USE DEF IInv
<1>0. Typed /\ Typed'
  BY TypedFields, PTL
<1>1. Typed /\ Typed' /\ n \in Node /\ k \in Name
  BY <1>0 DEF Typed
<1>2. Object(t) \in KeyObject
  BY <1>1 DEF TypeOK, Object
<1>3. /\ o.value = Object(t).value + 1
      /\ o.max = Object(t).max /\ o.prefix = Object(t).prefix /\ o.backed = Object(t).backed
      /\ Object(t).value \in Nat /\ Object(t).max \in Nat /\ Object(t).prefix \in Nat
  <2>1. Object(t).value + 1 \in Nat
    BY <1>2 DEF KeyObject
  <2> QED BY <1>2, <2>1, ObjectChange DEF KeyObject
<1>4. \A m \in Node, j \in Name :
         keyMap'[m][j] = IF m = n /\ j = k THEN o ELSE keyMap[m][j]
  <2>1. Put(n, k, o)
    BY DEF Take, Object
  <2> HIDE DEF o
  <2> QED BY <1>1, <2>1, PutEffect
<1>5. UNCHANGED <<table, today>>
  BY DEF Take
<1>6. /\ x.name = k /\ x.prefix = Object(t).prefix /\ x.value = Object(t).value
      /\ \/ UNCHANGED issued
         \/ issued' = issued \cup {x} /\ Object(t).backed /\ Object(t).value < Object(t).max
  BY DEF Take, NumberOf, Object
<1>7. \A u \in Thread : HoldsRow(u)' =>
         /\ u # t /\ HoldsRow(u) /\ thread'[u].name = thread[u].name
         /\ ~(NodeOf[u] = n /\ thread[u].name = k)
  BY ReturnEffect DEF Take, HoldsRow, Locks, InMonitor
<1> HIDE DEF o, x
<1>8. Rows'
  BY <1>5 DEF Rows
<1>9. Objects'
  <2>1. \A m \in Node, j \in Name : /\ ~IsDateKey(j) => keyMap[m][j].prefix = 0
                                    /\ keyMap[m][j] # NoObject => keyMap[m][j].max > 0
    BY DEF Objects, Known
  <2>2. keyMap[n][k] # NoObject
    BY DEF HasObject, Take, Known
  <2>3. o.prefix = keyMap[n][k].prefix /\ o.max = keyMap[n][k].max
    BY <1>3 DEF Object
  <2> SUFFICES ASSUME NEW m \in Node, NEW j \in Name
               PROVE  /\ ~IsDateKey(j) => keyMap'[m][j].prefix = 0
                      /\ keyMap'[m][j] # NoObject => keyMap'[m][j].max > 0
    BY DEF Objects, Known
  <2>4. CASE m = n /\ j = k
    <3>1. keyMap'[m][j] = o /\ keyMap[m][j] = keyMap[n][k]
      BY <1>4, <2>4
    <3> QED BY ONLY <2>1, <2>2, <2>3, <2>4, <3>1, m \in Node, j \in Name
  <2>5. CASE ~(m = n /\ j = k)
    BY <1>4, <2>1, <2>5
  <2> QED BY <2>4, <2>5
<1>10. InFlight'
  <2> SUFFICES ASSUME NEW u \in Thread, HoldsRow(u)'
               PROVE  /\ table'[thread'[u].name] # NoRow
                      /\ Follows(thread[u].name, Object(u), table[thread[u].name])'
    BY DEF InFlight
  <2>1. Object(u)' = Object(u)
    BY <1>1, <1>4, <1>7 DEF Object, Typed
  <2> QED BY <2>1, <1>5, <1>7 DEF InFlight, Follows, IsDateKey
<1>11. BelowRow'
  <2>1. ASSUME NEW m \in Node, NEW j \in Name, keyMap'[m][j].backed
        PROVE  Below(keyMap'[m][j].prefix, keyMap'[m][j].max, j, table'[j])
    BY <2>1, <1>3, <1>4, <1>5 DEF BelowRow, Object
  <2>2. ASSUME NEW y \in issued'
        PROVE  Below(y.prefix, y.value + 1, y.name, table'[y.name])
    <3>1. CASE y \in issued
      BY <3>1, <1>5 DEF BelowRow
    <3>2. CASE y = x /\ Object(t).backed /\ Object(t).value < Object(t).max
      <4>1. Below(Object(t).prefix, Object(t).max, k, table[k])
        BY <3>2, <1>1 DEF BelowRow, Object
      <4>2. Epoch(k, table[k]) \in Nat /\ table[k].max \in Nat
        BY <1>1 DEF Epoch, Typed
      <4> QED BY <4>1, <4>2, <3>2, <1>3, <1>5, <1>6 DEF Below
    <3> QED BY <3>1, <3>2, <2>2, <1>6
  <2> QED BY <2>1, <2>2 DEF BelowRow, Below, Epoch, IsDateKey
<1>12. BlocksApart'
  <2> SUFFICES ASSUME NEW l \in Node, NEW m \in Node, NEW j \in Name, l # m,
                      keyMap'[l][j].backed, keyMap'[m][j].backed,
                      keyMap'[l][j].prefix = keyMap'[m][j].prefix
               PROVE  Apart(keyMap'[l][j], keyMap'[m][j])
    BY DEF BlocksApart, Apart
  <2>1. \A i \in Node : /\ keyMap'[i][j].backed = keyMap[i][j].backed
                        /\ keyMap'[i][j].prefix = keyMap[i][j].prefix
                        /\ keyMap'[i][j].max = keyMap[i][j].max
                        /\ keyMap'[i][j].value >= keyMap[i][j].value
    <3>1. keyMap[n][k] = Object(t) /\ o.value >= Object(t).value
      BY ONLY <1>3 DEF Object
    <3>2. \A i \in Node : keyMap[i][j].value \in Nat
      BY ONLY <1>1, j \in Name DEF Typed
    <3>3. ASSUME NEW i \in Node, i = n, j = k
          PROVE  keyMap'[i][j] = o /\ keyMap[i][j] = Object(t)
      BY ONLY <1>4, <3>1, <3>3, j \in Name
    <3>4. ASSUME NEW i \in Node, ~(i = n /\ j = k)
          PROVE  keyMap'[i][j] = keyMap[i][j]
      BY ONLY <1>4, <3>4, j \in Name
    <3> QED BY ONLY <1>3, <3>1, <3>2, <3>3, <3>4
  <2>2. Apart(keyMap[l][j], keyMap[m][j])
    BY <2>1 DEF BlocksApart
  <2> QED BY <2>1, <2>2, <1>1 DEF Apart, Typed
<1>13. IssuedIsUsedUp'
  <2> SUFFICES ASSUME NEW y \in issued', NEW m \in Node,
                      keyMap'[m][y.name].backed, keyMap'[m][y.name].prefix = y.prefix
               PROVE  \/ y.value < keyMap'[m][y.name].value
                      \/ keyMap'[m][y.name].max <= y.value
    BY DEF IssuedIsUsedUp
  <2>1. CASE y \in issued
    <3>1. y.name \in Name /\ y.value \in Nat
      BY <2>1, <1>1 DEF Typed
    <3>2. CASE m = n /\ y.name = k
      <4>1. y.value < Object(t).value \/ Object(t).max <= y.value
        <5>1. keyMap'[n][k] = o /\ o.backed = Object(t).backed /\ o.prefix = Object(t).prefix
          BY ONLY <1>1, <1>3, <1>4
        <5>2. Object(t) = keyMap[m][y.name] /\ Object(t).backed /\ Object(t).prefix = y.prefix
          BY <3>2, <5>1 DEF Object
        <5> QED BY <2>1, <5>2 DEF IssuedIsUsedUp
      <4> QED BY <3>1, <3>2, <4>1, <1>1, <1>3, <1>4
    <3>3. CASE ~(m = n /\ y.name = k)
      BY <2>1, <3>1, <3>3, <1>4 DEF IssuedIsUsedUp
    <3> QED BY <3>2, <3>3
  <2>2. CASE y = x /\ Object(t).backed /\ Object(t).value < Object(t).max
    <3>1. CASE m = n
      BY <2>2, <3>1, <1>1, <1>3, <1>4, <1>6
    <3>2. CASE m # n
      <4>1. keyMap'[m][k] = keyMap[m][k]
        BY <3>2, <1>1, <1>4
      <4>2. Apart(Object(t), keyMap[m][k])
        BY <2>2, <3>2, <4>1, <1>1, <1>6 DEF BlocksApart, Object
      <4>3. keyMap[m][k].value \in Nat /\ keyMap[m][k].max \in Nat
        BY <1>1 DEF Typed
      <4> QED BY <2>2, <4>1, <4>2, <4>3, <1>3, <1>6 DEF Apart
    <3> QED BY <3>1, <3>2
  <2> QED BY <2>1, <2>2, <1>6
<1> QED BY <1>8, <1>9, <1>10, <1>11, <1>12, <1>13 DEF Numbers
-----------------------------------------------------------------------------
(* The invariant. *)

LEMMA InvInit == Init => IInv
<1> SUFFICES ASSUME Init PROVE IInv
  OBVIOUS
<1>1. TypeOK
  BY TypeInit
<1>2. \A t \in Thread : thread[t].pc = "idle"
  BY DEF Init, Idle
<1>3. \A n \in Node, k \in Name :
         /\ keyMap[n][k] = NoObject
         /\ ~keyMap[n][k].backed /\ keyMap[n][k].prefix = 0
  BY DEF Init, NoObject
<1>4. Locks /\ HasObject /\ InFlight
  BY <1>2 DEF Locks, HasObject, InFlight, InMonitor, HoldsRow
<1>5. Rows /\ Objects
  BY <1>3 DEF Init, Rows, Objects, Known, NoRow
<1>6. BelowRow /\ BlocksApart /\ IssuedIsUsedUp
  BY <1>3 DEF Init, BelowRow, BlocksApart, IssuedIsUsedUp
<1> QED BY <1>1, <1>4, <1>5, <1>6 DEF IInv

LEMMA NumbersStep == IInv /\ TypeOK' /\ [Next]_vars => (Rows /\ Objects /\ Numbers)'
<1> SUFFICES ASSUME IInv, TypeOK', [Next]_vars PROVE (Rows /\ Objects /\ Numbers)'
  OBVIOUS
<1>0. Typed /\ Locks /\ HasObject /\ Rows /\ Objects /\ TypeOK
  BY TypedFields DEF IInv
\* A thread that steps without holding the row, before or after.
<1>1. ASSUME NEW t \in Thread, ~HoldsRow(t)',
             \A u \in Thread \ {t} :
                thread'[u].pc = thread[u].pc /\ thread'[u].name = thread[u].name,
             UNCHANGED keyMap
      PROVE  \A u \in Thread : HoldsRow(u)' =>
                /\ HoldsRow(u) /\ thread'[u].name = thread[u].name
                /\ Object(u)' = Object(u)
  BY <1>1 DEF HoldsRow, Object
\* The same when it changes an object no other thread works with.
<1>2. ASSUME NEW t \in Thread, NEW o, ~HoldsRow(t)',
             \A u \in Thread \ {t} :
                thread'[u].pc = thread[u].pc /\ thread'[u].name = thread[u].name,
             Put(NodeOf[t], thread[t].name, o),
             ~Known(NodeOf[t], thread[t].name) \/ InMonitor(t)
      PROVE  \A u \in Thread : HoldsRow(u)' =>
                /\ HoldsRow(u) /\ thread'[u].name = thread[u].name
                /\ Object(u)' = Object(u)
  <2> SUFFICES ASSUME NEW u \in Thread, HoldsRow(u)'
               PROVE  /\ HoldsRow(u) /\ thread'[u].name = thread[u].name
                      /\ Object(u)' = Object(u)
    OBVIOUS
  <2>1. u # t /\ HoldsRow(u) /\ thread'[u].name = thread[u].name
    BY <1>2 DEF HoldsRow
  <2>2. ~(NodeOf[u] = NodeOf[t] /\ thread[u].name = thread[t].name)
    BY <2>1, <1>0, <1>2 DEF HoldsRow, InMonitor, Locks, HasObject
  <2>3. keyMap'[NodeOf[u]][thread[u].name] = keyMap[NodeOf[u]][thread[u].name]
    BY <2>2, <1>0, <1>2, PutEffect DEF Typed
  <2> QED BY <2>1, <2>3 DEF Object
<1>3. ASSUME NEW t \in Thread, NEW k \in Name, Lookup(t, k)
      PROVE  (Rows /\ Objects /\ Numbers)'
  <2>1. /\ thread'[t].pc \in {"enter", "create"}
        /\ \A u \in Thread \ {t} : thread'[u] = thread[u]
    BY <1>3, <1>0 DEF Lookup, TypeOK
  <2> QED BY <1>0, <1>1, <1>3, <2>1, HarmlessStep DEF Lookup, keys, HoldsRow, Typed
<1>4. ASSUME NEW t \in Thread, Probe(t) PROVE (Rows /\ Objects /\ Numbers)'
  <2> DEFINE n == NodeOf[t]
             k == thread[t].name
  <2>0. n \in Node /\ k \in Name
    BY <1>0 DEF Typed
  <2>1. CASE UNCHANGED keyMap
    <3>1. /\ ~HoldsRow(t)'
          /\ \A u \in Thread \ {t} :
                thread'[u].pc = thread[u].pc /\ thread'[u].name = thread[u].name
      BY <1>0, <1>4, GotoEffect DEF Probe, HoldsRow
    <3> QED BY <1>0, <1>1, <1>4, <2>1, <3>1, HarmlessStep DEF Probe, keys, Typed
  <2>2. CASE /\ ~Known(n, k) /\ table[k] # NoRow
             /\ Put(n, k, FromRow(table[k])) /\ Goto(t, "enter")
    <3>1. /\ ~HoldsRow(t)'
          /\ \A u \in Thread \ {t} :
                thread'[u].pc = thread[u].pc /\ thread'[u].name = thread[u].name
      BY <1>0, <2>2, GotoEffect DEF HoldsRow
    <3>2. \A u \in Thread : HoldsRow(u)' =>
             /\ HoldsRow(u) /\ thread'[u].name = thread[u].name
             /\ Object(u)' = Object(u)
      BY <3>1, <1>2, <2>2
    <3>3. /\ ~FromRow(table[k]).backed /\ FromRow(table[k]).prefix = 0
          /\ FromRow(table[k]).max > 0
      BY <1>0, <2>0, <2>2, FromRowFields DEF TypeOK, Rows
    <3>4. \A m \in Node, j \in Name :
             keyMap'[m][j] = IF m = n /\ j = k THEN FromRow(table[k]) ELSE keyMap[m][j]
      BY <1>0, <2>0, <2>2, PutEffect
    <3>5. UNCHANGED <<table, issued, today>>
      BY <1>4 DEF Probe, keys
    <3> HIDE DEF n, k
    <3> QED BY <1>0, <3>2, <3>3, <3>4, <3>5, HarmlessStep DEF Typed
  <2> QED BY <1>4, <2>1, <2>2 DEF Probe
<1>5. ASSUME NEW t \in Thread, Insert(t) PROVE (Rows /\ Objects /\ Numbers)'
  <2> DEFINE n == NodeOf[t]
             k == thread[t].name
  <2>1. n \in Node /\ k \in Name /\ ~Known(n, k)
    BY <1>0, <1>5 DEF Typed, HasObject, Insert
  <2>2. /\ ~HoldsRow(t)'
        /\ \A u \in Thread \ {t} :
              thread'[u].pc = thread[u].pc /\ thread'[u].name = thread[u].name
    BY <1>0, <1>5, GotoEffect DEF Insert, HoldsRow
  <2>3. Put(n, k, FirstObject)
    BY <1>5 DEF Insert, FirstObject
  <2>4. \A u \in Thread : HoldsRow(u)' =>
           /\ HoldsRow(u) /\ thread'[u].name = thread[u].name
           /\ Object(u)' = Object(u)
    BY <2>1, <2>2, <2>3, <1>2
  <2>5. \A m \in Node, j \in Name :
           keyMap'[m][j] = IF m = n /\ j = k THEN FirstObject ELSE keyMap[m][j]
    BY <1>0, <2>1, <2>3, PutEffect
  <2>6. \A j \in Name : \/ table'[j] = table[j]
                        \/ table[j] = NoRow /\ table'[j] = [max |-> 1, date |-> today]
    BY <1>0, <1>5 DEF Insert, TypeOK
  <2>7. UNCHANGED <<issued, today>>
    BY <1>5 DEF Insert, keys
  <2> HIDE DEF n, k
  <2> QED BY <1>0, <2>4, <2>5, <2>6, <2>7, FirstObjectFields, HarmlessStep DEF Typed
<1>6. ASSUME NEW t \in Thread, Enter(t) PROVE (Rows /\ Objects /\ Numbers)'
  <2>1. /\ ~HoldsRow(t)'
        /\ \A u \in Thread \ {t} :
              thread'[u].pc = thread[u].pc /\ thread'[u].name = thread[u].name
    BY <1>0, <1>6, GotoEffect DEF Enter, HoldsRow
  <2> QED BY <1>0, <1>1, <1>6, <2>1, HarmlessStep DEF Enter, keys, Typed
<1>7. ASSUME NEW t \in Thread, NoConnection(t) PROVE (Rows /\ Objects /\ Numbers)'
  <2>1. /\ ~HoldsRow(t)'
        /\ \A u \in Thread \ {t} :
              thread'[u].pc = thread[u].pc /\ thread'[u].name = thread[u].name
    BY <1>0, <1>7, ReturnEffect DEF NoConnection, HoldsRow
  <2> QED BY <1>0, <1>1, <1>7, <2>1, HarmlessStep DEF NoConnection, keys, Typed
<1>8. ASSUME NEW t \in Thread, ReloadSelect(t) PROVE (Rows /\ Objects /\ Numbers)'
  BY <1>8, SelectStep
<1>9. ASSUME NEW t \in Thread, ReloadSelectFails(t) PROVE (Rows /\ Objects /\ Numbers)'
  <2> DEFINE n == NodeOf[t]
             k == thread[t].name
             o == [Object(t) EXCEPT !.backed = FALSE]
  <2>1. n \in Node /\ k \in Name /\ Known(n, k) /\ Object(t) \in KeyObject
    BY <1>0, <1>9 DEF Typed, TypeOK, HasObject, ReloadSelectFails, Object
  <2>2. /\ ~HoldsRow(t)' /\ InMonitor(t)
        /\ \A u \in Thread \ {t} :
              thread'[u].pc = thread[u].pc /\ thread'[u].name = thread[u].name
    BY <1>0, <1>9, GotoEffect DEF ReloadSelectFails, HoldsRow, InMonitor
  <2>3. Put(n, k, o)
    BY <1>9 DEF ReloadSelectFails, Object
  <2>4. \A u \in Thread : HoldsRow(u)' =>
           /\ HoldsRow(u) /\ thread'[u].name = thread[u].name
           /\ Object(u)' = Object(u)
    BY <2>2, <2>3, <1>2
  <2>5. ~o.backed /\ o.max = Object(t).max /\ o.prefix = Object(t).prefix
    BY <2>1, ObjectChange
  <2>6. /\ o.max > 0
        /\ ~IsDateKey(k) => o.prefix = 0
    BY <1>0, <2>1, <2>5 DEF Objects, Object
  <2>7. \A m \in Node, j \in Name :
           keyMap'[m][j] = IF m = n /\ j = k THEN o ELSE keyMap[m][j]
    BY <1>0, <2>1, <2>3, PutEffect
  <2>8. UNCHANGED <<table, issued, today>>
    BY <1>9 DEF ReloadSelectFails, keys
  <2> HIDE DEF n, k, o
  <2> QED BY <1>0, <2>4, <2>5, <2>6, <2>7, <2>8, HarmlessStep DEF Typed
<1>10. ASSUME NEW t \in Thread, ReloadUpdate(t) PROVE (Rows /\ Objects /\ Numbers)'
  <2>1. UNCHANGED <<table, keyMap, issued, today>> /\ HoldsRow(t)
    BY <1>10 DEF ReloadUpdate, keys, HoldsRow
  <2>2. \A u \in Thread : HoldsRow(u)' =>
           /\ HoldsRow(u) /\ thread'[u].name = thread[u].name
           /\ Object(u)' = Object(u)
    BY <1>0, <1>10, <2>1, UpdateEffect DEF HoldsRow, Object
  <2> QED BY <1>0, <2>1, <2>2, HarmlessStep DEF Typed
<1>11. ASSUME NEW t \in Thread, ReloadCommit(t) PROVE (Rows /\ Objects /\ Numbers)'
  <2>1. CASE UNCHANGED <<table, keyMap>>
    <3>1. /\ ~HoldsRow(t)'
          /\ \A u \in Thread \ {t} :
                thread'[u].pc = thread[u].pc /\ thread'[u].name = thread[u].name
      BY <1>0, <1>11, GotoEffect DEF ReloadCommit, HoldsRow
    <3> QED BY <1>0, <1>1, <1>11, <2>1, <3>1, HarmlessStep DEF ReloadCommit, keys, Typed
  <2>2. CASE ~UNCHANGED <<table, keyMap>>
    BY <1>11, <2>2, WrittenStep DEF ReloadCommit, Object, keys
  <2> QED BY <2>1, <2>2
<1>12. ASSUME NEW t \in Thread, Take(t) PROVE (Rows /\ Objects /\ Numbers)'
  BY <1>12, TakeStep
<1>13. CASE NextDay
  <2>1. /\ UNCHANGED <<table, keyMap, thread, issued>>
        /\ today <= today'
    BY <1>0, <1>13 DEF NextDay, keys, Typed
  <2> QED BY <1>0, <2>1, HarmlessStep DEF HoldsRow, Object
<1>14. ASSUME NEW n \in Node, Crash(n) PROVE (Rows /\ Objects /\ Numbers)'
  <2>1. /\ UNCHANGED <<table, today, issued>>
        /\ \A m \in Node, k \in Name :
              keyMap'[m][k] = IF m = n THEN NoObject ELSE keyMap[m][k]
        /\ \A u \in Thread : thread'[u] = IF NodeOf[u] = n THEN Idle ELSE thread[u]
    BY <1>0, <1>14 DEF Crash, TypeOK, keys
  <2>2. Idle.pc = "idle" /\ ~NoObject.backed /\ NoObject.prefix = 0
    BY DEF Idle, NoObject
  <2>3. \A u \in Thread : HoldsRow(u)' =>
           /\ HoldsRow(u) /\ thread'[u].name = thread[u].name
           /\ Object(u)' = Object(u)
    BY <1>0, <2>1, <2>2 DEF HoldsRow, Object, Typed
  <2> QED BY <1>0, <2>1, <2>2, <2>3, HarmlessStep DEF Typed
<1>15. CASE UNCHANGED vars
  BY <1>0, <1>15, HarmlessStep DEF vars, HoldsRow, Object, Typed
<1> QED
  BY <1>3, <1>4, <1>5, <1>6, <1>7, <1>8, <1>9, <1>10, <1>11, <1>12, <1>13, <1>14, <1>15
  DEF Next, GeneratorStep

LEMMA InvStep == IInv /\ [Next]_vars => IInv'
  BY TypeStep, LocksStep, HasObjectStep, NumbersStep DEF IInv, Control, Numbers

LEMMA Invariant == Spec => []IInv
  BY InvInit, InvStep, PTL DEF Spec
-----------------------------------------------------------------------------
(* The properties. *)

\* Two servers never hold the same unused number of a name (the blocks that
\* getKeyObject and reLoadKeyObject put into their KeyObjects).
THEOREM BlocksAreDisjoint == Spec => []BlocksDisjoint
<1>1. IInv => BlocksDisjoint
  <2> SUFFICES ASSUME IInv,
                      NEW n \in Node, NEW m \in Node, NEW k \in Name, n # m,
                      keyMap[n][k].backed, keyMap[m][k].backed,
                      keyMap[n][k].prefix = keyMap[m][k].prefix,
                      NEW v \in Unused(keyMap[n][k]), v \in Unused(keyMap[m][k])
               PROVE  FALSE
    BY DEF BlocksDisjoint
  <2>1. Typed
    BY TypedFields DEF IInv
  <2>2. Apart(keyMap[n][k], keyMap[m][k])
    BY DEF IInv, BlocksApart
  <2> QED BY <2>1, <2>2 DEF Apart, Unused, Typed
<1> QED BY <1>1, Invariant, PTL

\* What a step does to the row of one name: insertKey fills an empty one, the
\* commit of reLoadKeyObject moves it, nothing else writes it.
RowMovesOn(k) ==
    \/ table[k].date < table'[k].date
    \/ table[k].date = table'[k].date /\ table[k].max <= table'[k].max

LEMMA RowStep ==
  ASSUME IInv, [Next]_vars, NEW k \in Name
  PROVE  RowMovesOn(k)
<1>0. Typed /\ TypeOK /\ Rows
  BY TypedFields DEF IInv
<1>1. ASSUME table' = table PROVE RowMovesOn(k)
  BY <1>0, <1>1 DEF RowMovesOn, Typed
<1>2. ASSUME NEW t \in Thread, Insert(t) PROVE RowMovesOn(k)
  <2>1. \/ table'[k] = table[k]
        \/ table[k] = NoRow /\ table'[k] = [max |-> 1, date |-> today]
    BY <1>0, <1>2 DEF Insert, TypeOK
  <2> QED BY <1>0, <2>1 DEF RowMovesOn, Typed, NoRow, Rows
<1>3. ASSUME NEW t \in Thread, ReloadCommit(t) PROVE RowMovesOn(k)
  <2>1. Follows(thread[t].name, Object(t), table[thread[t].name])
    BY <1>3 DEF IInv, InFlight, ReloadCommit, HoldsRow
  <2>2. Object(t) \in KeyObject
    BY <1>0 DEF Typed, TypeOK, Object
  <2>3. CASE table' = [table EXCEPT ![thread[t].name] =
                          [max |-> Object(t).max, date |-> Object(t).keyDate]]
    <3>1. CASE k = thread[t].name
      <4>1. table'[k].max = Object(t).max /\ table'[k].date = Object(t).keyDate
        BY <1>0, <2>3, <3>1 DEF TypeOK
      <4>2. /\ table[k].date <= Object(t).keyDate
            /\ Object(t).keyDate = table[k].date => table[k].max <= Object(t).value
            /\ Object(t).value < Object(t).max
        BY <2>1, <3>1 DEF Follows
      <4> QED BY <1>0, <2>2, <4>1, <4>2 DEF RowMovesOn, Typed, KeyObject
    <3>2. CASE k # thread[t].name
      BY <1>0, <2>3, <3>2 DEF RowMovesOn, TypeOK, Typed
    <3> QED BY <3>1, <3>2
  <2> QED BY <1>1, <1>3, <2>3 DEF ReloadCommit, Object
<1>4. CASE NextDay \/ UNCHANGED vars \/ \E n \in Node : Crash(n)
  BY <1>1, <1>4 DEF NextDay, Crash, vars
<1>5. ASSUME NEW t \in Thread,
             \/ \E j \in Name : Lookup(t, j)
             \/ Probe(t) \/ Enter(t) \/ NoConnection(t) \/ ReloadSelect(t)
             \/ ReloadSelectFails(t) \/ ReloadUpdate(t) \/ Take(t)
      PROVE  RowMovesOn(k)
  BY <1>1, <1>5 DEF Lookup, Probe, Enter, NoConnection, ReloadSelect, ReloadSelectFails,
                    ReloadUpdate, Take
<1> QED BY <1>2, <1>3, <1>4, <1>5 DEF Next, GeneratorStep

\* The row of a name in RS_KEY_TABLE never goes back, whichever server writes
\* it and whichever statement of reLoadKeyObject fails.
THEOREM RowNeverFalls == Spec => HighWaterNeverFalls
<1>1. IInv /\ [Next]_vars =>
         [\A k \in Name :
             \/ table[k].date < table'[k].date
             \/ table[k].date = table'[k].date /\ table[k].max <= table'[k].max]_table
  BY RowStep DEF RowMovesOn
<1> QED BY <1>1, Invariant, PTL DEF Spec, HighWaterNeverFalls

\* Two numbers that reach the caller as the same key are index numbers of two
\* dates.
LEMMA SameKey ==
  ASSUME NEW x \in Numbered, NEW v \in Numbered, KeyOf(v) = KeyOf(x), v # x
  PROVE  Kind[x.name] = "index" /\ v.prefix # x.prefix
<1>1. /\ x = [name |-> x.name, prefix |-> x.prefix, value |-> x.value]
      /\ v = [name |-> v.name, prefix |-> v.prefix, value |-> v.value]
  BY DEF Numbered
<1>2. /\ KeyOf(x).name = x.name /\ KeyOf(x).value = x.value
      /\ KeyOf(v).name = v.name /\ KeyOf(v).value = v.value
  BY DEF KeyOf, Numbered
<1>3. x.name = v.name /\ x.value = v.value
  BY <1>2
<1>4. v.prefix # x.prefix
  BY <1>1, <1>3
<1>5. Kind[x.name] = "index"
  BY <1>3 DEF KeyOf
<1> QED BY <1>4, <1>5

\* The callers' view of the numbers that were handed out (used of IdSource).
Given == {[key |-> KeyOf(x), day |-> x.prefix] : x \in issued}

\* On all servers together, return keyValue++ gives out a number of a backed
\* block as a key that is new, or (getIndexKey) new for the block's date: the
\* generator implements IdSource.
THEOREM GeneratesUniqueKeys == Spec => ImplementsIdSource
<1>1. Init => Ids!IdInit
  BY DEF Init, Ids!IdInit
<1>2. IInv /\ [Next]_vars => [Ids!IdNext]_<<Given, answers>>
  <2> SUFFICES ASSUME IInv, [Next]_vars
               PROVE  Ids!IdNext \/ UNCHANGED <<Given, answers>>
    OBVIOUS
  <2>1. ASSUME NEW t \in Thread, Take(t)
        PROVE  Ids!IdNext \/ UNCHANGED <<Given, answers>>
    <3> DEFINE x == NumberOf(thread[t].name, Object(t))
               u == [key |-> KeyOf(x), day |-> x.prefix]
    <3>1. CASE Object(t).backed /\ Object(t).value < Object(t).max
      <4>1. x \notin issued
        BY <3>1, FreshKey
      <4>2. issued' = issued \cup {x} /\ answers' = answers + 1
        BY <2>1, <3>1 DEF Take, Object
      <4>3. x \in Numbered /\ issued \subseteq Numbered
        <5>1. Object(t) \in KeyObject /\ thread[t].name \in Name
          BY TypedFields DEF IInv, TypeOK, Typed, Object
        <5> QED BY <5>1 DEF IInv, TypeOK, KeyObject, Numbered, NumberOf
      <4>4. KeyOf(x).name = x.name /\ x.name \in Name
        BY <4>3 DEF KeyOf, Numbered
      <4> HIDE DEF x
      <4>5. \A v \in issued : KeyOf(v) = KeyOf(x) => Kind[x.name] = "index" /\ v.prefix # x.prefix
        BY <4>1, <4>3, SameKey
      <4>6. \A w \in Given : w.key = u.key =>
               u.key.name \in {k \in Name : Kind[k] = "index"} /\ w.day # u.day
        BY <4>4, <4>5 DEF Given
      <4>7. Given' = Given \cup {u}
        <5>1. Given' = {[key |-> KeyOf(y), day |-> y.prefix] : y \in issued \cup {x}}
          BY <4>2 DEF Given, KeyOf
        <5> QED BY <5>1 DEF Given
      <4> HIDE DEF u
      <4> QED BY <4>2, <4>6, <4>7 DEF Ids!IdNext, Ids!Give, Given
    <3>2. CASE ~(Object(t).backed /\ Object(t).value < Object(t).max)
      BY <2>1, <3>2 DEF Take, Object, Given, KeyOf
    <3> QED BY <3>1, <3>2
  <2>2. CASE \/ NextDay \/ UNCHANGED vars \/ \E n \in Node : Crash(n)
    BY <2>2 DEF NextDay, Crash, vars, keys, Given, KeyOf
  <2>3. ASSUME NEW t \in Thread,
               \/ \E k \in Name : Lookup(t, k)
               \/ Probe(t) \/ Insert(t) \/ Enter(t) \/ NoConnection(t) \/ ReloadSelect(t)
               \/ ReloadSelectFails(t) \/ ReloadUpdate(t) \/ ReloadCommit(t)
        PROVE  UNCHANGED <<Given, answers>>
    <3>1. UNCHANGED <<issued, answers>>
      BY <2>3 DEF Lookup, Probe, Insert, Enter, NoConnection, ReloadSelect,
                  ReloadSelectFails, ReloadUpdate, ReloadCommit, keys
    <3> QED BY <3>1 DEF Given, KeyOf
  <2> QED BY <2>1, <2>2, <2>3 DEF Next, GeneratorStep
<1> QED BY <1>1, <1>2, Invariant, PTL DEF Spec, ImplementsIdSource, Ids!IdSpec, Given
-----------------------------------------------------------------------------
(* Numbers the row does not account for. *)

\* A step that moves one thread and leaves the objects alone.
LEMMA SoundThread ==
  ASSUME Sound, ~Swallowed, NEW t \in Thread,
         UNCHANGED <<table, keyMap, unbacked>>,
         \A u \in Thread \ {t} : /\ thread'[u].pc = thread[u].pc
                                 /\ thread'[u].name = thread[u].name
                                 /\ thread'[u].wrote = thread[u].wrote,
         HoldsRow(t) => HoldsRow(t)' /\ thread'[t].name = thread[t].name,
         InHand(t)'
  PROVE  Sound'
<1>1. unbacked' = {} /\ HasRow'
  BY DEF Sound, HasRow, Known
<1>2. ASSUME NEW n \in Node, NEW k \in Name PROVE Covered(n, k)'
  <2>1. Covered(n, k)
    BY DEF Sound
  <2>2. ASSUME NEW u \in Thread, HoldsRow(u)
        PROVE  HoldsRow(u)' /\ thread'[u].name = thread[u].name
    BY <2>2 DEF HoldsRow
  <2> QED BY <2>1, <2>2 DEF Covered
<1>3. ASSUME NEW u \in Thread PROVE InHand(u)'
  BY DEF Sound, InHand, Object
<1> QED BY <1>1, <1>2, <1>3 DEF Sound

\* A step that replaces an object nobody else works with.
LEMMA SoundObject ==
  ASSUME IInv, Sound, ~Swallowed, NEW t \in Thread, NEW o,
         Put(NodeOf[t], thread[t].name, o), UNCHANGED unbacked,
         ~Known(NodeOf[t], thread[t].name) \/ InMonitor(t),
         \A k \in Name : table[k] # NoRow => table'[k] # NoRow,
         table'[thread[t].name] # NoRow,
         \A u \in Thread \ {t} : /\ thread'[u].pc = thread[u].pc
                                 /\ thread'[u].name = thread[u].name
                                 /\ thread'[u].wrote = thread[u].wrote,
         o.value < o.max => o.backed \/ (HoldsRow(t)' /\ thread'[t].name = thread[t].name),
         thread'[t].pc # "commit",
         thread'[t].pc = "take" =>
            thread'[t].name = thread[t].name /\ o.backed /\ o.value < o.max
  PROVE  Sound'
<1> DEFINE n == NodeOf[t]
           k == thread[t].name
<1>1. Typed /\ TypeOK /\ Locks /\ HasObject
  BY TypedFields DEF IInv
<1>2. n \in Node /\ k \in Name
  BY <1>1 DEF Typed
<1>3. \A m \in Node, j \in Name :
         keyMap'[m][j] = IF m = n /\ j = k THEN o ELSE keyMap[m][j]
  BY <1>1, <1>2, PutEffect
<1>4. ASSUME NEW u \in Thread, u # t, InMonitor(u)
      PROVE  /\ ~(NodeOf[u] = n /\ thread[u].name = k)
             /\ Object(u)' = Object(u)
  <2>1. ~(NodeOf[u] = n /\ thread[u].name = k)
    BY <1>1, <1>4 DEF Locks, HasObject, InMonitor
  <2> QED BY <1>1, <1>3, <1>4, <2>1 DEF Object, Typed
<1>5. unbacked' = {} /\ HasRow'
  BY <1>3 DEF Sound, HasRow, Known
<1>6. ASSUME NEW m \in Node, NEW j \in Name PROVE Covered(m, j)'
  <2>1. CASE m = n /\ j = k
    BY <1>3, <2>1 DEF Covered
  <2>2. CASE ~(m = n /\ j = k)
    <3>1. Covered(m, j) /\ keyMap'[m][j] = keyMap[m][j]
      BY <1>3, <2>2 DEF Sound
    <3>2. ASSUME NEW u \in Thread, NodeOf[u] = m, thread[u].name = j, HoldsRow(u)
          PROVE  HoldsRow(u)' /\ thread'[u].name = thread[u].name
      BY <2>2, <3>2 DEF HoldsRow
    <3> QED BY <3>1, <3>2 DEF Covered
  <2> QED BY <2>1, <2>2
<1>7. ASSUME NEW u \in Thread PROVE InHand(u)'
  <2>1. CASE u = t
    BY <1>2, <1>3, <2>1 DEF InHand, Object
  <2>2. CASE u # t
    BY <1>4, <2>2 DEF Sound, InHand, InMonitor
  <2> QED BY <2>1, <2>2
<1> QED BY <1>5, <1>6, <1>7 DEF Sound

LEMMA SoundStep == IInv /\ Sound /\ [Next]_vars => Sound'
<1> SUFFICES ASSUME IInv, Sound, [Next]_vars, ~Swallowed, ~Swallowed' PROVE Sound'
  <2>1. [Next]_vars => fails \subseteq fails'
    BY DEF Next, GeneratorStep, vars, Lookup, Probe, Insert, Enter, NoConnection,
           ReloadSelect, ReloadSelectFails, ReloadUpdate, ReloadCommit, Take, NextDay, Crash
  <2> QED BY <2>1 DEF Sound, Swallowed
<1>0. Typed /\ TypeOK /\ Locks /\ HasObject /\ Rows /\ Objects /\ InFlight
  BY TypedFields DEF IInv
<1>1. ASSUME NEW t \in Thread, NEW k \in Name, Lookup(t, k) PROVE Sound'
  <2>1. /\ thread'[t].pc \in {"enter", "create"} /\ ~HoldsRow(t)
        /\ \A u \in Thread \ {t} : thread'[u] = thread[u]
    BY <1>0, <1>1 DEF Lookup, TypeOK, HoldsRow
  <2> QED BY <1>1, <2>1, SoundThread DEF Lookup, keys, InHand
<1>2. ASSUME NEW t \in Thread, Probe(t) PROVE Sound'
  <2>1. PICK pc \in {"enter", "insert"} : Goto(t, pc)
    BY <1>2 DEF Probe
  <2>2. ~HoldsRow(t) /\ UNCHANGED <<table, unbacked>>
    BY <1>2 DEF Probe, HoldsRow, keys
  <2>3. CASE UNCHANGED keyMap
    BY <1>0, <2>1, <2>2, <2>3, GotoEffect, SoundThread DEF InHand
  <2>4. CASE /\ ~Known(NodeOf[t], thread[t].name) /\ table[thread[t].name] # NoRow
             /\ Put(NodeOf[t], thread[t].name, FromRow(table[thread[t].name]))
    <3> DEFINE o == FromRow(table[thread[t].name])
    <3>1. o.value \in Nat /\ o.value = o.max
      BY <1>0, FromRowFields DEF TypeOK, Typed, Row
    <3> HIDE DEF o
    <3>2. ~(o.value < o.max)
      BY <3>1
    <3> QED BY <1>0, <2>1, <2>2, <2>4, <3>2, GotoEffect, SoundObject DEF o
  <2> QED BY <1>2, <2>3, <2>4 DEF Probe
<1>3. ASSUME NEW t \in Thread, Insert(t) PROVE Sound'
  <2>1. /\ Goto(t, "enter") /\ UNCHANGED unbacked
        /\ Put(NodeOf[t], thread[t].name, FirstObject)
        /\ ~Known(NodeOf[t], thread[t].name)
    BY <1>0, <1>3 DEF Insert, keys, FirstObject, HasObject
  <2>2. /\ \A k \in Name : table[k] # NoRow => table'[k] # NoRow
        /\ table'[thread[t].name] # NoRow
    <3>1. table' = IF table[thread[t].name] = NoRow
                     THEN [table EXCEPT ![thread[t].name] = [max |-> 1, date |-> today]]
                     ELSE table
      BY <1>3 DEF Insert, Swallowed
    <3>2. [max |-> 1, date |-> today] # NoRow
      BY DEF NoRow
    <3> QED BY <1>0, <3>1, <3>2 DEF TypeOK, Typed
  <2>3. ~(FirstObject.value < FirstObject.max)
    BY FirstObjectFields
  <2> QED BY <1>0, <2>1, <2>2, <2>3, GotoEffect, SoundObject
<1>4. ASSUME NEW t \in Thread, Enter(t) PROVE Sound'
  <2> DEFINE o == Object(t)
  <2>1. /\ ~HoldsRow(t) /\ UNCHANGED <<table, keyMap, unbacked>>
        /\ Goto(t, IF NeedsReload(thread[t].name, o) THEN "reload" ELSE "take")
    BY <1>4 DEF Enter, Object, keys, HoldsRow
  <2>2. ~NeedsReload(thread[t].name, o) => o.backed /\ o.value < o.max
    <3>1. Covered(NodeOf[t], thread[t].name)
      BY <1>0 DEF Sound, Typed
    <3>2. \A u \in Thread : NodeOf[u] = NodeOf[t] /\ thread[u].name = thread[t].name
             => ~HoldsRow(u)
      BY <1>4 DEF Enter, MonitorFree, InMonitor, HoldsRow
    <3>3. ~NeedsReload(thread[t].name, o) => o.value < o.max
      BY <1>0 DEF NeedsReload, Typed, Object
    <3> QED BY <3>1, <3>2, <3>3 DEF Covered, Object
  <2>3. Object(t)' = o
    BY <1>0, <2>1, GotoEffect DEF Object
  <2> QED BY <1>0, <2>1, <2>2, <2>3, GotoEffect, SoundThread DEF InHand
<1>5. ASSUME NEW t \in Thread, NoConnection(t) PROVE Sound'
  BY <1>0, <1>5, ReturnEffect, SoundThread DEF NoConnection, HoldsRow, InHand, keys
<1>6. ASSUME NEW t \in Thread, ReloadSelect(t) PROVE Sound'
  <2> DEFINE o == Loaded(thread[t].name, Object(t), table[thread[t].name])
  <2>1. /\ Goto(t, "update") /\ UNCHANGED <<table, unbacked>> /\ InMonitor(t)
        /\ table[thread[t].name] # NoRow
        /\ Put(NodeOf[t], thread[t].name, o)
    BY <1>6 DEF ReloadSelect, keys, Object, InMonitor
  <2> HIDE DEF o
  <2>2. HoldsRow(t)' /\ thread'[t].name = thread[t].name
    BY <1>0, <2>1, GotoEffect DEF HoldsRow
  <2> QED BY <1>0, <2>1, <2>2, GotoEffect, SoundObject
<1>7. ASSUME NEW t \in Thread, ReloadSelectFails(t) PROVE Sound'
  <2>1. table[thread[t].name] = NoRow /\ Known(NodeOf[t], thread[t].name)
    BY <1>0, <1>7 DEF ReloadSelectFails, Swallowed, HasObject
  <2> QED BY <1>0, <2>1 DEF Sound, HasRow, Typed
<1>8. ASSUME NEW t \in Thread, ReloadUpdate(t) PROVE Sound'
  <2>1. thread' = [thread EXCEPT ![t] = [@ EXCEPT !.pc = "commit", !.wrote = TRUE]]
    BY <1>8 DEF ReloadUpdate, Swallowed
  <2>2. ASSUME NEW s \in ThreadState
        PROVE  [s EXCEPT !.pc = "commit", !.wrote = TRUE].wrote
    BY DEF ThreadState
  <2>3. thread'[t].wrote
    BY <1>0, <2>1, <2>2 DEF TypeOK
  <2>4. UNCHANGED <<table, keyMap, unbacked>>
    BY <1>8 DEF ReloadUpdate, keys
  <2> QED BY <1>0, <1>8, <2>3, <2>4, UpdateEffect, SoundThread DEF HoldsRow, InHand
<1>9. ASSUME NEW t \in Thread, ReloadCommit(t) PROVE Sound'
  <2> DEFINE o == [Object(t) EXCEPT !.backed = TRUE]
             r == [max |-> Object(t).max, date |-> Object(t).keyDate]
  <2>1. /\ Goto(t, "take") /\ UNCHANGED unbacked /\ InMonitor(t)
        /\ Put(NodeOf[t], thread[t].name, o)
        /\ table' = [table EXCEPT ![thread[t].name] = r]
    BY <1>9 DEF ReloadCommit, Sound, InHand, Swallowed, keys, Object, InMonitor
  <2>2. /\ Object(t) \in KeyObject /\ Object(t).max > 0
        /\ Object(t).value < Object(t).max
    BY <1>0, <1>9 DEF Typed, TypeOK, Objects, HasObject, InFlight, Follows, HoldsRow,
                      Object, ReloadCommit
  <2>3. o.backed /\ o.value < o.max
    BY <2>2, ObjectChange
  <2>4. r # NoRow
    BY <2>2 DEF NoRow, KeyObject
  <2> HIDE DEF o, r
  <2>5. /\ \A k \in Name : table[k] # NoRow => table'[k] # NoRow
        /\ table'[thread[t].name] # NoRow
    BY <1>0, <2>1, <2>4 DEF TypeOK, Typed
  <2> QED BY <1>0, <2>1, <2>3, <2>5, GotoEffect, SoundObject
<1>10. ASSUME NEW t \in Thread, Take(t) PROVE Sound'
  <2> DEFINE o == [Object(t) EXCEPT !.value = @ + 1]
  <2>1. Object(t).backed /\ Object(t).value < Object(t).max
    BY <1>10 DEF Sound, InHand, Take
  <2>2. /\ Return(t) /\ UNCHANGED <<table, unbacked>> /\ InMonitor(t)
        /\ Put(NodeOf[t], thread[t].name, o)
    BY <1>10, <2>1 DEF Take, Object, InMonitor
  <2>3. Object(t) \in KeyObject /\ Object(t).value + 1 \in Nat
    BY <1>0 DEF Typed, TypeOK, Object, KeyObject
  <2>4. o.backed
    BY <2>1, <2>3, ObjectChange
  <2>5. table[thread[t].name] # NoRow
    BY <1>0, <1>10 DEF Sound, HasRow, HasObject, Take, Typed
  <2> HIDE DEF o
  <2> QED BY <1>0, <2>2, <2>4, <2>5, ReturnEffect, SoundObject
<1>11. CASE NextDay \/ UNCHANGED vars
  <2>1. UNCHANGED <<table, keyMap, thread, unbacked>>
    BY <1>11 DEF NextDay, vars, keys
  <2> QED BY <2>1 DEF Sound, HasRow, Known, Covered, HoldsRow, InHand, Object
<1>12. ASSUME NEW n \in Node, Crash(n) PROVE Sound'
  <2>1. /\ UNCHANGED <<table, unbacked>>
        /\ \A m \in Node, k \in Name :
              keyMap'[m][k] = IF m = n THEN NoObject ELSE keyMap[m][k]
        /\ \A u \in Thread : thread'[u] = IF NodeOf[u] = n THEN Idle ELSE thread[u]
    BY <1>0, <1>12 DEF Crash, TypeOK, keys
  <2>2. Idle.pc = "idle" /\ ~(NoObject.value < NoObject.max)
    BY DEF Idle, NoObject
  <2>3. unbacked' = {} /\ HasRow'
    BY <2>1 DEF Sound, HasRow, Known
  <2>4. ASSUME NEW m \in Node, NEW k \in Name PROVE Covered(m, k)'
    <3>1. CASE m = n
      BY <2>1, <2>2, <3>1 DEF Covered
    <3>2. CASE m # n
      BY <2>1, <3>2 DEF Sound, Covered, HoldsRow
    <3> QED BY <3>1, <3>2
  <2>5. ASSUME NEW u \in Thread PROVE InHand(u)'
    <3>1. CASE NodeOf[u] = n
      BY <2>1, <2>2, <3>1 DEF InHand
    <3>2. CASE NodeOf[u] # n
      <4>1. thread'[u] = thread[u] /\ NodeOf[u] \in Node /\ thread[u].name \in Name
        BY <1>0, <2>1, <3>2 DEF Typed
      <4>2. Object(u)' = Object(u)
        BY <2>1, <3>2, <4>1 DEF Object
      <4> QED BY <4>1, <4>2 DEF Sound, InHand
    <3> QED BY <3>1, <3>2
  <2> QED BY <2>3, <2>4, <2>5 DEF Sound
<1> QED
  BY <1>1, <1>2, <1>3, <1>4, <1>5, <1>6, <1>7, <1>8, <1>9, <1>10, <1>11, <1>12
  DEF Next, GeneratorStep

\* The number a getter returns is outside the block the row accounts for only
\* after a failed insert, select, update or commit that the code swallowed: a reload
\* without a connection, a failed first look or a restart never causes one.
THEOREM UnbackedIsSwallowed == Spec => []UnbackedNeedsASwallowedFailure
<1>1. Init => Sound
  <2> SUFFICES ASSUME Init PROVE Sound
    OBVIOUS
  <2>1. /\ unbacked = {}
        /\ \A n \in Node, k \in Name : keyMap[n][k] = NoObject
        /\ \A t \in Thread : thread[t].pc = "idle"
    BY DEF Init, Idle
  <2>2. ~(NoObject.value < NoObject.max)
    BY DEF NoObject
  <2> QED BY <2>1, <2>2 DEF Sound, HasRow, Known, Covered, InHand
<1>2. Sound => UnbackedNeedsASwallowedFailure
  BY DEF Sound, Swallowed, UnbackedNeedsASwallowedFailure
<1> QED BY <1>1, <1>2, SoundStep, Invariant, PTL DEF Spec
=============================================================================
