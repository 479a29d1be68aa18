---------------------------- MODULE KeyGenerator ----------------------------
(***************************************************************************)
(* RsKeyGeneratorImpl: every node keeps, per key name, a KeyObject holding *)
(* a block of sequence numbers it may hand out without asking the          *)
(* database; RS_KEY_TABLE holds, per name, the number the next block       *)
(* starts at.  A block is fetched in a transaction that locks the row, and *)
(* every failure of that transaction is printed and swallowed.             *)
(*                                                                         *)
(* The monitors of the code are not variables of their own: the program    *)
(* counters of the threads say who is inside.                              *)
(***************************************************************************)
EXTENDS Integers, FiniteSets

CONSTANTS
    Node,       \* the servers sharing RS_KEY_TABLE
    Thread,     \* request threads
    NodeOf,     \* the node a thread runs on
    Name,       \* key names
    Kind,       \* the kind of getter a name is used with
    Step,       \* KEYSTEP of a name
    Fault,      \* the calls that may fail, each at most once
    MaxFault,   \* bound: failures
    MaxName,    \* bound: names used in one behaviour
    MaxDay,     \* bound: days that pass
    MaxSeq,     \* bound: a new request is made only below this number
    MaxCrash    \* bound: restarts

Kinds == {"plain", "date", "index"}

\* A failed connection makes the caller fail; "probe" is the first look at
\* the row, "select", "update" and "commit" belong to the reload.
Faults == {"connect", "probe", "insert", "select", "update", "commit"}

ASSUME ThreadAssumption == NodeOf \in [Thread -> Node]
ASSUME NameAssumption == Name # {} /\ Kind \in [Name -> Kinds] /\ Step \in [Name -> Nat \ {0}]
ASSUME FaultAssumption == Fault \subseteq Faults
ASSUME BoundAssumption == {MaxFault, MaxName, MaxDay, MaxSeq, MaxCrash} \subseteq Nat

VARIABLES
    table,      \* RS_KEY_TABLE: the committed row of a name, or NoRow
    keyMap,     \* per node and name, the KeyObject, or NoObject
    thread,     \* per thread, where it is and what it asked for
    today,      \* the database's date
    fails,      \* the faults that happened
    crashes,    \* restarts so far
    issued,     \* numbers handed out of a block the row accounts for
    answers,    \* how many such numbers were handed out
    unbacked    \* numbers handed out although the row does not account for them

vars == <<table, keyMap, thread, today, fails, crashes, issued, answers, unbacked>>
keys == <<issued, answers, unbacked>>

-----------------------------------------------------------------------------
(* Records. Day 0 is Java's null. *)

Row == [max : Nat, date : Nat]
NoRow == [max |-> 0, date |-> 0]

\* keyValue, maxValue, keyDate, dbDate, prefix; backed is a history field:
\* the row accounts for the block [value, max).
KeyObject == [value : Nat, max : Nat, keyDate : Nat, dbDate : Nat, prefix : Nat,
              backed : BOOLEAN]
NoObject == [value |-> 0, max |-> 0, keyDate |-> 0, dbDate |-> 0, prefix |-> 0,
             backed |-> FALSE]

\* A number that was handed out; prefix is the date of the block it came from
\* (0 for the names that do not start again every day).
Numbered == [name : Name, prefix : Nat, value : Nat]

Pc == {"idle", "create", "insert", "enter", "reload", "update", "commit", "take"}
ThreadState == [pc : Pc, name : Name, wrote : BOOLEAN]
Idle == [pc |-> "idle", name |-> CHOOSE k \in Name : TRUE, wrote |-> FALSE]

Known(n, k) == keyMap[n][k] # NoObject

\* synchronized (keyObject): a thread of the node between entering and leaving.
InMonitor(t) == thread[t].pc \in {"reload", "update", "commit", "take"}
MonitorFree(n, k) ==
    \A t \in Thread : NodeOf[t] = n /\ thread[t].name = k => ~InMonitor(t)

\* synchronized (this): the thread that found no row and is about to insert.
CreatorFree(n) == \A t \in Thread : NodeOf[t] = n => thread[t].pc # "insert"

\* select ... for update holds the row until commit or rollback.
HoldsRow(t) == thread[t].pc \in {"update", "commit"}
MutRowFree(k) == TRUE       \* mutant: select without "for update"
RowFree(k) == \A t \in Thread : thread[t].name = k => ~HoldsRow(t)

MayFail(f) == f \in Fault \ fails /\ Cardinality(fails) < MaxFault

\* The names that were ever used: keys were given out, or a server knows them.
InUse == {x.name : x \in issued \cup unbacked}
         \cup {k \in Name : \/ \E n \in Node : Known(n, k)
                            \/ \E t \in Thread : thread[t].pc # "idle" /\ thread[t].name = k}

TypeOK ==
    /\ table \in [Name -> Row]
    /\ keyMap \in [Node -> [Name -> KeyObject]]
    /\ thread \in [Thread -> ThreadState]
    /\ today \in Nat
    /\ fails \subseteq Faults
    /\ crashes \in Nat
    /\ issued \subseteq Numbered
    /\ answers \in Nat
    /\ unbacked \subseteq Numbered

Init ==
    /\ \E r \in {NoRow, [max |-> 1, date |-> 1]} : table = [k \in Name |-> r]
    /\ keyMap = [n \in Node |-> [k \in Name |-> NoObject]]
    /\ thread = [t \in Thread |-> Idle]
    /\ today = 1
    /\ fails = {}
    /\ crashes = 0
    /\ issued = {} /\ answers = 0 /\ unbacked = {}

-----------------------------------------------------------------------------
(* getKeyObject: the double-checked creation of the KeyObject. *)

Goto(t, pc) == thread' = [thread EXCEPT ![t].pc = pc]
Return(t) == thread' = [thread EXCEPT ![t] = Idle]

\* keyMap.get(keyName) outside the lock.
Lookup(t, k) ==
    LET n == NodeOf[t] IN
    /\ thread[t].pc = "idle"
    /\ table[k].max < MaxSeq /\ keyMap[n][k].value < MaxSeq
    /\ Cardinality(InUse \cup {k}) <= MaxName
    /\ thread' = [thread EXCEPT ![t] =
          [pc |-> IF Known(n, k) THEN "enter" ELSE "create", name |-> k, wrote |-> FALSE]]
    /\ UNCHANGED <<table, keyMap, today, fails, crashes, keys>>

Put(n, k, o) == keyMap' = [keyMap EXCEPT ![n][k] = o]

\* An object made from a row starts exhausted, so its first use reloads it.
FromRow(r) == [NoObject EXCEPT !.value = r.max, !.max = r.max,
                               !.keyDate = r.date, !.dbDate = today]

\* The second check and the query, inside synchronized (this).  The query
\* waits for the row; a row it cannot read counts as a row that is not there
\* (without a connection, the insert that follows fails as well).
Probe(t) ==
    LET n == NodeOf[t]
        k == thread[t].name
    IN
    /\ thread[t].pc = "create"
    /\ CreatorFree(n)
    /\ \/ /\ Known(n, k)
          /\ Goto(t, "enter")
          /\ UNCHANGED <<keyMap, fails>>
       \/ /\ ~Known(n, k)
          /\ RowFree(k) /\ table[k] # NoRow
          /\ Put(n, k, FromRow(table[k]))
          /\ Goto(t, "enter")
          /\ UNCHANGED fails
       \/ /\ ~Known(n, k)
          /\ table[k] = NoRow
          /\ Goto(t, "insert")
          /\ UNCHANGED <<keyMap, fails>>
       \/ /\ ~Known(n, k)
          /\ MayFail("probe") /\ fails' = fails \cup {"probe"}
          /\ Goto(t, "insert")
          /\ UNCHANGED keyMap
    /\ UNCHANGED <<table, today, crashes, keys>>

\* insertKey: a row another node inserted meanwhile makes the insert fail,
\* which is swallowed; the new object is put in the map in any case.
Insert(t) ==
    LET n == NodeOf[t]
        k == thread[t].name
    IN
    /\ thread[t].pc = "insert"
    /\ RowFree(k)
    /\ \/ /\ table' = IF table[k] = NoRow
                        THEN [table EXCEPT ![k] = [max |-> 1, date |-> today]]
                        ELSE table
          /\ UNCHANGED fails
       \/ /\ MayFail("insert") /\ fails' = fails \cup {"insert"}
          /\ UNCHANGED table
    /\ Put(n, k, [NoObject EXCEPT !.value = 1, !.max = 1])
    /\ Goto(t, "enter")
    /\ UNCHANGED <<today, crashes, keys>>

-----------------------------------------------------------------------------
(* The generators: synchronized (keyObject) { reload if exhausted; keyValue++ } *)

IsDateKey(k) == Kind[k] \in {"date", "index"}      \* reLoadKeyObject's argument

DateIsChange(o) == o.keyDate # o.dbDate

MutNeedsReload(k, o) == o.value > o.max     \* mutant: off by one
NeedsReload(k, o) == o.value >= o.max \/ (Kind[k] = "date" /\ DateIsChange(o))

Enter(t) ==
    LET n == NodeOf[t]
        k == thread[t].name
    IN
    /\ thread[t].pc = "enter"
    /\ MonitorFree(n, k)
    /\ Goto(t, IF NeedsReload(k, keyMap[n][k]) THEN "reload" ELSE "take")
    /\ UNCHANGED <<table, keyMap, today, fails, crashes, keys>>

\* Mutants of Loaded: KEYMAXSEQ taken as the end of the block; a prefix computed
\* once only.
MutLoadedEnd(k, o, r) ==
    [value |-> r.max - Step[k], max |-> r.max, keyDate |-> r.date, dbDate |-> today,
     prefix |-> r.date, backed |-> FALSE]
MutLoadedPrefix(k, o, r) ==
    LET first == IF r.date # today THEN 1 ELSE r.max
    IN [value |-> first, max |-> first + Step[k], keyDate |-> today, dbDate |-> today,
        prefix |-> IF o.prefix = 0 THEN today ELSE o.prefix, backed |-> FALSE]

\* The block a reload computes from the locked row.
Loaded(k, o, r) ==
    LET fresh == IsDateKey(k) /\ r.date # today
        first == IF fresh THEN 1 ELSE r.max
        date  == IF fresh THEN today ELSE r.date
    IN [value |-> first, max |-> first + Step[k], keyDate |-> date, dbDate |-> today,
        prefix |-> IF IsDateKey(k) THEN date ELSE o.prefix, backed |-> FALSE]

\* getConnection fails: the finally block dereferences null and the caller
\* gets the exception instead of a key.
NoConnection(t) ==
    /\ thread[t].pc = "reload"
    /\ MayFail("connect") /\ fails' = fails \cup {"connect"}
    /\ Return(t)
    /\ UNCHANGED <<table, keyMap, today, crashes, keys>>

\* select ... for update, and the changes the code makes to the KeyObject
\* before anything is written.
ReloadSelect(t) ==
    LET n == NodeOf[t]
        k == thread[t].name
    IN
    /\ thread[t].pc = "reload"
    /\ RowFree(k)
    /\ table[k] # NoRow
    /\ Put(n, k, Loaded(k, keyMap[n][k], table[k]))
    /\ Goto(t, "update")
    /\ UNCHANGED <<table, today, fails, crashes, keys>>

\* No row, or a query that fails: the exception is printed, the transaction
\* rolled back, and the generator goes on with the exhausted object.
ReloadSelectFails(t) ==
    LET n == NodeOf[t]
        k == thread[t].name
    IN
    /\ thread[t].pc = "reload"
    /\ \/ table[k] = NoRow /\ UNCHANGED fails
       \/ MayFail("select") /\ fails' = fails \cup {"select"}
    /\ Put(n, k, [keyMap[n][k] EXCEPT !.backed = FALSE])
    /\ Goto(t, "take")
    /\ UNCHANGED <<table, today, crashes, keys>>

\* updateKeyObject swallows its SQLException, so the commit follows anyway.
ReloadUpdate(t) ==
    /\ thread[t].pc = "update"
    /\ \E ok \in BOOLEAN :
          /\ thread' = [thread EXCEPT ![t] = [@ EXCEPT !.pc = "commit", !.wrote = ok]]
          /\ \/ ok /\ UNCHANGED fails
             \/ ~ok /\ MayFail("update") /\ fails' = fails \cup {"update"}
    /\ UNCHANGED <<table, keyMap, today, crashes, keys>>

ReloadCommit(t) ==
    LET n == NodeOf[t]
        k == thread[t].name
        o == keyMap[n][k]
    IN
    /\ thread[t].pc = "commit"
    /\ \/ /\ thread[t].wrote
          /\ table' = [table EXCEPT ![k] = [max |-> o.max, date |-> o.keyDate]]
          /\ Put(n, k, [o EXCEPT !.backed = TRUE])
          /\ UNCHANGED fails
       \/ /\ ~thread[t].wrote
          /\ UNCHANGED <<table, keyMap, fails>>
       \/ /\ MayFail("commit") /\ fails' = fails \cup {"commit"}
          /\ UNCHANGED <<table, keyMap>>
    /\ Goto(t, "take")
    /\ UNCHANGED <<today, crashes, keys>>

NumberOf(k, o) == [name |-> k, prefix |-> o.prefix, value |-> o.value]

\* return keyValue++ and leave the monitor.
Take(t) ==
    LET n == NodeOf[t]
        k == thread[t].name
        o == keyMap[n][k]
    IN
    /\ thread[t].pc = "take"
    /\ IF o.backed /\ o.value < o.max
         THEN /\ issued' = issued \cup {NumberOf(k, o)}
              /\ answers' = answers + 1
              /\ UNCHANGED unbacked
         ELSE /\ unbacked' = unbacked \cup {NumberOf(k, o)}
              /\ UNCHANGED <<issued, answers>>
    /\ Put(n, k, [o EXCEPT !.value = @ + 1])
    /\ Return(t)
    /\ UNCHANGED <<table, today, fails, crashes>>

-----------------------------------------------------------------------------
(* The surroundings. *)

NextDay ==
    /\ today < MaxDay
    /\ today' = today + 1
    /\ UNCHANGED <<table, keyMap, thread, fails, crashes, keys>>

\* A node restarts: its map and its requests are gone, its open transaction
\* is rolled back.
Crash(n) ==
    /\ crashes < MaxCrash
    /\ crashes' = crashes + 1
    /\ keyMap' = [keyMap EXCEPT ![n] = [k \in Name |-> NoObject]]
    /\ thread' = [t \in Thread |->
          IF NodeOf[t] = n THEN Idle ELSE thread[t]]
    /\ UNCHANGED <<table, today, fails, keys>>

GeneratorStep(t) ==
    \/ \E k \in Name : Lookup(t, k)
    \/ Probe(t) \/ Insert(t) \/ Enter(t)
    \/ NoConnection(t) \/ ReloadSelect(t) \/ ReloadSelectFails(t)
    \/ ReloadUpdate(t) \/ ReloadCommit(t) \/ Take(t)

Next ==
    \/ \E t \in Thread : GeneratorStep(t)
    \/ NextDay
    \/ \E n \in Node : Crash(n)

Spec == Init /\ [][Next]_vars

-----------------------------------------------------------------------------
(* Properties. *)

\* Two servers never hold the same unused number: the parts of their blocks
\* still to be handed out under one prefix do not overlap.
Unused(o) == o.value .. (o.max - 1)
BlocksDisjoint ==
    \A n, m \in Node, k \in Name :
        LET o == keyMap[n][k]
            p == keyMap[m][k]
        IN n # m /\ o.backed /\ p.backed /\ o.prefix = p.prefix
             => Unused(o) \cap Unused(p) = {}

\* A number the row does not account for is handed out only after one of the
\* failures the reload (or the first insert) swallows: a reload that gets no
\* connection, a failed first look or a restart never leads to one by itself.
UnbackedNeedsASwallowedFailure ==
    unbacked # {} => fails \cap {"insert", "select", "update", "commit"} # {}

\* The row only moves forward: to a later date, or to a higher number of the
\* same date, whatever fails and in whatever order the nodes write it.
HighWaterNeverFalls ==
    [][\A k \in Name :
          \/ table[k].date < table'[k].date
          \/ table[k].date = table'[k].date /\ table[k].max <= table'[k].max]_table

\* What the caller gets: the date and the number, the number alone when the
\* name is used with getIndexKey, which drops the date although its numbers
\* start again every day.
KeyOf(x) == IF Kind[x.name] = "index" THEN [x EXCEPT !.prefix = 0] ELSE x

\* Out of blocks the row accounts for, whatever the servers, the restarts and
\* the failures: a key of getKey, getZipKey or getDateKey is never handed out
\* twice, and one of getIndexKey again only out of a block of another date.
Ids == INSTANCE IdSource WITH
          Daily   <- {k \in Name : Kind[k] = "index"},
          used    <- {[key |-> KeyOf(x), day |-> x.prefix] : x \in issued},
          answers <- answers
ImplementsIdSource == Ids!IdSpec
=============================================================================
