------------------------------ MODULE Strategy ------------------------------
(***************************************************************************)
(* RsStrategyServiceImpl: administrators change the security strategies    *)
(* in RS_STRATEGY (which one is enabled) and RS_STRATEGY_INFO (their       *)
(* entries); each node reads the entries of the enabled strategy through   *)
(* a cache that every change on that node empties before its transaction   *)
(* commits.                                                                *)
(*                                                                         *)
(* One entry (one MSBH) stands for all of them. All transactions are READ  *)
(* COMMITTED: an UPDATE waits for the rows it matches, one after the other *)
(* and in no order the code fixes.                                         *)
(***************************************************************************)
EXTENDS Naturals, FiniteSets

CONSTANTS
    Node,       \* servers
    Admin,      \* threads that change strategies
    NodeOf,     \* the node such a thread runs on
    Clbh,       \* strategies
    Tmz,        \* values of the entry
    FirstEnabled,   \* what may be enabled at first: the schema's one strategy, or
                    \* the several that earlier activations have left
    FirstTmz,   \* the entries at first
    Null,       \* currentStrategyInfoMap == null
    Absent,     \* a map without the entry: the getters answer null
    MaxTx,      \* bound: transactions
    MaxFail     \* bound: failed queries and restarts

ASSUME AdminAssumption == NodeOf \in [Admin -> Node]
ASSUME ValueAssumption == Null \notin Tmz /\ Absent \notin Tmz /\ Null # Absent
ASSUME ClbhAssumption == Clbh # {} /\ Tmz # {}
ASSUME FirstAssumption == FirstEnabled \subseteq SUBSET Clbh /\ FirstTmz \in [Clbh -> Tmz]
ASSUME BoundAssumption == MaxTx \in Nat /\ MaxFail \in Nat

Enabled == 0
Disabled == 1

VARIABLES
    clzt,       \* RS_STRATEGY.CLZT, committed
    tmz,        \* RS_STRATEGY_INFO.TMZ, committed
    cache,      \* currentStrategyInfoMap of a node
    tx,         \* the transaction of an administrator
    txs,        \* transactions so far
    failures,   \* failed queries and restarts so far
    excused,    \* history: nodes whose caches may differ
    overlapped  \* history: an activation began while another was not committed,
                \* now or before the first state

vars == <<clzt, tmz, cache, tx, txs, failures, excused, overlapped>>

-----------------------------------------------------------------------------
\* invalid: invalidStrategy is running; write: the UPDATE of one row;
\* forget: the cache is to be emptied; commit: the method has returned.
\* seen: the rows invalidStrategy has passed; off: those it has changed.
Pc == {"idle", "invalid", "write", "forget", "commit"}
Tx == [pc : Pc, table : {"info", "zt"}, clbh : Clbh, tmz : Tmz,
       clzt : {Enabled, Disabled}, seen : SUBSET Clbh, off : SUBSET Clbh]
Idle == [pc |-> "idle", table |-> "zt", clbh |-> CHOOSE c \in Clbh : TRUE,
         tmz |-> CHOOSE v \in Tmz : TRUE, clzt |-> Disabled, seen |-> {}, off |-> {}]

TypeOK ==
    /\ clzt \in [Clbh -> {Enabled, Disabled}]
    /\ tmz \in [Clbh -> Tmz]
    /\ cache \in [Node -> Tmz \cup {Null, Absent}]
    /\ tx \in [Admin -> Tx]
    /\ txs \in 0..MaxTx /\ failures \in 0..MaxFail
    /\ excused \subseteq Node
    /\ overlapped \in BOOLEAN

Init ==
    /\ \E first \in FirstEnabled :
          /\ clzt = [c \in Clbh |-> IF c \in first THEN Enabled ELSE Disabled]
          /\ overlapped = (\E c, d \in first : c # d)
    /\ tmz = FirstTmz
    /\ cache = [n \in Node |-> Null]
    /\ tx = [a \in Admin |-> Idle]
    /\ txs = 0 /\ failures = 0
    /\ excused = {}

EnabledRows(z) == {c \in Clbh : z[c] = Enabled}

\* queryCurrentStrategyInfo: the entries of all enabled strategies go into one
\* map, in the order the rows come.
Current == IF EnabledRows(clzt) = {} THEN {Absent} ELSE {tmz[c] : c \in EnabledRows(clzt)}

\* The rows of RS_STRATEGY, or of RS_STRATEGY_INFO, a transaction has locked.
Locked(a, table) ==
    IF tx[a].pc = "idle" \/ tx[a].table # table THEN {}
    ELSE tx[a].off \cup (IF tx[a].pc \in {"forget", "commit"} THEN {tx[a].clbh} ELSE {})

\* mutant: locks that are not reentrant
MutFree(a, table, c) == \A b \in Admin : c \notin Locked(b, table)
Free(a, table, c) == \A b \in Admin \ {a} : c \notin Locked(b, table)

Goto(a, pc) == tx' = [tx EXCEPT ![a].pc = pc]

-----------------------------------------------------------------------------
(* updateStrategyInfo and updateStrategyZt *)

Begin(a, t) ==
    /\ tx[a].pc = "idle" /\ txs < MaxTx
    /\ tx' = [tx EXCEPT ![a] = t]
    /\ txs' = txs + 1
    /\ UNCHANGED <<clzt, tmz, cache, failures, excused, overlapped>>

UpdateStrategyInfo(a, c, v) ==
    Begin(a, [Idle EXCEPT !.pc = "write", !.table = "info", !.clbh = c, !.tmz = v])

UpdateStrategyZt(a, c, z) ==
    Begin(a, [Idle EXCEPT !.pc = IF z = Enabled THEN "invalid" ELSE "write",
                          !.clbh = c, !.clzt = z])

\* An activation has looked at a row, and is not committed.
Activating(b) == /\ tx[b].pc \in {"write", "forget", "commit"} \/ tx[b].seen # {}
                 /\ tx[b].table = "zt" /\ tx[b].clzt = Enabled

\* update ... where CLZT=0; a row another transaction has enabled and not
\* committed yet does not match, and is passed.
MutMatching == {c \in Clbh : clzt[c] = Disabled}        \* mutant: where CLZT=1
Matching == EnabledRows(clzt)

InvalidStrategy(a) ==
    LET seen == tx[a].seen IN
    /\ tx[a].pc = "invalid"
    /\ \E c \in Clbh \ seen :
          /\ c \in Matching => Free(a, "zt", c)
          /\ tx' = [tx EXCEPT ![a] =
                [@ EXCEPT !.pc = IF seen \cup {c} = Clbh THEN "write" ELSE "invalid",
                          !.seen = seen \cup {c},
                          !.off = tx[a].off \cup ({c} \cap Matching)]]
    /\ overlapped' = (overlapped \/ \E b \in Admin \ {a} : Activating(b))
    /\ UNCHANGED <<clzt, tmz, cache, txs, failures, excused>>

Write(a) ==
    /\ tx[a].pc = "write"
    /\ Free(a, tx[a].table, tx[a].clbh)
    /\ Goto(a, "forget")
    /\ UNCHANGED <<clzt, tmz, cache, txs, failures, excused, overlapped>>

\* mutant: only a changed entry empties the cache
MutEmptied(a) == IF tx[a].table = "info" THEN {NodeOf[a]} ELSE {}
Emptied(a) == {NodeOf[a]}

\* synchronized (currentStrategyInfoSync) { currentStrategyInfoMap = null; }
Forget(a) ==
    /\ tx[a].pc = "forget"
    /\ cache' = [n \in Node |-> IF n \in Emptied(a) THEN Null ELSE cache[n]]
    /\ excused' = excused \ Emptied(a)
    /\ Goto(a, "commit")
    /\ UNCHANGED <<clzt, tmz, txs, failures, overlapped>>

\* mutant: CLZT counted up instead of assigned
MutWritten(t) == [c \in Clbh |-> IF c = t.clbh /\ t.clzt = Enabled THEN Enabled
                                 ELSE IF c \in t.off \cup {t.clbh} THEN clzt[c] + 1 ELSE clzt[c]]
Written(t) == [c \in Clbh |-> IF c = t.clbh THEN t.clzt
                              ELSE IF c \in t.off THEN Disabled ELSE clzt[c]]

Commit(a) ==
    LET t == tx[a] IN
    /\ t.pc = "commit"
    /\ IF t.table = "info"
         THEN tmz' = [tmz EXCEPT ![t.clbh] = t.tmz] /\ UNCHANGED clzt
         ELSE clzt' = Written(t) /\ UNCHANGED tmz
    /\ excused' = excused \cup {n \in Node \ {NodeOf[a]} : cache[n] # Null}
    /\ tx' = [tx EXCEPT ![a] = Idle]
    /\ UNCHANGED <<cache, txs, failures, overlapped>>

\* A statement or the commit fails: the change is undone, the cache is not.
Rollback(a) ==
    /\ tx[a].pc # "idle"
    /\ tx' = [tx EXCEPT ![a] = Idle]
    /\ UNCHANGED <<clzt, tmz, cache, txs, failures, excused, overlapped>>

-----------------------------------------------------------------------------
(* queryCurrentStrategyInfo, which all getters go through *)

Raced(n) == \E a \in Admin : NodeOf[a] = n /\ tx[a].pc = "commit"

\* The first reader fills the cache inside the monitor.
Fill(n) ==
    /\ cache[n] = Null
    /\ \E v \in Current : cache' = [cache EXCEPT ![n] = v]
    /\ excused' = IF Raced(n) THEN excused \cup {n} ELSE excused \ {n}
    /\ UNCHANGED <<clzt, tmz, tx, txs, failures, overlapped>>

\* The map is assigned before the query: when the query fails, the empty map
\* stays.
FillFails(n) ==
    /\ cache[n] = Null /\ failures < MaxFail
    /\ cache' = [cache EXCEPT ![n] = Absent]
    /\ excused' = excused \cup {n}
    /\ failures' = failures + 1
    /\ UNCHANGED <<clzt, tmz, tx, txs, overlapped>>

Restart(n) ==
    /\ failures < MaxFail
    /\ failures' = failures + 1
    /\ cache' = [cache EXCEPT ![n] = Null]
    /\ excused' = excused \ {n}
    /\ tx' = [a \in Admin |-> IF NodeOf[a] = n THEN Idle ELSE tx[a]]
    /\ UNCHANGED <<clzt, tmz, txs, overlapped>>

Update(a) ==
    \/ \E c \in Clbh, v \in Tmz : UpdateStrategyInfo(a, c, v)
    \/ \E c \in Clbh, z \in {Enabled, Disabled} : UpdateStrategyZt(a, c, z)

Proceed(a) == InvalidStrategy(a) \/ Write(a) \/ Forget(a) \/ Commit(a)

Next ==
    \/ \E a \in Admin : Update(a) \/ Proceed(a) \/ Rollback(a)
    \/ \E n \in Node : Fill(n) \/ FillFails(n) \/ Restart(n)

Spec == Init /\ [][Next]_vars

\* Those whose rows a statement of a is waiting for.
Wanted(a) == IF tx[a].pc = "write" THEN {tx[a].clbh} ELSE Clbh \ tx[a].seen
WaitsFor(a) ==
    IF \/ tx[a].pc \notin {"invalid", "write"}
       \/ tx[a].pc = "invalid" /\ ~(Wanted(a) \subseteq Matching)
       \/ \E c \in Wanted(a) : Free(a, tx[a].table, c)
    THEN {} ELSE {b \in Admin \ {a} : Wanted(a) \cap Locked(b, tx[a].table) # {}}

Knot(S) == S # {} /\ \A a \in S : WaitsFor(a) \cap S # {}
Cycle(S) == Knot(S) /\ \A T \in SUBSET S : Knot(T) => T = S

\* The database rolls back one of those who wait for each other.
BreakCycle == \E S \in SUBSET Admin : Cycle(S) /\ \E a \in S : Rollback(a)

\* A running transaction goes on, and the database grants row locks in turn and
\* detects deadlocks.
FairSpec == Spec /\ WF_vars(BreakCycle) /\ \A a \in Admin : SF_vars(Proceed(a))

-----------------------------------------------------------------------------
(* Properties. *)

\* The settings a node works with are the committed ones, unless its cache was
\* filled between the emptying and the commit of a change on the same node,
\* another node changed them since, or the query failed.  Each of the three
\* lasts until the node's next change or restart.
CacheIsCurrent ==
    \A n \in Node : cache[n] # Null /\ n \notin excused => cache[n] \in Current

\* updateStrategyZt: "only one security strategy can be enabled".
OneStrategyEnabled == Cardinality(EnabledRows(clzt)) <= 1

\* It takes two overlapping activations to enable two strategies.
OneEnabledUnlessOverlapped == overlapped \/ OneStrategyEnabled

\* Administrators never wait for each other's rows forever, though each may hold
\* a row the other's UPDATE comes to.
EveryChangeEnds == \A a \in Admin : tx[a].pc # "idle" ~> tx[a].pc = "idle"
=============================================================================
