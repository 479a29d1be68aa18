-------------------------- MODULE Strategy_proofs --------------------------
(***************************************************************************)
(* Proofs about Strategy, for any servers, administrators, strategies and  *)
(* values: the types are right, only overlapping activations enable two    *)
(* strategies, and a node's settings are the committed ones but for the    *)
(* excuses CacheIsCurrent names.                                           *)
(***************************************************************************)
EXTENDS Strategy, FiniteSetTheorems, TLAPS

\* An activation enables its strategy when it has seen all the others.
Passed ==
    \A a \in Admin :
        tx[a].pc \in {"write", "forget", "commit"} /\ tx[a].table = "zt" /\ tx[a].clzt = Enabled
            => tx[a].seen = Clbh

\* Of the rows an activation has seen it disables all that are enabled, and it
\* is alone.
Activations ==
    ~overlapped => \A a \in Admin : Activating(a) =>
        /\ EnabledRows(clzt) \cap tx[a].seen \subseteq tx[a].off
        /\ \A b \in Admin \ {a} : ~Activating(b)

AtMostOne == ~overlapped => \A c, d \in EnabledRows(clzt) : c = d

OneInv == TypeOK /\ Passed /\ Activations /\ AtMostOne

\* A change that is only to be committed has left no settings behind on its
\* node, or those read since are excused.
Forgotten ==
    \A a \in Admin : tx[a].pc = "commit" =>
        cache[NodeOf[a]] = Null \/ NodeOf[a] \in excused

CacheInv == TypeOK /\ Forgotten /\ CacheIsCurrent

-----------------------------------------------------------------------------
(* Types *)

LEMMA IdleType ==
  ASSUME Clbh # {}, Tmz # {}
  PROVE  Idle \in Tx
  BY DEF Idle, Tx, Pc, Disabled

LEMMA InitTypes == Init => TypeOK
  <1> SUFFICES ASSUME Init PROVE TypeOK
    OBVIOUS
  <1>1. clzt \in [Clbh -> {Enabled, Disabled}] /\ overlapped \in BOOLEAN
    BY DEF Init
  <1>2. tmz \in [Clbh -> Tmz]
    BY FirstAssumption DEF Init
  <1>3. tx \in [Admin -> Tx]
    BY <1>2, ClbhAssumption, IdleType DEF Init
  <1>4. /\ cache \in [Node -> Tmz \cup {Null, Absent}]
        /\ txs \in 0..MaxTx /\ failures \in 0..MaxFail
        /\ excused \subseteq Node
    BY BoundAssumption DEF Init
  <1> QED
    BY <1>1, <1>2, <1>3, <1>4 DEF TypeOK

LEMMA NonEmpty ==
  ASSUME TypeOK, NEW a \in Admin
  PROVE  Clbh # {} /\ Tmz # {} /\ Idle \in Tx
  <1>1. Clbh # {} /\ Tmz # {}
    BY DEF TypeOK, Tx
  <1> QED
    BY <1>1, IdleType

\* A change begins with the method's first statement still to come.
LEMMA UpdateBegins ==
  ASSUME TypeOK, NEW a \in Admin, Update(a)
  PROVE  \E t \in Tx : /\ Begin(a, t) /\ t.seen = {}
                       /\ \/ t.pc = "invalid"
                          \/ t.pc = "write" /\ ~(t.table = "zt" /\ t.clzt = Enabled)
  <1>0. Idle \in Tx
    BY NonEmpty
  <1>1. CASE \E c \in Clbh, v \in Tmz : UpdateStrategyInfo(a, c, v)
    <2>1. PICK c \in Clbh, v \in Tmz : UpdateStrategyInfo(a, c, v)
      BY <1>1
    <2> DEFINE t == [Idle EXCEPT !.pc = "write", !.table = "info", !.clbh = c, !.tmz = v]
    <2>2. t \in Tx /\ t.pc = "write" /\ t.table = "info" /\ t.seen = {}
      BY <1>0 DEF Tx, Pc, Idle
    <2>3. Begin(a, t)
      BY <2>1 DEF UpdateStrategyInfo
    <2> QED
      BY <2>2, <2>3
  <1>2. CASE \E c \in Clbh, z \in {Enabled, Disabled} : UpdateStrategyZt(a, c, z)
    <2>1. PICK c \in Clbh, z \in {Enabled, Disabled} : UpdateStrategyZt(a, c, z)
      BY <1>2
    <2> DEFINE t == [Idle EXCEPT !.pc = IF z = Enabled THEN "invalid" ELSE "write",
                                 !.clbh = c, !.clzt = z]
    <2>2. /\ t \in Tx /\ t.clzt = z /\ t.seen = {}
          /\ t.pc = IF z = Enabled THEN "invalid" ELSE "write"
      BY <1>0 DEF Tx, Pc, Idle
    <2>3. Begin(a, t)
      BY <2>1 DEF UpdateStrategyZt
    <2> QED
      BY <2>2, <2>3 DEF Enabled, Disabled
  <1> QED
    BY <1>1, <1>2 DEF Update

LEMMA GotoType ==
  ASSUME TypeOK, NEW a \in Admin, NEW pc \in Pc, Goto(a, pc)
  PROVE  tx' \in [Admin -> Tx]
  <1>1. tx[a] \in Tx
    BY DEF TypeOK
  <1>2. [tx[a] EXCEPT !.pc = pc] \in Tx
    BY <1>1 DEF Tx
  <1>3. tx' = [tx EXCEPT ![a] = [tx[a] EXCEPT !.pc = pc]]
    BY DEF Goto
  <1> QED
    BY <1>2, <1>3 DEF TypeOK

\* What a step of invalidStrategy does to the transaction.
LEMMA InvalidStep ==
  ASSUME TypeOK, NEW a \in Admin, InvalidStrategy(a)
  PROVE  /\ tx'[a] \in Tx /\ tx' = [tx EXCEPT ![a] = tx'[a]]
         /\ tx'[a].table = tx[a].table /\ tx'[a].clzt = tx[a].clzt
         /\ \E c \in Clbh : /\ tx'[a].seen = tx[a].seen \cup {c}
                            /\ tx'[a].off = tx[a].off \cup ({c} \cap EnabledRows(clzt))
         /\ tx'[a].pc = IF tx'[a].seen = Clbh THEN "write" ELSE "invalid"
  <1> DEFINE T(c) == [tx[a] EXCEPT !.pc = IF tx[a].seen \cup {c} = Clbh THEN "write" ELSE "invalid",
                                   !.seen = tx[a].seen \cup {c},
                                   !.off = tx[a].off \cup ({c} \cap Matching)]
  <1>1. PICK c \in Clbh : tx' = [tx EXCEPT ![a] = T(c)]
    BY DEF InvalidStrategy
  <1>2. tx[a] \in Tx
    BY DEF TypeOK
  <1>3. Matching = EnabledRows(clzt)
    BY DEF Matching
  <1>4. /\ T(c) \in Tx
        /\ T(c).table = tx[a].table /\ T(c).clzt = tx[a].clzt
        /\ T(c).seen = tx[a].seen \cup {c}
        /\ T(c).off = tx[a].off \cup ({c} \cap Matching)
        /\ T(c).pc = IF tx[a].seen \cup {c} = Clbh THEN "write" ELSE "invalid"
    BY <1>2 DEF Tx, Pc
  <1> HIDE DEF T
  <1>5. tx'[a] = T(c) /\ tx' = [tx EXCEPT ![a] = tx'[a]]
    BY <1>1 DEF TypeOK
  <1> QED
    BY <1>3, <1>4, <1>5

LEMMA CurrentType ==
  ASSUME TypeOK
  PROVE  Current \subseteq Tmz \cup {Null, Absent}
  BY DEF TypeOK, Current, EnabledRows

LEMMA NextTypes == TypeOK /\ [Next]_vars => TypeOK'
  <1> SUFFICES ASSUME TypeOK, [Next]_vars PROVE TypeOK'
    OBVIOUS
  <1> USE BoundAssumption
  <1>1. ASSUME NEW a \in Admin, Update(a) PROVE TypeOK'
    <2>1. PICK t \in Tx : Begin(a, t)
      BY <1>1, UpdateBegins
    <2> QED
      BY <2>1 DEF Begin, TypeOK
  <1>2. ASSUME NEW a \in Admin, InvalidStrategy(a) PROVE TypeOK'
    <2>1. tx' \in [Admin -> Tx]
      BY <1>2, InvalidStep DEF TypeOK
    <2>2. overlapped' \in BOOLEAN
      BY <1>2 DEF InvalidStrategy, TypeOK
    <2> QED
      BY <1>2, <2>1, <2>2 DEF InvalidStrategy, TypeOK
  <1>3. ASSUME NEW a \in Admin, Write(a) PROVE TypeOK'
    <2>1. tx' \in [Admin -> Tx]
      BY <1>3, GotoType DEF Write, Pc
    <2> QED
      BY <1>3, <2>1 DEF Write, TypeOK
  <1>4. ASSUME NEW a \in Admin, Forget(a) PROVE TypeOK'
    <2>1. tx' \in [Admin -> Tx]
      BY <1>4, GotoType DEF Forget, Pc
    <2> QED
      BY <1>4, <2>1 DEF Forget, TypeOK
  <1>5. ASSUME NEW a \in Admin, Commit(a) PROVE TypeOK'
    <2>1. tx' \in [Admin -> Tx]
      BY <1>5, NonEmpty DEF Commit, TypeOK
    <2>2. tx[a].clzt \in {Enabled, Disabled} /\ tx[a].clbh \in Clbh /\ tx[a].tmz \in Tmz
      BY DEF TypeOK, Tx
    <2>3. clzt' \in [Clbh -> {Enabled, Disabled}] /\ tmz' \in [Clbh -> Tmz]
      BY <1>5, <2>2 DEF Commit, Written, TypeOK
    <2>4. excused' \subseteq Node
      BY <1>5 DEF Commit, TypeOK
    <2> QED
      BY <1>5, <2>1, <2>3, <2>4 DEF Commit, TypeOK
  <1>6. ASSUME NEW a \in Admin, Rollback(a) PROVE TypeOK'
    BY <1>6, NonEmpty DEF Rollback, TypeOK
  <1>7. ASSUME NEW n \in Node, Fill(n) PROVE TypeOK'
    <2>1. cache' \in [Node -> Tmz \cup {Null, Absent}]
      BY <1>7, CurrentType DEF Fill, TypeOK
    <2>2. excused' \subseteq Node
      BY <1>7 DEF Fill, TypeOK
    <2> QED
      BY <1>7, <2>1, <2>2 DEF Fill, TypeOK
  <1>8. ASSUME NEW n \in Node, FillFails(n) PROVE TypeOK'
    BY <1>8 DEF FillFails, TypeOK
  <1>9. ASSUME NEW n \in Node, Restart(n) PROVE TypeOK'
    <2>1. tx' \in [Admin -> Tx]
      BY <1>9, NonEmpty DEF Restart, TypeOK
    <2> QED
      BY <1>9, <2>1 DEF Restart, TypeOK
  <1>10. CASE UNCHANGED vars
    BY <1>10 DEF TypeOK, vars
  <1> QED
    BY <1>1, <1>2, <1>3, <1>4, <1>5, <1>6, <1>7, <1>8, <1>9, <1>10 DEF Next, Proceed

\* Theorem.  The variables keep their types: CLZT is 0 or 1, a cache holds a
\* value of the entry or nothing, and a transaction holds what it was begun with.
THEOREM TypesAreRight == Spec => []TypeOK
  BY InitTypes, NextTypes, PTL DEF Spec

-----------------------------------------------------------------------------
(* One strategy is enabled *)

LEMMA InitOne == Init => Passed /\ Activations /\ AtMostOne
  <1> SUFFICES ASSUME Init PROVE Passed /\ Activations /\ AtMostOne
    OBVIOUS
  <1>1. \A a \in Admin : tx[a].pc = "idle" /\ tx[a].seen = {}
    BY DEF Init, Idle
  <1>2. Passed /\ Activations
    BY <1>1 DEF Passed, Activations, Activating
  <1>3. AtMostOne
    BY FirstAssumption DEF Init, AtMostOne, EnabledRows, Enabled, Disabled
  <1> QED
    BY <1>2, <1>3

LEMMA NextPassed == TypeOK /\ Passed /\ [Next]_vars => Passed'
  <1> SUFFICES ASSUME TypeOK, Passed, [Next]_vars PROVE Passed'
    OBVIOUS
  \* Steps after which a transaction is idle or as far as before.
  <1>1. ASSUME \A a \in Admin : \/ tx'[a] = tx[a] \/ tx'[a].pc = "idle"
        PROVE  Passed'
    BY <1>1 DEF Passed
  <1>2. ASSUME NEW a \in Admin, Update(a) PROVE Passed'
    <2>1. PICK t \in Tx : /\ Begin(a, t)
                          /\ \/ t.pc = "invalid"
                             \/ t.pc = "write" /\ ~(t.table = "zt" /\ t.clzt = Enabled)
      BY <1>2, UpdateBegins
    <2>2. tx'[a] = t /\ \A b \in Admin \ {a} : tx'[b] = tx[b]
      BY <2>1 DEF Begin, TypeOK
    <2> QED
      BY <2>1, <2>2 DEF Passed
  <1>3. ASSUME NEW a \in Admin, InvalidStrategy(a) PROVE Passed'
    <2>1. /\ tx'[a].pc = IF tx'[a].seen = Clbh THEN "write" ELSE "invalid"
          /\ \A b \in Admin \ {a} : tx'[b] = tx[b]
      BY <1>3, InvalidStep DEF TypeOK
    <2> QED
      BY <2>1 DEF Passed
  <1>4. ASSUME NEW a \in Admin, Write(a) \/ Forget(a) PROVE Passed'
    <2>1. /\ tx[a].pc \in {"write", "forget"}
          /\ tx'[a].table = tx[a].table /\ tx'[a].clzt = tx[a].clzt /\ tx'[a].seen = tx[a].seen
          /\ \A b \in Admin \ {a} : tx'[b] = tx[b]
      BY <1>4 DEF Write, Forget, Goto, TypeOK, Tx
    <2> QED
      BY <2>1 DEF Passed
  <1>5. ASSUME NEW a \in Admin, Commit(a) \/ Rollback(a) PROVE Passed'
    BY <1>1, <1>5 DEF Commit, Rollback, Idle, TypeOK
  <1>6. ASSUME NEW n \in Node, Fill(n) \/ FillFails(n) PROVE Passed'
    BY <1>1, <1>6 DEF Fill, FillFails
  <1>7. ASSUME NEW n \in Node, Restart(n) PROVE Passed'
    BY <1>1, <1>7 DEF Restart, Idle, TypeOK
  <1>8. CASE UNCHANGED vars
    BY <1>1, <1>8 DEF vars
  <1> QED
    BY <1>2, <1>3, <1>4, <1>5, <1>6, <1>7, <1>8 DEF Next, Proceed

LEMMA NextOne == OneInv /\ [Next]_vars => Activations' /\ AtMostOne'
  <1> SUFFICES ASSUME OneInv, [Next]_vars PROVE Activations' /\ AtMostOne'
    OBVIOUS
  <1> USE DEF OneInv
  \* Steps that begin no activation and leave CLZT alone.
  <1>1. ASSUME clzt' = clzt, overlapped' = overlapped,
               \A a \in Admin : Activating(a)' =>
                   Activating(a) /\ tx'[a].off = tx[a].off /\ tx'[a].seen = tx[a].seen
        PROVE  Activations' /\ AtMostOne'
    BY <1>1 DEF Activations, AtMostOne, EnabledRows
  <1>2. ASSUME NEW a \in Admin, Update(a) PROVE Activations' /\ AtMostOne'
    <2>0. PICK t \in Tx : /\ Begin(a, t) /\ t.seen = {}
                          /\ \/ t.pc = "invalid"
                             \/ t.pc = "write" /\ ~(t.table = "zt" /\ t.clzt = Enabled)
      BY <1>2, UpdateBegins
    <2>1. clzt' = clzt /\ overlapped' = overlapped
      BY <2>0 DEF Begin
    <2>2. tx'[a] = t /\ \A b \in Admin \ {a} : tx'[b] = tx[b]
      BY <2>0 DEF Begin, TypeOK
    <2>3. ~Activating(a)'
      BY <2>0, <2>2 DEF Activating
    <2> QED
      BY <1>1, <2>1, <2>2, <2>3 DEF Activating
  <1>3. ASSUME NEW a \in Admin, InvalidStrategy(a) PROVE Activations' /\ AtMostOne'
    <2>1. clzt' = clzt /\ \A b \in Admin \ {a} : tx'[b] = tx[b]
      BY <1>3, InvalidStep DEF InvalidStrategy, TypeOK
    <2>2. ~overlapped' => ~overlapped /\ \A b \in Admin \ {a} : ~Activating(b)
      BY <1>3 DEF InvalidStrategy
    <2>3. PICK c \in Clbh : /\ tx'[a].seen = tx[a].seen \cup {c}
                            /\ tx'[a].off = tx[a].off \cup ({c} \cap EnabledRows(clzt))
      BY <1>3, InvalidStep
    <2>4. Activating(a)' => Activating(a) \/ tx[a].seen = {}
      BY <1>3, InvalidStep DEF Activating
    <2>5. ~overlapped' /\ Activating(a)' => EnabledRows(clzt) \cap tx'[a].seen \subseteq tx'[a].off
      BY <2>2, <2>3, <2>4 DEF Activations
    <2>6. ~overlapped' => \A b \in Admin \ {a} : ~Activating(b)'
      BY <2>1, <2>2 DEF Activating
    <2> QED
      BY <2>1, <2>2, <2>5, <2>6 DEF Activations, AtMostOne, EnabledRows
  <1>4. ASSUME NEW a \in Admin, Write(a) \/ Forget(a) PROVE Activations' /\ AtMostOne'
    <2>1. clzt' = clzt /\ overlapped' = overlapped
      BY <1>4 DEF Write, Forget
    <2>2. /\ tx[a].pc \in {"write", "forget"}
          /\ tx'[a].table = tx[a].table /\ tx'[a].clzt = tx[a].clzt /\ tx'[a].off = tx[a].off
          /\ tx'[a].seen = tx[a].seen
          /\ \A b \in Admin \ {a} : tx'[b] = tx[b]
      BY <1>4 DEF Write, Forget, Goto, TypeOK, Tx
    <2> QED
      BY <1>1, <2>1, <2>2 DEF Activating
  <1>5. ASSUME NEW a \in Admin, Commit(a) PROVE Activations' /\ AtMostOne'
    <2>1. /\ overlapped' = overlapped
          /\ ~Activating(a)'
          /\ \A b \in Admin \ {a} : tx'[b] = tx[b]
      BY <1>5 DEF Commit, Activating, Idle, TypeOK
    <2>2. CASE Activating(a)
      <3>1. ASSUME ~overlapped PROVE EnabledRows(clzt') \subseteq {tx[a].clbh}
        <4>0. tx[a].seen = Clbh
          BY <1>5, <2>2 DEF Passed, Activating, Commit
        <4>1. EnabledRows(clzt) \subseteq tx[a].off
          BY <2>2, <3>1, <4>0 DEF Activations, EnabledRows
        <4>2. clzt' = Written(tx[a])
          BY <1>5, <2>2 DEF Commit, Activating
        <4> QED
          BY <4>1, <4>2 DEF Written, EnabledRows, Enabled, Disabled
      <3>2. ~overlapped => \A b \in Admin : ~Activating(b)'
        BY <2>1, <2>2 DEF Activations, Activating
      <3> QED
        BY <2>1, <3>1, <3>2 DEF Activations, AtMostOne, EnabledRows
    <2>3. CASE ~Activating(a)
      <3>1. EnabledRows(clzt') \subseteq EnabledRows(clzt)
        <4>1. CASE tx[a].table = "info"
          BY <1>5, <4>1 DEF Commit
        <4>2. CASE tx[a].table # "info"
          <5>1. clzt' = Written(tx[a]) /\ tx[a].table = "zt" /\ tx[a].clzt = Disabled
            BY <1>5, <2>3, <4>2 DEF Commit, Activating, TypeOK, Tx
          <5> QED
            BY <5>1 DEF Written, EnabledRows, Enabled, Disabled
        <4> QED
          BY <4>1, <4>2
      <3>2. \A b \in Admin : Activating(b)' =>
                Activating(b) /\ tx'[b].off = tx[b].off /\ tx'[b].seen = tx[b].seen
        BY <2>1 DEF Activating
      <3> QED
        BY <2>1, <3>1, <3>2 DEF Activations, AtMostOne, EnabledRows
    <2> QED
      BY <2>2, <2>3
  <1>6. ASSUME NEW a \in Admin, Rollback(a) PROVE Activations' /\ AtMostOne'
    <2>1. ~Activating(a)' /\ \A b \in Admin \ {a} : tx'[b] = tx[b]
      BY <1>6 DEF Rollback, Activating, Idle, TypeOK
    <2> QED
      BY <1>1, <1>6, <2>1 DEF Rollback, Activating
  <1>7. ASSUME NEW n \in Node, Fill(n) \/ FillFails(n) PROVE Activations' /\ AtMostOne'
    BY <1>1, <1>7 DEF Fill, FillFails, Activating
  <1>8. ASSUME NEW n \in Node, Restart(n) PROVE Activations' /\ AtMostOne'
    <2>1. \A b \in Admin : tx'[b] = tx[b] \/ ~Activating(b)'
      BY <1>8 DEF Restart, Activating, Idle, TypeOK
    <2> QED
      BY <1>1, <1>8, <2>1 DEF Restart, Activating
  <1>9. CASE UNCHANGED vars
    BY <1>1, <1>9 DEF vars, Activating
  <1> QED
    BY <1>2, <1>3, <1>4, <1>5, <1>6, <1>7, <1>8, <1>9 DEF Next, Proceed

LEMMA OneIsOne == AtMostOne => OneEnabledUnlessOverlapped
  <1> SUFFICES ASSUME AtMostOne, ~overlapped PROVE Cardinality(EnabledRows(clzt)) <= 1
    BY DEF OneEnabledUnlessOverlapped, OneStrategyEnabled
  <1>1. CASE EnabledRows(clzt) = {}
    <2>1. Cardinality({}) = 0
      BY FS_EmptySet, Zenon
    <2> QED
      BY <1>1, <2>1
  <1>2. CASE EnabledRows(clzt) # {}
    <2>1. PICK c : EnabledRows(clzt) = {c}
      BY <1>2 DEF AtMostOne
    <2>2. Cardinality({c}) = 1
      BY FS_Singleton, Zenon
    <2> QED
      BY <2>1, <2>2
  <1> QED
    BY <1>1, <1>2

\* Theorem.  As long as no activation begins while another is not committed, at
\* most one strategy is enabled, whoever else changes or disables one.
THEOREM OneUnlessOverlapped == Spec => []OneEnabledUnlessOverlapped
  <1>1. Init => OneInv
    BY InitTypes, InitOne DEF OneInv
  <1>2. OneInv /\ [Next]_vars => OneInv'
    BY NextTypes, NextPassed, NextOne DEF OneInv
  <1>3. OneInv => OneEnabledUnlessOverlapped
    BY OneIsOne DEF OneInv
  <1> QED
    BY <1>1, <1>2, <1>3, PTL DEF Spec

-----------------------------------------------------------------------------
(* The cache *)

LEMMA SameCurrent ==
  ASSUME clzt' = clzt, tmz' = tmz
  PROVE  Current' = Current
  BY DEF Current, EnabledRows

LEMMA InitCache == Init => Forgotten /\ CacheIsCurrent
  BY AdminAssumption DEF Init, Forgotten, CacheIsCurrent, Idle

LEMMA NextCache == CacheInv /\ [Next]_vars => Forgotten' /\ CacheIsCurrent'
  <1> SUFFICES ASSUME CacheInv, [Next]_vars PROVE Forgotten' /\ CacheIsCurrent'
    OBVIOUS
  <1> USE AdminAssumption DEF CacheInv
  \* Steps that touch neither tables nor caches.
  <1>1. ASSUME UNCHANGED <<clzt, tmz, cache, excused>>,
               \A a \in Admin : tx'[a].pc = "commit" => tx[a].pc = "commit"
        PROVE  Forgotten' /\ CacheIsCurrent'
    BY <1>1, SameCurrent DEF Forgotten, CacheIsCurrent
  <1>2. ASSUME NEW a \in Admin, Update(a) PROVE Forgotten' /\ CacheIsCurrent'
    <2>0. PICK t \in Tx : Begin(a, t) /\ t.pc # "commit"
      BY <1>2, UpdateBegins
    <2>1. UNCHANGED <<clzt, tmz, cache, excused>>
      BY <2>0 DEF Begin
    <2>2. \A b \in Admin : tx'[b].pc = "commit" => tx[b].pc = "commit"
      BY <2>0 DEF Begin, TypeOK
    <2> QED
      BY <1>1, <2>1, <2>2
  <1>3. ASSUME NEW a \in Admin, InvalidStrategy(a) \/ Write(a) \/ Rollback(a)
        PROVE  Forgotten' /\ CacheIsCurrent'
    <2>1. UNCHANGED <<clzt, tmz, cache, excused>>
      BY <1>3 DEF InvalidStrategy, Write, Rollback
    <2>2. tx'[a].pc # "commit" /\ \A b \in Admin \ {a} : tx'[b] = tx[b]
      <3>1. CASE InvalidStrategy(a)
        BY <3>1, InvalidStep DEF TypeOK
      <3>2. CASE Write(a)
        BY <3>2 DEF Write, Goto, TypeOK, Tx
      <3>3. CASE Rollback(a)
        BY <3>3 DEF Rollback, Idle, TypeOK
      <3> QED
        BY <1>3, <3>1, <3>2, <3>3
    <2> QED
      BY <1>1, <2>1, <2>2
  <1>4. ASSUME NEW a \in Admin, Forget(a) PROVE Forgotten' /\ CacheIsCurrent'
    <2>1. /\ cache'[NodeOf[a]] = Null
          /\ \A n \in Node \ {NodeOf[a]} :
                cache'[n] = cache[n] /\ (n \in excused' <=> n \in excused)
          /\ \A b \in Admin \ {a} : tx'[b] = tx[b]
          /\ clzt' = clzt /\ tmz' = tmz
      BY <1>4 DEF Forget, Emptied, Goto, TypeOK
    <2>2. Forgotten'
      BY <2>1 DEF Forgotten
    <2>3. CacheIsCurrent'
      BY <2>1, SameCurrent DEF CacheIsCurrent
    <2> QED
      BY <2>2, <2>3
  <1>5. ASSUME NEW a \in Admin, Commit(a) PROVE Forgotten' /\ CacheIsCurrent'
    <2>1. /\ cache' = cache
          /\ tx'[a].pc = "idle" /\ \A b \in Admin \ {a} : tx'[b] = tx[b]
          /\ tx[a].pc = "commit"
      BY <1>5 DEF Commit, Idle, TypeOK
    <2>2. /\ excused \subseteq excused'
          /\ \A n \in Node \ {NodeOf[a]} : cache[n] # Null => n \in excused'
      BY <1>5 DEF Commit, TypeOK
    <2>3. Forgotten'
      BY <2>1, <2>2 DEF Forgotten
    <2>4. CacheIsCurrent'
      BY <2>1, <2>2 DEF Forgotten, CacheIsCurrent
    <2> QED
      BY <2>3, <2>4
  <1>6. ASSUME NEW n \in Node, Fill(n) PROVE Forgotten' /\ CacheIsCurrent'
    <2>1. /\ cache'[n] \in Current
          /\ n \in excused' <=> Raced(n)
          /\ \A m \in Node \ {n} : cache'[m] = cache[m] /\ (m \in excused' <=> m \in excused)
          /\ tx' = tx /\ clzt' = clzt /\ tmz' = tmz
      BY <1>6 DEF Fill, TypeOK
    <2>2. Forgotten'
      BY <2>1 DEF Forgotten, Raced
    <2>3. CacheIsCurrent'
      BY <2>1, SameCurrent DEF CacheIsCurrent
    <2> QED
      BY <2>2, <2>3
  <1>7. ASSUME NEW n \in Node, FillFails(n) PROVE Forgotten' /\ CacheIsCurrent'
    <2>1. /\ n \in excused'
          /\ \A m \in Node \ {n} : cache'[m] = cache[m] /\ (m \in excused' <=> m \in excused)
          /\ tx' = tx /\ clzt' = clzt /\ tmz' = tmz
      BY <1>7 DEF FillFails, TypeOK
    <2> QED
      BY <2>1, SameCurrent DEF Forgotten, CacheIsCurrent
  <1>8. ASSUME NEW n \in Node, Restart(n) PROVE Forgotten' /\ CacheIsCurrent'
    <2>1. /\ cache'[n] = Null
          /\ \A m \in Node \ {n} : cache'[m] = cache[m] /\ (m \in excused' <=> m \in excused)
          /\ \A b \in Admin : tx'[b].pc = "commit" => tx[b].pc = "commit" /\ NodeOf[b] # n
          /\ clzt' = clzt /\ tmz' = tmz
      BY <1>8 DEF Restart, Idle, TypeOK
    <2> QED
      BY <2>1, SameCurrent DEF Forgotten, CacheIsCurrent
  <1>9. CASE UNCHANGED vars
    BY <1>1, <1>9 DEF vars
  <1> QED
    BY <1>2, <1>3, <1>4, <1>5, <1>6, <1>7, <1>8, <1>9 DEF Next, Proceed

\* Theorem.  The settings a node works with are the committed ones, unless its
\* cache was filled before the commit of a change on the node, another node
\* changed them since, or the query failed.
THEOREM SettingsAreCurrent == Spec => []CacheIsCurrent
  <1>1. Init => CacheInv
    BY InitTypes, InitCache DEF CacheInv
  <1>2. CacheInv /\ [Next]_vars => CacheInv'
    BY NextTypes, NextCache DEF CacheInv
  <1>3. CacheInv => CacheIsCurrent
    BY DEF CacheInv
  <1> QED
    BY <1>1, <1>2, <1>3, PTL DEF Spec
=============================================================================
