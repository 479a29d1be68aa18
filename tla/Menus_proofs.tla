---------------------------- MODULE Menus_proofs ----------------------------
(***************************************************************************)
(* Proofs about Menus, for any tables, servers, blocks of numbers, roles   *)
(* and administrators: the types are right, a role has what its last save  *)
(* was to store, deletions leave no menu without its parent, and the two   *)
(* trees are right exactly when the properties say so.                     *)
(*                                                                         *)
(* GrantedAsAsked says nothing of a role while it is being saved.  What is *)
(* true then (Halfway) makes it inductive: an undisturbed role that is     *)
(* between the two transactions of a save has no menus, is saved by one    *)
(* thread, and that thread is going to store what was asked for.           *)
(*                                                                         *)
(* EveryMenuHangs is inductive; the work is in Line, a recursive function. *)
(* It is the least set that has a menu and the parents of what it has      *)
(* (LineIsLeast, by well-foundedness of the sets that are missing), and    *)
(* that is all the steps need: a table gets one row whose line is known    *)
(* (PutClimbs), or loses all rows whose line meets a menu (DeleteHangs).   *)
(*                                                                         *)
(* The trees are right in every table, however it came about.  Whatever is *)
(* put in, a tree has the whole lines of its keys, each node under its     *)
(* parent (Stands); what can go wrong is a second node for a key (a twin), *)
(* and one is made exactly when a row that is not at the top is put in     *)
(* whose key is there (Takes), because it was a row before or is above     *)
(* one.  With the order of the query that is InTurn, the right-hand side   *)
(* of both properties (InTurnStep).  If it holds for the menu page, every  *)
(* parent comes before its children, so nothing is loaded in advance and   *)
(* the nodes are in the order of the query (PageTaken).  The recursions of *)
(* AddItem and Construct are unfolded by well-foundedness (RankedTurns,    *)
(* ConstructTurns).                                                        *)
(***************************************************************************)
EXTENDS Menus, FiniteSetTheorems, WellFoundedInduction, TLAPS

Halfway ==
    \A a \in Admin : save[a].jsbh \in Role \ disturbed =>
        /\ granted[save[a].jsbh] = {}
        /\ asked[save[a].jsbh] = save[a].ids
        /\ \A b \in Admin \ {a} : save[b].jsbh # save[a].jsbh

SaveInv == TypeOK /\ Halfway /\ GrantedAsAsked

-----------------------------------------------------------------------------
(* Types *)

LEMMA InitTypes == Init => TypeOK
  <1>1. Shipped \in [DOMAIN Shipped -> Menu]
    <2>1. [pcdbh : DOMAIN Shipped \cup {0}, cdxh : Cdxh] \subseteq Menu
      BY NumberAssumption DEF Menu, Cdbh
    <2> QED
      BY <2>1, ShippedAssumption
  <1> SUFFICES ASSUME Init PROVE TypeOK
    OBVIOUS
  <1>2. /\ used \subseteq Cdbh /\ DOMAIN menus \subseteq used
        /\ menus \in [DOMAIN menus -> Menu]
    BY <1>1 DEF Init, Cdbh
  <1>3. /\ granted \in [Role -> SUBSET used] /\ asked \in [Role -> SUBSET used]
        /\ save \in [Admin -> Save \cup {Idle}]
    BY DEF Init
  <1>4. ops \in 0..MaxOps /\ disturbed \subseteq Role
    BY BoundAssumption DEF Init
  <1>5. astray \in BOOLEAN
    BY DEF Init
  <1> QED
    BY <1>2, <1>3, <1>4, <1>5 DEF TypeOK

LEMMA NextKeyIsFree ==
  ASSUME NEW n \in Node, Block[n] \ used # {}
  PROVE  NextKey(n) \in Block[n] \ used
  <1> DEFINE free == Block[n] \ used
             R == {ss \in Nat \X Nat : ss[1] < ss[2]}
  <1>1. free \subseteq Nat
    BY BlockAssumption
  <1>2. IsWellFoundedOn(R, Nat)
    BY NatLessThanWellFounded DEF OpToRel
  <1>3. PICK c \in free : \A d \in free : <<d, c>> \notin R
    <2> HIDE DEF R
    <2> QED BY <1>1, <1>2, WFMin
  <1>4. \A d \in free : c <= d
    <2> TAKE d \in free
    <2>1. d \in Nat /\ c \in Nat /\ <<d, c>> \notin R
      BY <1>1, <1>3
    <2>2. ~(d < c)
      BY <2>1
    <2> QED
      BY <2>1, <2>2
  <1> QED
    BY <1>3, <1>4 DEF NextKey

LEMMA PutTypes ==
  ASSUME TypeOK, NEW c \in Cdbh, NEW p \in Cdbh \cup {Root}, NEW x \in Cdxh, Put(c, p, x)
  PROVE  /\ DOMAIN menus' = DOMAIN menus \cup {c}
         /\ menus' \in [DOMAIN menus' -> Menu]
         /\ astray' \in BOOLEAN
  <1>1. menus' = [d \in DOMAIN menus \cup {c} |->
                    IF d = c THEN [pcdbh |-> p, cdxh |-> x] ELSE menus[d]]
    BY DEF Put
  <1>2. [pcdbh |-> p, cdxh |-> x] \in Menu
    BY DEF Menu
  <1>3. \A d \in DOMAIN menus : menus[d] \in Menu
    BY DEF TypeOK
  <1>4. astray' \in BOOLEAN
    BY DEF Put, TypeOK
  <1> QED
    BY <1>1, <1>2, <1>3, <1>4

LEMMA NextTypes == TypeOK /\ [Next]_vars => TypeOK'
  <1> SUFFICES ASSUME TypeOK, [Next]_vars PROVE TypeOK'
    OBVIOUS
  <1> USE BoundAssumption
  <1>1. ASSUME NEW n \in Node, NEW p \in used \cup {Root}, NEW x \in Cdxh, InsertBean(n, p, x)
        PROVE  TypeOK'
    <2>1. NextKey(n) \in Block[n]
      BY <1>1, NextKeyIsFree DEF InsertBean
    <2>2. NextKey(n) \in Cdbh /\ p \in Cdbh \cup {Root}
      BY <2>1 DEF Cdbh, TypeOK
    <2>3. /\ DOMAIN menus' = DOMAIN menus \cup {NextKey(n)}
          /\ menus' \in [DOMAIN menus' -> Menu]
          /\ astray' \in BOOLEAN
      BY <1>1, <2>2, PutTypes DEF InsertBean
    <2>4. used' = used \cup {NextKey(n)} /\ SameRoles /\ Another
      BY <1>1 DEF InsertBean
    <2>5. /\ granted' \in [Role -> SUBSET used'] /\ asked' \in [Role -> SUBSET used']
          /\ save' \in [Admin -> Save' \cup {Idle}]
      BY <2>4 DEF SameRoles, TypeOK, Save
    <2> QED
      BY <2>2, <2>3, <2>4, <2>5 DEF TypeOK, Another, SameRoles, Idle
  <1>2. ASSUME NEW c \in used, NEW p \in used \cup {Root}, NEW x \in Cdxh, UpdateBean(c, p, x)
        PROVE  TypeOK'
    <2>1. c \in Cdbh /\ SentParent(c, p) \in Cdbh \cup {Root}
      BY <1>2 DEF SentParent, UpdateBean, TypeOK, Menu
    <2>2. /\ DOMAIN menus' = DOMAIN menus \cup {c}
          /\ menus' \in [DOMAIN menus' -> Menu]
          /\ astray' \in BOOLEAN
      BY <1>2, <2>1, PutTypes DEF UpdateBean
    <2> QED
      BY <1>2, <2>2 DEF UpdateBean, TypeOK, Another, SameRoles, Save
  <1>3. ASSUME NEW c \in used, DeleteBean(c) PROVE TypeOK'
    <2>1. menus' = [d \in DOMAIN menus \ Deleted(c) |-> menus[d]]
      BY <1>3 DEF DeleteBean
    <2>2. DOMAIN menus' \subseteq DOMAIN menus /\ menus' \in [DOMAIN menus' -> Menu]
      BY <2>1 DEF TypeOK
    <2> QED
      BY <1>3, <2>2 DEF DeleteBean, TypeOK, Another, SameRoles, Save
  <1>4. CASE DeleteAll
    <2>1. DOMAIN menus' = {} /\ menus' \in [{} -> Menu]
      <3>1. menus' = <<>>
        BY <1>4 DEF DeleteAll
      <3> QED BY <3>1, SMT
    <2> QED
      BY <1>4, <2>1 DEF DeleteAll, TypeOK, Another, SameRoles, Save
  <1>5. ASSUME NEW a \in Admin, NEW r \in Role, NEW ids \in SUBSET used, DeleteRoleMenu(a, r, ids)
        PROVE  TypeOK'
    BY <1>5 DEF DeleteRoleMenu, TypeOK, Another, Kept, Save
  <1>6. ASSUME NEW a \in Admin, UpdateRoleMenus(a) PROVE TypeOK'
    BY <1>6 DEF UpdateRoleMenus, TypeOK, Stored, Save, Idle
  <1>7. ASSUME NEW a \in Admin, SaveFails(a) PROVE TypeOK'
    BY <1>7 DEF SaveFails, TypeOK, Save, Idle
  <1>8. ASSUME NEW r \in Role, DeleteRole(r) PROVE TypeOK'
    BY <1>8 DEF DeleteRole, TypeOK, Another, Save
  <1>9. CASE UNCHANGED vars
    BY <1>9 DEF TypeOK, vars, Save
  <1> QED
    BY <1>1, <1>2, <1>3, <1>4, <1>5, <1>6, <1>7, <1>8, <1>9 DEF Next

\* Theorem.  The variables keep their types; the numbers in use are numbers
\* that were handed out.
THEOREM TypesAreRight == Spec => []TypeOK
  BY InitTypes, NextTypes, PTL DEF Spec

-----------------------------------------------------------------------------
(* What a role has *)

LEMMA InitSaves == Init => Halfway /\ GrantedAsAsked
  BY RoleAssumption DEF Init, Halfway, GrantedAsAsked, Idle

\* An idle thread saves no role, and the others one role each.
LEMMA SavedRoles ==
  ASSUME TypeOK, NEW a \in Admin
  PROVE  /\ save[a] = Idle <=> save[a].jsbh \notin Role
         /\ save[a] # Idle => save[a].ids \subseteq Cdbh
  BY RoleAssumption DEF TypeOK, Save, Idle

LEMMA NextSaves == SaveInv /\ [Next]_vars => Halfway' /\ GrantedAsAsked'
  <1> SUFFICES ASSUME SaveInv, [Next]_vars PROVE Halfway' /\ GrantedAsAsked'
    OBVIOUS
  <1> USE DEF SaveInv
  <1>1. CASE SameRoles
    BY <1>1 DEF SameRoles, Halfway, GrantedAsAsked, Saving
  <1>2. ASSUME NEW a \in Admin, NEW r \in Role, NEW ids \in SUBSET used, DeleteRoleMenu(a, r, ids)
        PROVE  Halfway' /\ GrantedAsAsked'
    <2>1. /\ granted' = [granted EXCEPT ![r] = {}]
          /\ asked' = [asked EXCEPT ![r] = ids]
          /\ save' = [save EXCEPT ![a] = [jsbh |-> r, ids |-> ids]]
          /\ disturbed' = IF Saving(r) THEN disturbed \cup {r} ELSE disturbed \ {r}
          /\ save[a].jsbh \notin Role
      BY <1>2, SavedRoles DEF DeleteRoleMenu, Kept
    <2>2. /\ granted'[r] = {} /\ asked'[r] = ids /\ save'[a] = [jsbh |-> r, ids |-> ids]
          /\ \A q \in Role \ {r} : granted'[q] = granted[q] /\ asked'[q] = asked[q]
          /\ \A b \in Admin \ {a} : save'[b] = save[b]
      BY <2>1 DEF TypeOK
    <2>3. Halfway'
      <3> SUFFICES ASSUME NEW b \in Admin, save'[b].jsbh \in Role \ disturbed'
                   PROVE  /\ granted'[save'[b].jsbh] = {}
                          /\ asked'[save'[b].jsbh] = save'[b].ids
                          /\ \A d \in Admin \ {b} : save'[d].jsbh # save'[b].jsbh
        BY DEF Halfway
      <3>1. CASE save'[b].jsbh = r
        <4>1. ~Saving(r)
          BY <2>1, <3>1
        <4>2. b = a
          BY <2>2, <3>1, <4>1 DEF Saving
        <4> QED
          BY <2>2, <4>1, <4>2 DEF Saving
      <3>2. CASE save'[b].jsbh # r
        <4>1. b # a /\ save'[b] = save[b] /\ save[b].jsbh \in Role \ disturbed
          BY <2>1, <2>2, <3>2
        <4>2. \A d \in Admin \ {b} : save'[d].jsbh # save[b].jsbh
          BY <2>2, <3>2, <4>1 DEF Halfway
        <4> QED
          BY <2>2, <3>2, <4>1, <4>2 DEF Halfway
      <3> QED
        BY <3>1, <3>2
    <2>4. GrantedAsAsked'
      <3> SUFFICES ASSUME NEW q \in Role, q \notin disturbed', ~Saving(q)'
                   PROVE  granted'[q] = asked'[q]
        BY DEF GrantedAsAsked
      <3>1. q # r
        BY <2>2 DEF Saving
      <3>2. q \notin disturbed /\ ~Saving(q)
        BY <2>1, <2>2, <3>1 DEF Saving
      <3> QED
        BY <2>2, <3>1, <3>2 DEF GrantedAsAsked
    <2> QED
      BY <2>3, <2>4
  <1>3. ASSUME NEW a \in Admin, UpdateRoleMenus(a) PROVE Halfway' /\ GrantedAsAsked'
    <2> DEFINE r == save[a].jsbh
    <2>1. /\ r \in Role /\ save[a].ids \subseteq Cdbh
          /\ granted' = [granted EXCEPT ![r] = Stored(r, save[a].ids)]
          /\ save' = [save EXCEPT ![a] = Idle]
          /\ asked' = asked /\ disturbed' = disturbed
      BY <1>3, SavedRoles DEF UpdateRoleMenus
    <2>2. /\ granted'[r] = Stored(r, save[a].ids)
          /\ \A q \in Role \ {r} : granted'[q] = granted[q]
          /\ save'[a].jsbh \notin Role
          /\ \A b \in Admin \ {a} : save'[b] = save[b]
      BY <2>1, RoleAssumption DEF TypeOK, Idle
    <2>3. ASSUME r \notin disturbed
          PROVE  granted'[r] = asked[r] /\ \A b \in Admin \ {a} : save[b].jsbh # r
      BY <2>1, <2>2, <2>3 DEF Halfway, Stored
    <2>4. Halfway'
      <3> SUFFICES ASSUME NEW b \in Admin, save'[b].jsbh \in Role \ disturbed'
                   PROVE  /\ granted'[save'[b].jsbh] = {}
                          /\ asked'[save'[b].jsbh] = save'[b].ids
                          /\ \A d \in Admin \ {b} : save'[d].jsbh # save'[b].jsbh
        BY DEF Halfway
      <3>1. b # a /\ save'[b] = save[b] /\ save[b].jsbh # r
        BY <2>1, <2>2, <2>3
      <3>2. \A d \in Admin \ {b} : save'[d].jsbh # save[b].jsbh
        BY <2>1, <2>2, <3>1 DEF Halfway
      <3> QED
        BY <2>1, <2>2, <3>1, <3>2 DEF Halfway
    <2>5. GrantedAsAsked'
      <3> SUFFICES ASSUME NEW q \in Role, q \notin disturbed', ~Saving(q)'
                   PROVE  granted'[q] = asked'[q]
        BY DEF GrantedAsAsked
      <3>1. CASE q = r
        BY <2>1, <2>3, <3>1
      <3>2. CASE q # r
        <4>1. q \notin disturbed /\ ~Saving(q)
          BY <2>1, <2>2, <3>2 DEF Saving
        <4> QED
          BY <2>1, <2>2, <3>2, <4>1 DEF GrantedAsAsked
      <3> QED
        BY <3>1, <3>2
    <2> QED
      BY <2>4, <2>5
  <1>4. ASSUME NEW a \in Admin, SaveFails(a) PROVE Halfway' /\ GrantedAsAsked'
    <2>1. /\ save' = [save EXCEPT ![a] = Idle]
          /\ disturbed' = disturbed \cup {save[a].jsbh}
          /\ granted' = granted /\ asked' = asked
      BY <1>4 DEF SaveFails
    <2>2. save'[a].jsbh \notin Role /\ \A b \in Admin \ {a} : save'[b] = save[b]
      BY <2>1, RoleAssumption DEF TypeOK, Idle
    <2>3. Halfway'
      BY <2>1, <2>2 DEF Halfway
    <2>4. GrantedAsAsked'
      BY <2>1, <2>2 DEF GrantedAsAsked, Saving
    <2> QED
      BY <2>3, <2>4
  <1>5. ASSUME NEW r \in Role, DeleteRole(r) PROVE Halfway' /\ GrantedAsAsked'
    <2>1. /\ granted'[r] = {} /\ asked'[r] = {} /\ save' = save
          /\ \A q \in Role \ {r} : granted'[q] = granted[q] /\ asked'[q] = asked[q]
          /\ disturbed' = IF Saving(r) THEN disturbed \cup {r} ELSE disturbed \ {r}
      BY <1>5 DEF DeleteRole, TypeOK
    <2>2. Halfway'
      BY <2>1 DEF Halfway, Saving
    <2>3. GrantedAsAsked'
      BY <2>1 DEF GrantedAsAsked, Saving
    <2> QED
      BY <2>2, <2>3
  <1>6. CASE UNCHANGED vars
    BY <1>1, <1>6 DEF SameRoles, vars
  <1> QED
    BY <1>1, <1>2, <1>3, <1>4, <1>5, <1>6
       DEF Next, InsertBean, UpdateBean, DeleteBean, DeleteAll

\* Theorem.  However many administrators save and delete roles, a role that no
\* save is under way for has what was last asked for it, unless that save
\* overlapped another or stopped between its transactions.
THEOREM RolesHaveWhatWasAsked == Spec => []GrantedAsAsked
  <1>1. Init => SaveInv
    BY InitTypes, InitSaves DEF SaveInv
  <1>2. SaveInv /\ [Next]_vars => SaveInv'
    BY NextTypes, NextSaves DEF SaveInv
  <1>3. SaveInv => GrantedAsAsked
    BY DEF SaveInv
  <1> QED
    BY <1>1, <1>2, <1>3, PTL DEF Spec

-----------------------------------------------------------------------------
(* The line of a menu *)

Grown(up, met) == met \cup {up[d] : d \in met \cap DOMAIN up}
Closed(up, S) == \A d \in S \cap DOMAIN up : up[d] \in S

\* Line is the least set that has c and, with a row, its parent.
LEMMA LineIsLeast ==
  ASSUME NEW up, IsFiniteSet(DOMAIN up), NEW c
  PROVE  /\ c \in Line(up, c) /\ Closed(up, Line(up, c))
         /\ \A S : c \in S /\ Closed(up, S) => Line(up, c) \subseteq S
  <1> DEFINE U == DOMAIN up \cup {up[d] : d \in DOMAIN up} \cup {c}
             Hull(met) == {e \in U : \A S \in SUBSET U : met \subseteq S /\ Closed(up, S) => e \in S}
             Solves(g) == g = [met \in SUBSET U |->
                                 IF Grown(up, met) = met THEN met ELSE g[Grown(up, met)]]
             hull == [met \in SUBSET U |-> Hull(met)]
             line == CHOOSE g : Solves(g)
  <1>1. Line(up, c) = line[{c}]
    BY DEF Line, Grown
  <1>2. \A met \in SUBSET U :
          /\ Grown(up, met) \in SUBSET U
          /\ met \subseteq Grown(up, met)
          /\ Grown(up, met) = met <=> Closed(up, met)
    BY DEF Grown, Closed
  <1>3. \A met \in SUBSET U : met \subseteq Hull(met) /\ Hull(met) \in SUBSET U
    OBVIOUS
  <1>4. ASSUME NEW met \in SUBSET U, Grown(up, met) = met
        PROVE  Hull(met) = met
    BY <1>2, <1>3, <1>4
  <1>5. ASSUME NEW met \in SUBSET U
        PROVE  Hull(met) = Hull(Grown(up, met))
    <2>1. \A S \in SUBSET U : Closed(up, S) => (met \subseteq S <=> Grown(up, met) \subseteq S)
      BY DEF Grown, Closed
    <2> QED
      BY <2>1
  <1>6. Solves(hull)
    <2> SUFFICES ASSUME NEW met \in SUBSET U
                 PROVE  Hull(met) = IF Grown(up, met) = met THEN met ELSE hull[Grown(up, met)]
      OBVIOUS
    <2>1. hull[Grown(up, met)] = Hull(Grown(up, met))
      <3>1. Grown(up, met) \in SUBSET U
        BY <1>2
      <3> HIDE DEF Hull, U
      <3> QED
        BY <3>1
    <2>2. CASE Grown(up, met) = met
      BY <1>4, <2>2
    <2>3. CASE Grown(up, met) # met
      BY <1>5, <2>1, <2>3
    <2> QED
      BY <2>2, <2>3
  <1>7. Solves(line)
    <2> HIDE DEF Solves
    <2> QED
      BY <1>6
  <1>8. IsFiniteSet(U)
    <2> DEFINE P == {up[d] : d \in DOMAIN up}
               f == [d \in DOMAIN up |-> up[d]]
    <2>1. f \in Surjection(DOMAIN up, P)
      BY DEF Surjection
    <2>2. IsFiniteSet(P)
      BY <2>1, FS_Surjection
    <2>3. IsFiniteSet(DOMAIN up \cup P)
      BY <2>2, FS_Union
    <2> QED
      BY <2>3, FS_AddElement
  <1>9. ASSUME NEW met \in SUBSET U
        PROVE  line[met] = Hull(met)
    <2> DEFINE Bad == {S \in SUBSET U : line[U \ S] # Hull(U \ S)}
               R == StrictSubsetOrdering(U)
    <2> SUFFICES ASSUME Bad # {} PROVE FALSE
      <3>1. U \ (U \ met) = met
        OBVIOUS
      <3> HIDE DEF U, Hull, line
      <3> QED
        BY <3>1
    <2>1. IsWellFoundedOn(R, SUBSET U)
      BY <1>8, FS_StrictSubsetOrderingWellFounded, FS_FiniteSubsetsOfFinite
    <2>2. PICK S \in Bad : \A T \in Bad : <<T, S>> \notin R
      <3> HIDE DEF R
      <3>1. Bad \in SUBSET (SUBSET U)
        OBVIOUS
      <3> HIDE DEF Bad
      <3> QED
        BY <2>1, <3>1, WFMin
    <2> DEFINE m == U \ S
               n == Grown(up, m)
    <2>3. m \in SUBSET U /\ n \in SUBSET U /\ m \subseteq n /\ line[m] # Hull(m)
      <3>1. m \in SUBSET U /\ line[m] # Hull(m)
        <4> HIDE DEF line, Hull, U
        <4> QED
          OBVIOUS
      <3> HIDE DEF m, line, Hull, U
      <3> QED
        BY <1>2, <3>1
    <2>4. line[m] = IF n = m THEN m ELSE line[n]
      <3>1. m \in SUBSET U
        OBVIOUS
      <3> HIDE DEF m, line, U
      <3> QED
        BY <1>7, <3>1
    <2>5. n # m
      BY <1>4, <2>3, <2>4
    <2>6. U \ n \in Bad
      <3>1. U \ (U \ n) = n /\ U \ n \in SUBSET U
        BY <2>3
      <3>2. line[n] # Hull(n)
        BY <1>5, <2>3, <2>4, <2>5
      <3> HIDE DEF line, Hull, U, n
      <3> QED
        BY <3>1, <3>2
    <2>7. <<U \ n, S>> \in R
      BY <2>3, <2>5 DEF StrictSubsetOrdering
    <2> QED
      BY <2>2, <2>6, <2>7
  <1> HIDE DEF line
  <1>10. Line(up, c) = Hull({c})
    BY <1>1, <1>9
  <1>11. c \in Hull({c})
    BY <1>3
  <1>12. Closed(up, Hull({c}))
    BY DEF Closed
  <1>13. ASSUME NEW S, c \in S, Closed(up, S)
         PROVE  Hull({c}) \subseteq S
    <2>1. Closed(up, S \cap U) /\ S \cap U \in SUBSET U /\ c \in S \cap U
      BY <1>13 DEF Closed
    <2> QED
      BY <2>1
  <1> QED
    BY <1>10, <1>11, <1>12, <1>13

LEMMA LineGoesOn ==
  ASSUME NEW up, IsFiniteSet(DOMAIN up), NEW c, NEW d \in Line(up, c)
  PROVE  Line(up, d) \subseteq Line(up, c)
  BY LineIsLeast

\* A row whose number is below its parent's cannot be the end of a line.
LEMMA DownToRoot ==
  ASSUME NEW up, IsFiniteSet(DOMAIN up), DOMAIN up \subseteq Nat,
         \A d \in DOMAIN up : up[d] \in DOMAIN up \cup {Root},
         \A d \in DOMAIN up : up[d] \in DOMAIN up => up[d] < d,
         NEW c \in DOMAIN up
  PROVE  Climbs(up, c)
  <1> DEFINE T == Line(up, c) \cap DOMAIN up
  <1>1. c \in Line(up, c) /\ Closed(up, Line(up, c))
    BY LineIsLeast
  <1>2. PICK m \in T : \A k \in T : ~ (<<k, m>> \in OpToRel(<, Nat))
    <2>1. T \subseteq Nat /\ T # {}
      BY <1>1
    <2> HIDE DEF T
    <2> QED
      BY <2>1, NatLessThanWellFounded, WFMin
  <1>3. up[m] \in Line(up, c)
    BY <1>1 DEF Closed
  <1>4. up[m] \notin DOMAIN up
    <2> SUFFICES ASSUME up[m] \in DOMAIN up PROVE FALSE
      OBVIOUS
    <2>1. up[m] < m /\ up[m] \in Nat /\ m \in Nat /\ up[m] \in T
      BY <1>3
    <2> QED
      BY <1>2, <2>1 DEF OpToRel
  <1> QED
    BY <1>3, <1>4 DEF Climbs

\* Putting c under p, which is not below c, leaves nothing without the root.
LEMMA PutClimbs ==
  ASSUME NEW up, IsFiniteSet(DOMAIN up), \A d \in DOMAIN up : Climbs(up, d),
         NEW c, NEW p \in DOMAIN up \cup {Root}, c \notin Line(up, p),
         NEW new, DOMAIN new = DOMAIN up \cup {c}, new[c] = p,
         \A d \in DOMAIN up \ {c} : new[d] = up[d]
  PROVE  \A d \in DOMAIN new : Climbs(new, d)
  <1>1. IsFiniteSet(DOMAIN new)
    BY FS_AddElement
  <1> SUFFICES ASSUME NEW d \in DOMAIN new PROVE Root \in Line(new, d)
    BY DEF Climbs
  <1> DEFINE L == Line(new, d)
  <1>2. d \in L /\ Closed(new, L)
    BY <1>1, LineIsLeast
  <1>3. CASE c \in L
    <2>1. p \in L
      BY <1>2, <1>3 DEF Closed
    <2>2. p \in Line(up, p) /\ Closed(up, Line(up, p))
      BY LineIsLeast
    <2>3. Root \in Line(up, p)
      BY <2>2 DEF Climbs
    <2>4. Closed(up, L \cap Line(up, p))
      BY <1>2, <2>2 DEF Closed
    <2>5. Line(up, p) \subseteq L \cap Line(up, p)
      <3> HIDE DEF L
      <3>1. p \in L \cap Line(up, p)
        BY <2>1, <2>2
      <3> QED
        BY <2>4, <3>1, LineIsLeast
    <2> QED
      BY <2>3, <2>5
  <1>4. CASE c \notin L
    <2>1. d \in DOMAIN up /\ Closed(up, L)
      BY <1>2, <1>4 DEF Closed
    <2>2. Root \in Line(up, d)
      BY <2>1 DEF Climbs
    <2> HIDE DEF L
    <2>3. Line(up, d) \subseteq L
      BY <1>2, <2>1, LineIsLeast
    <2> QED
      BY <2>2, <2>3 DEF L
  <1> QED
    BY <1>3, <1>4

\* Nor does taking away c with all that is below it.
LEMMA CutClimbs ==
  ASSUME NEW up, IsFiniteSet(DOMAIN up), \A d \in DOMAIN up : Climbs(up, d), NEW c,
         NEW new, DOMAIN new = DOMAIN up \ Below(up, c),
         \A d \in DOMAIN new : new[d] = up[d]
  PROVE  \A d \in DOMAIN new : Climbs(new, d)
  <1>1. IsFiniteSet(DOMAIN new)
    BY FS_Subset
  <1> SUFFICES ASSUME NEW d \in DOMAIN new PROVE Root \in Line(new, d)
    BY DEF Climbs
  <1> DEFINE L == Line(new, d)
             K == L \cap Line(up, d)
  <1>2. d \in L /\ Closed(new, L) /\ d \in Line(up, d) /\ Closed(up, Line(up, d))
    BY <1>1, LineIsLeast
  <1>3. c \notin Line(up, d)
    BY DEF Below
  <1>4. \A e \in Line(up, d) \cap DOMAIN up : e \in DOMAIN new
    BY <1>3, LineGoesOn DEF Below
  <1>5. Closed(up, K)
    BY <1>2, <1>4 DEF Closed
  <1>6. Line(up, d) \subseteq K
    <2>1. d \in K
      BY <1>2
    <2> HIDE DEF K
    <2> QED
      BY <1>5, <2>1, LineIsLeast
  <1> QED
    BY <1>6 DEF Climbs

-----------------------------------------------------------------------------
(* Every menu hangs *)

Hang == IsFiniteSet(DOMAIN menus) /\ EveryMenuHangs

LEMMA PutHangs ==
  ASSUME Hang, NEW c, NEW p, NEW x, Put(c, p, x)
  PROVE  Hang'
  <1>1. menus' = [d \in DOMAIN menus \cup {c} |->
                    IF d = c THEN [pcdbh |-> p, cdxh |-> x] ELSE menus[d]]
    BY DEF Put
  <1>2. /\ DOMAIN menus' = DOMAIN menus \cup {c} /\ menus'[c].pcdbh = p
        /\ \A d \in DOMAIN menus \ {c} : menus'[d] = menus[d]
    BY <1>1
  <1>3. IsFiniteSet(DOMAIN menus')
    BY <1>2, FS_AddElement DEF Hang
  <1>4. ASSUME ~astray'
        PROVE  \A d \in DOMAIN menus' : Climbs(Pcdbh', d)
    <2>1. ~astray /\ p \in DOMAIN menus \cup {Root} /\ c \notin Line(Pcdbh, p)
      BY <1>4 DEF Put
    <2>2. /\ DOMAIN Pcdbh = DOMAIN menus /\ DOMAIN Pcdbh' = DOMAIN menus \cup {c}
          /\ Pcdbh'[c] = p /\ \A d \in DOMAIN menus \ {c} : Pcdbh'[d] = Pcdbh[d]
      BY <1>2 DEF Pcdbh
    <2>3. \A d \in DOMAIN menus : Climbs(Pcdbh, d)
      BY <2>1 DEF Hang, EveryMenuHangs
    <2> QED
      BY <1>2, <2>1, <2>2, <2>3, PutClimbs DEF Hang
  <1> QED
    BY <1>3, <1>4 DEF Hang, EveryMenuHangs

LEMMA DeleteHangs ==
  ASSUME Hang, NEW c, DeleteBean(c)
  PROVE  Hang'
  <1>1. menus' = [d \in DOMAIN menus \ Deleted(c) |-> menus[d]] /\ astray' = astray
    BY DEF DeleteBean
  <1>2. IsFiniteSet(DOMAIN menus')
    BY <1>1, FS_Subset DEF Hang
  <1>3. ASSUME ~astray'
        PROVE  \A d \in DOMAIN menus' : Climbs(Pcdbh', d)
    <2>1. \A d \in DOMAIN menus : Climbs(Pcdbh, d)
      BY <1>1, <1>3 DEF Hang, EveryMenuHangs
    <2>2. /\ DOMAIN Pcdbh = DOMAIN menus /\ DOMAIN Pcdbh' = DOMAIN menus'
          /\ \A d \in DOMAIN menus' : Pcdbh'[d] = Pcdbh[d]
      BY <1>1 DEF Pcdbh
    <2>3. CASE Deleted(c) = {}
      <3>1. Pcdbh' = Pcdbh
        BY <1>1, <2>3 DEF Pcdbh
      <3> QED
        BY <1>1, <2>1, <2>3, <3>1
    <2>4. CASE Deleted(c) # {}
      <3>1. DOMAIN menus' = DOMAIN menus \ Below(Pcdbh, c)
        BY <1>1, <2>4 DEF Deleted
      <3> QED
        BY <2>1, <2>2, <3>1, CutClimbs DEF Hang
    <2> QED
      BY <2>3, <2>4
  <1> QED
    BY <1>2, <1>3 DEF Hang, EveryMenuHangs

LEMMA NextHangs == Hang /\ [Next]_vars => Hang'
  <1> SUFFICES ASSUME Hang, [Next]_vars PROVE Hang'
    OBVIOUS
  <1>1. CASE UNCHANGED <<menus, astray>>
    BY <1>1 DEF Hang, EveryMenuHangs, Pcdbh
  <1>2. ASSUME NEW n \in Node, NEW p, NEW x, InsertBean(n, p, x) PROVE Hang'
    BY <1>2, PutHangs DEF InsertBean
  <1>3. ASSUME NEW c, NEW p, NEW x, UpdateBean(c, p, x) PROVE Hang'
    BY <1>3, PutHangs DEF UpdateBean
  <1>4. CASE DeleteAll
    <2>1. DOMAIN menus' = {}
      <3>1. menus' = <<>>
        BY <1>4 DEF DeleteAll
      <3> QED
        BY <3>1, SMT
    <2>2. IsFiniteSet(DOMAIN menus')
      BY <2>1, FS_EmptySet
    <2> QED
      BY <2>1, <2>2 DEF Hang, EveryMenuHangs
  <1> QED
    BY <1>1, <1>2, <1>3, <1>4, DeleteHangs
       DEF Next, vars, DeleteRoleMenu, UpdateRoleMenus, SaveFails, DeleteRole

LEMMA InitHangs == Init => Hang
  <1> SUFFICES ASSUME Init PROVE Hang
    OBVIOUS
  <1>1. menus = Shipped /\ DOMAIN Pcdbh = DOMAIN Shipped
        /\ \A d \in DOMAIN Shipped : Pcdbh[d] = Shipped[d].pcdbh
    BY DEF Init, Pcdbh
  <1>2. /\ IsFiniteSet(DOMAIN Shipped) /\ DOMAIN Shipped \subseteq Nat
        /\ \A d \in DOMAIN Shipped :
              Shipped[d].pcdbh \in DOMAIN Shipped \cup {Root} /\ Shipped[d].pcdbh < d
    BY ShippedAssumption, BlockAssumption, NumberAssumption
  <1>3. \A d \in DOMAIN Shipped : Climbs(Pcdbh, d)
    BY <1>1, <1>2, DownToRoot
  <1> QED
    BY <1>1, <1>2, <1>3 DEF Hang, EveryMenuHangs

\* Theorem.  Every menu hangs in the tree unless one was put under a deleted menu
\* or under itself: whatever is deleted, in any table, takes all that is below it
\* along (internalDeleteMenu).
THEOREM MenusHang == Spec => []EveryMenuHangs
  <1>1. Hang => EveryMenuHangs
    BY DEF Hang
  <1> QED
    BY <1>1, InitHangs, NextHangs, PTL DEF Spec

-----------------------------------------------------------------------------
(* Rows that climb *)

LEMMA LineTurns ==
  ASSUME NEW up, IsFiniteSet(DOMAIN up), NEW c
  PROVE  Line(up, c) = IF c \in DOMAIN up THEN {c} \cup Line(up, up[c]) ELSE {c}
  <1>1. /\ c \in Line(up, c) /\ Closed(up, Line(up, c))
        /\ \A S : c \in S /\ Closed(up, S) => Line(up, c) \subseteq S
    BY LineIsLeast
  <1>2. CASE c \notin DOMAIN up
    <2>1. c \in {c} /\ Closed(up, {c})
      BY <1>2 DEF Closed
    <2>2. Line(up, c) \subseteq {c}
      BY ONLY <1>1, <2>1
    <2> QED
      BY <1>1, <1>2, <2>2
  <1>3. CASE c \in DOMAIN up
    <2>1. /\ up[c] \in Line(up, up[c]) /\ Closed(up, Line(up, up[c]))
          /\ \A S : up[c] \in S /\ Closed(up, S) => Line(up, up[c]) \subseteq S
      BY LineIsLeast
    <2>2. up[c] \in Line(up, c)
      BY <1>1, <1>3 DEF Closed
    <2>3. Line(up, up[c]) \subseteq Line(up, c)
      BY ONLY <1>1, <2>1, <2>2
    <2>4. c \in {c} \cup Line(up, up[c]) /\ Closed(up, {c} \cup Line(up, up[c]))
      BY <2>1 DEF Closed
    <2>5. Line(up, c) \subseteq {c} \cup Line(up, up[c])
      BY ONLY <1>1, <2>4
    <2> QED
      BY <1>1, <1>3, <2>3, <2>5
  <1> QED
    BY <1>2, <1>3

\* A row that climbs is not above itself, and what is above it climbs.
LEMMA ClimbersClimb ==
  ASSUME NEW up, IsFiniteSet(DOMAIN up), Root \notin DOMAIN up, NEW c \in Climbers(up)
  PROVE  /\ c \in DOMAIN up /\ c # Root
         /\ Line(up, c) = {c} \cup Line(up, up[c]) /\ c \notin Line(up, up[c])
         /\ up[c] = Root \/ up[c] \in Climbers(up)
  <1>1. c \in DOMAIN up /\ c # Root /\ Root \in Line(up, c)
    BY DEF Climbers, Climbs
  <1>2. Line(up, c) = {c} \cup Line(up, up[c])
    BY <1>1, LineTurns
  <1>3. up[c] = Root \/ up[c] \in Climbers(up)
    <2>1. Root \in Line(up, up[c])
      BY <1>1, <1>2
    <2>2. up[c] \notin DOMAIN up => Line(up, up[c]) = {up[c]}
      BY LineTurns
    <2> QED
      BY <2>1, <2>2 DEF Climbers, Climbs
  <1>4. c \notin Line(up, up[c])
    <2> SUFFICES ASSUME c \in Line(up, up[c]) PROVE FALSE
      OBVIOUS
    <2> DEFINE S == {e \in Line(up, c) : c \in Line(up, e)}
    <2>1. c \in Line(up, c) /\ Closed(up, Line(up, c))
      BY LineIsLeast
    <2>2. Closed(up, S)
      <3> SUFFICES ASSUME NEW e \in Line(up, c), c \in Line(up, e), e \in DOMAIN up
                   PROVE  up[e] \in Line(up, c) /\ c \in Line(up, up[e])
        BY DEF Closed
      <3>1. Line(up, e) = {e} \cup Line(up, up[e])
        BY LineTurns
      <3> QED
        BY <2>1, <3>1 DEF Closed
    <2>3. c \in S
      BY <2>1
    <2>4. Line(up, c) \subseteq S
      <3> HIDE DEF S
      <3> QED
        BY <2>2, <2>3, LineIsLeast
    <2>5. c \in Line(up, Root)
      BY <1>1, <2>4
    <2>6. Line(up, Root) = {Root}
      BY LineTurns
    <2> QED
      BY <1>1, <2>5, <2>6
  <1> QED
    BY <1>1, <1>2, <1>3, <1>4

Height(up, c) == Cardinality(Line(up, c))

\* What is above a row is less high.
LEMMA HeightsFall ==
  ASSUME NEW up, IsFiniteSet(DOMAIN up), Root \notin DOMAIN up, NEW c \in Climbers(up)
  PROVE  /\ Height(up, c) \in Nat
         /\ Height(up, c) <= Cardinality(DOMAIN up \cup {Root})
         /\ up[c] # Root => Height(up, up[c]) < Height(up, c)
  <1> DEFINE S == Climbers(up) \cup {Root}
  <1>1. Line(up, c) \subseteq S
    <2>1. Closed(up, S)
      <3>1. \A d \in Climbers(up) : up[d] = Root \/ up[d] \in Climbers(up)
        BY ClimbersClimb
      <3> QED
        BY <3>1 DEF Closed
    <2>2. c \in S
      OBVIOUS
    <2> HIDE DEF S
    <2> QED
      BY <2>1, <2>2, LineIsLeast
  <1>2. IsFiniteSet(DOMAIN up \cup {Root}) /\ S \subseteq DOMAIN up \cup {Root}
    BY FS_AddElement DEF Climbers
  <1>3. /\ IsFiniteSet(Line(up, c))
        /\ Cardinality(Line(up, c)) <= Cardinality(DOMAIN up \cup {Root})
    <2> HIDE DEF S
    <2>1. Line(up, c) \subseteq DOMAIN up \cup {Root}
      BY <1>1, <1>2
    <2> QED
      BY <1>2, <2>1, FS_Subset
  <1>4. Height(up, c) \in Nat
    BY <1>3, FS_CardinalityType DEF Height
  <1>5. Height(up, up[c]) < Height(up, c)
    <2>1. Line(up, up[c]) = Line(up, c) \ {c} /\ c \in Line(up, c)
      BY ClimbersClimb
    <2>2. Cardinality(Line(up, up[c])) = Cardinality(Line(up, c)) - 1
      BY <1>3, <2>1, FS_RemoveElement
    <2> QED
      BY <1>4, <2>2 DEF Height
  <1> QED
    BY <1>3, <1>4, <1>5 DEF Height

-----------------------------------------------------------------------------
(* What AddItem does *)

\* One turn of addTreeItems, where s is what the recursion returned.
Added(t, up, d, s) ==
    IF up[d] = Root THEN AttachTop(t, d)
    ELSE LET r == IF up[d] \in DOMAIN t.at THEN t ELSE s
         IN  Attach(r, d, r.at[up[d]])

\* The rows that climb have parents of a smaller rank, so the recursion ends.
Ranked(up, rank, N) ==
    /\ N \in Nat /\ rank \in [Climbers(up) -> 0..N]
    /\ \A d \in Climbers(up) : up[d] = Root \/ (up[d] \in Climbers(up) /\ rank[up[d]] < rank[d])

LEMMA RankedTurns ==
  ASSUME NEW up, NEW rank, NEW N, Ranked(up, rank, N), NEW t, NEW c \in Climbers(up)
  PROVE  AddItem(t, up, c) = Added(t, up, c, AddItem(t, up, up[c]))
  <1> DEFINE Solves(g, D) == g = [d \in D |-> Added(t, up, d, g[up[d]])]
             D(n) == {d \in Climbers(up) : rank[d] < n}
             Bad == {n \in Nat : ~ \E g : Solves(g, D(n))}
             add == CHOOSE g : Solves(g, Climbers(up))
  <1>1. \A e : AddItem(t, up, e) = add[e]
    BY DEF AddItem, Added
  <1>2. Bad = {}
    <2> SUFFICES ASSUME Bad # {} PROVE FALSE
      OBVIOUS
    <2>1. PICK n \in Bad : \A m \in Bad : ~ (<<m, n>> \in OpToRel(<, Nat))
      <3> HIDE DEF Bad
      <3>1. Bad \subseteq Nat
        BY DEF Bad
      <3> QED
        BY <3>1, NatLessThanWellFounded, WFMin
    <2>2. n # 0
      <3>1. D(0) = {}
        BY DEF Ranked
      <3>2. Solves([d \in {} |-> 0], D(0))
        BY <3>1
      <3> QED
        BY <2>1, <3>2
    <2>3. PICK g : Solves(g, D(n - 1))
      <3>0. n \in Nat
        OBVIOUS
      <3>1. n - 1 \in Nat /\ n - 1 < n
        BY ONLY <2>2, <3>0
      <3>2. n \in Nat /\ <<n - 1, n>> \in OpToRel(<, Nat)
        BY <2>1, <3>1 DEF OpToRel
      <3>3. n - 1 \notin Bad
        BY ONLY <2>1, <3>2
      <3> QED
        BY <3>1, <3>3
    <2> DEFINE h == [d \in D(n) |-> Added(t, up, d, g[up[d]])]
    <2>4. \A d \in D(n) : up[d] # Root => up[d] \in D(n) /\ up[d] \in D(n - 1)
      <3> SUFFICES ASSUME NEW d \in Climbers(up), rank[d] < n, up[d] # Root
                   PROVE  up[d] \in Climbers(up) /\ rank[up[d]] < n /\ rank[up[d]] < n - 1
        OBVIOUS
      <3>1. n \in Nat /\ N \in Nat /\ rank[d] \in 0..N /\ up[d] \in Climbers(up)
        BY <2>1 DEF Ranked
      <3>2. rank[up[d]] \in 0..N /\ rank[up[d]] < rank[d]
        BY <3>1 DEF Ranked
      <3> QED
        BY <3>1, <3>2
    <2>5. \A d \in D(n - 1) : d \in D(n) /\ h[d] = g[d]
      <3> SUFFICES ASSUME NEW d \in Climbers(up), rank[d] < n - 1
                   PROVE  d \in D(n) /\ h[d] = g[d]
        OBVIOUS
      <3>1. n \in Nat /\ N \in Nat /\ rank[d] \in 0..N
        BY <2>1 DEF Ranked
      <3>2. d \in D(n) /\ d \in D(n - 1)
        BY <3>1
      <3>3. g[d] = Added(t, up, d, g[up[d]])
        BY <2>3, <3>2
      <3> HIDE DEF D
      <3> QED
        BY <3>2, <3>3
    <2>6. ASSUME NEW d \in D(n)
          PROVE  Added(t, up, d, g[up[d]]) = Added(t, up, d, h[up[d]])
      BY <2>4, <2>5 DEF Added
    <2>7. Solves(h, D(n))
      <3> HIDE DEF D
      <3> QED
        BY <2>6
    <2> QED
      BY <2>1, <2>7
  <1>3. Solves(add, Climbers(up))
    <2>1. N + 1 \in Nat /\ D(N + 1) = Climbers(up)
      BY DEF Ranked
    <2>2. \E g : Solves(g, Climbers(up))
      <3> HIDE DEF D, Solves
      <3> QED
        BY <1>2, <2>1
    <2> HIDE DEF Solves
    <2> QED
      BY <2>2
  <1> HIDE DEF add
  <1> QED
    BY <1>1, <1>3

LEMMA AddItemTurns ==
  ASSUME NEW up, IsFiniteSet(DOMAIN up), Root \notin DOMAIN up, NEW t, NEW c \in Climbers(up)
  PROVE  AddItem(t, up, c) = Added(t, up, c, AddItem(t, up, up[c]))
  <1> DEFINE rank == [d \in Climbers(up) |-> Height(up, d)]
             N == Cardinality(DOMAIN up \cup {Root})
  <1>1. N \in Nat
    BY FS_AddElement, FS_CardinalityType
  <1>2. \A d \in Climbers(up) :
          /\ Height(up, d) \in 0..N
          /\ up[d] = Root \/ (up[d] \in Climbers(up) /\ Height(up, up[d]) < Height(up, d))
    <2> SUFFICES ASSUME NEW d \in Climbers(up)
                 PROVE  /\ Height(up, d) \in 0..N
                        /\ up[d] = Root \/ (up[d] \in Climbers(up) /\ Height(up, up[d]) < Height(up, d))
      OBVIOUS
    <2>1. /\ Height(up, d) \in Nat /\ Height(up, d) <= N
          /\ up[d] # Root => Height(up, up[d]) < Height(up, d)
      BY HeightsFall
    <2>2. up[d] = Root \/ up[d] \in Climbers(up)
      BY ClimbersClimb
    <2> HIDE DEF N
    <2> QED
      BY <1>1, <2>1, <2>2
  <1> HIDE DEF N
  <1>3. Ranked(up, rank, N)
    BY <1>1, <1>2 DEF Ranked
  <1> HIDE DEF rank
  <1> QED
    BY <1>3, RankedTurns

-----------------------------------------------------------------------------
(* A tree that is being made *)

\* The map tells one node of every key, and every node is in the list of its
\* parent.
Stands(t, up) ==
    /\ \E n \in Nat : DOMAIN t.nodes = 1..n /\ Len(t.nodes) = n
    /\ \A k \in DOMAIN t.at : t.at[k] \in DOMAIN t.nodes /\ t.nodes[t.at[k]].key = k
    /\ \A i \in DOMAIN t.nodes :
         LET n == t.nodes[i]
         IN  /\ n.key \in DOMAIN t.at
             /\ IF n.over = 0 THEN up[n.key] = Root
                ELSE n.over \in DOMAIN t.nodes /\ up[n.key] = t.nodes[n.over].key

NoTwins(t) == \A i, j \in DOMAIN t.nodes : t.nodes[i].key = t.nodes[j].key => i = j

LEMMA NoTreeStands == \A up : Stands(NoTree, up) /\ DOMAIN NoTree.at = {} /\ NoTwins(NoTree)
  BY DEF Stands, NoTwins, NoTree

\* A node under its parent leaves the tree in order, but if there is one already
\* it gets a twin.
LEMMA AttachStands ==
  ASSUME NEW t, NEW up, Stands(t, up), NEW c, NEW i,
         IF i = 0 THEN up[c] = Root ELSE i \in DOMAIN t.nodes /\ up[c] = t.nodes[i].key
  PROVE  /\ Stands(Attach(t, c, i), up)
         /\ DOMAIN Attach(t, c, i).at = DOMAIN t.at \cup {c}
         /\ NoTwins(Attach(t, c, i)) <=> NoTwins(t) /\ c \notin DOMAIN t.at
  <1> DEFINE m == [key |-> c, over |-> i]
             s == Append(t.nodes, m)
             K == DOMAIN t.at
             at == [d \in K \cup {c} |-> IF d = c THEN Len(t.nodes) + 1 ELSE t.at[d]]
             r == Attach(t, c, i)
  <1>1. PICK n \in Nat : DOMAIN t.nodes = 1..n /\ Len(t.nodes) = n
    BY DEF Stands
  <1>2. r.nodes = s /\ r.at = at
    BY DEF Attach
  <1>3. /\ DOMAIN s = 1..(n + 1) /\ Len(s) = n + 1 /\ s[n + 1] = m
        /\ \A j \in 1..n : s[j] = t.nodes[j]
    BY <1>1
  <1>4. m.key = c /\ m.over = i
    OBVIOUS
  <1>5. n + 1 \notin 1..n /\ n + 1 # 0 /\ \A j \in 1..(n + 1) : j \in 1..n \/ j = n + 1
    OBVIOUS
  <1>6. /\ DOMAIN at = K \cup {c} /\ at[c] = n + 1
        /\ \A k \in K \ {c} : at[k] = t.at[k] /\ at[k] \in 1..n /\ t.nodes[at[k]].key = k
    BY <1>1 DEF Stands
  <1>7. \A j \in 1..n : /\ t.nodes[j].key \in K
                        /\ IF t.nodes[j].over = 0 THEN up[t.nodes[j].key] = Root
                           ELSE /\ t.nodes[j].over \in 1..n
                                /\ up[t.nodes[j].key] = t.nodes[t.nodes[j].over].key
    BY <1>1 DEF Stands
  <1>8. \A k \in K : \E j \in 1..n : t.nodes[j].key = k
    BY <1>1 DEF Stands
  <1> HIDE DEF m, s, at, r, K
  <1>9. \A k \in K \cup {c} : at[k] \in 1..(n + 1) /\ s[at[k]].key = k
    <2>1. s[at[c]].key = c /\ at[c] \in 1..(n + 1)
      BY <1>3, <1>4, <1>6
    <2>2. ASSUME NEW k \in K \ {c} PROVE at[k] \in 1..(n + 1) /\ s[at[k]].key = k
      BY <1>3, <1>6
    <2> QED
      BY <2>1, <2>2
  <1>10. ASSUME NEW j \in 1..(n + 1)
         PROVE  /\ s[j].key \in K \cup {c}
                /\ IF s[j].over = 0 THEN up[s[j].key] = Root
                   ELSE s[j].over \in 1..(n + 1) /\ up[s[j].key] = s[s[j].over].key
    <2>1. CASE j = n + 1
      <3>1. s[j].key = c /\ s[j].over = i
        BY <1>3, <1>4, <2>1
      <3>2. CASE i = 0
        BY <2>1, <3>1, <3>2
      <3>3. CASE i # 0
        BY <1>1, <1>3, <2>1, <3>1, <3>3
      <3> QED
        BY <3>2, <3>3
    <2>2. CASE j \in 1..n
      <3>1. s[j] = t.nodes[j]
        BY <1>3, <2>2
      <3>2. CASE s[j].over = 0
        BY <1>7, <2>2, <3>1, <3>2
      <3>3. CASE s[j].over # 0
        BY <1>3, <1>7, <2>2, <3>1, <3>3
      <3> QED
        BY <3>2, <3>3
    <2> QED
      BY <1>5, <2>1, <2>2
  <1>11. n + 1 \in Nat /\ DOMAIN r.nodes = 1..(n + 1) /\ Len(r.nodes) = n + 1
    BY <1>2, <1>3
  <1>12. DOMAIN r.at = K \cup {c}
    BY <1>2, <1>6
  <1>13. Stands(r, up)
    <2>1. \A k \in DOMAIN r.at : r.at[k] \in DOMAIN r.nodes /\ r.nodes[r.at[k]].key = k
      BY <1>2, <1>3, <1>9, <1>12
    <2>2. \A j \in DOMAIN r.nodes :
            /\ r.nodes[j].key \in DOMAIN r.at
            /\ IF r.nodes[j].over = 0 THEN up[r.nodes[j].key] = Root
               ELSE /\ r.nodes[j].over \in DOMAIN r.nodes
                    /\ up[r.nodes[j].key] = r.nodes[r.nodes[j].over].key
      BY <1>2, <1>3, <1>10, <1>12
    <2> QED
      BY ONLY <1>11, <2>1, <2>2 DEF Stands
  <1>14. NoTwins(r) <=> NoTwins(t) /\ c \notin K
    <2>1. NoTwins(r) <=> \A j, k \in 1..(n + 1) : s[j].key = s[k].key => j = k
      BY <1>2, <1>11 DEF NoTwins
    <2>2. NoTwins(t) <=> \A j, k \in 1..n : s[j].key = s[k].key => j = k
      BY <1>1, <1>3 DEF NoTwins
    <2>3. 1..n \subseteq 1..(n + 1) /\ n + 1 \in 1..(n + 1) /\ s[n + 1].key = c
      BY <1>3, <1>4
    <2>4. c \in K <=> \E j \in 1..n : s[j].key = c
      BY <1>3, <1>7, <1>8
    <2> QED
      BY <1>5, <2>1, <2>2, <2>3, <2>4
  <1> QED
    BY <1>12, <1>13, <1>14 DEF r, K

\* With a key its line is there.
LEMMA StandsOnLines ==
  ASSUME NEW up, IsFiniteSet(DOMAIN up), Root \notin DOMAIN up, NEW t, Stands(t, up),
         NEW k \in DOMAIN t.at
  PROVE  Line(up, k) \ {Root} \subseteq DOMAIN t.at
  <1> DEFINE S == DOMAIN t.at \cup {Root}
  <1>1. Closed(up, S)
    <2>1. ASSUME NEW d \in DOMAIN t.at PROVE up[d] \in S
      <3> DEFINE i == t.at[d]
      <3>1. i \in DOMAIN t.nodes /\ t.nodes[i].key = d
        BY DEF Stands
      <3> HIDE DEF i
      <3>2. up[d] = Root \/ \E j \in DOMAIN t.nodes : up[d] = t.nodes[j].key
        <4>1. IF t.nodes[i].over = 0 THEN up[d] = Root
              ELSE t.nodes[i].over \in DOMAIN t.nodes /\ up[d] = t.nodes[t.nodes[i].over].key
          BY <3>1 DEF Stands
        <4> QED
          BY <4>1
      <3>3. \A j \in DOMAIN t.nodes : t.nodes[j].key \in DOMAIN t.at
        BY DEF Stands
      <3> QED
        BY <3>2, <3>3
    <2> QED
      BY <2>1 DEF Closed
  <1>2. k \in S
    OBVIOUS
  <1> HIDE DEF S
  <1>3. Line(up, k) \subseteq S
    BY <1>1, <1>2, LineIsLeast
  <1> QED
    BY <1>3 DEF S

\* A row that climbs puts in its line, and a twin if it is there and not at the
\* top.
Takes(t, up, c) ==
    LET u == AddItem(t, up, c)
    IN  /\ Stands(u, up)
        /\ DOMAIN u.at = DOMAIN t.at \cup (Line(up, c) \ {Root})
        /\ NoTwins(u) <=> NoTwins(t) /\ (c \notin DOMAIN t.at \/ up[c] = Root)

LEMMA TakesByTurns ==
  ASSUME NEW up, IsFiniteSet(DOMAIN up), Root \notin DOMAIN up, NEW t, Stands(t, up),
         NEW c \in Climbers(up), up[c] # Root => Takes(t, up, up[c])
  PROVE  Takes(t, up, c)
  <1> DEFINE q == up[c]
             s == AddItem(t, up, q)
  <1>1. AddItem(t, up, c) = Added(t, up, c, s)
    BY AddItemTurns
  <1>2. /\ c # Root /\ Line(up, c) = {c} \cup Line(up, q) /\ c \notin Line(up, q)
        /\ q = Root \/ q \in Climbers(up)
    BY ClimbersClimb
  <1>3. q \in Line(up, q)
    BY LineIsLeast
  <1>4. CASE q = Root
    <2>1. Line(up, q) = {Root}
      BY <1>4, LineTurns
    <2>2. CASE c \in DOMAIN t.at
      <3>1. AddItem(t, up, c) = t
        BY <1>1, <1>4, <2>2 DEF Added, AttachTop
      <3> QED
        BY <1>2, <1>4, <2>1, <2>2, <3>1 DEF Takes
    <2>3. CASE c \notin DOMAIN t.at
      <3>1. AddItem(t, up, c) = Attach(t, c, 0)
        BY <1>1, <1>4, <2>3 DEF Added, AttachTop
      <3> QED
        BY <1>2, <1>4, <2>1, <2>3, <3>1, AttachStands DEF Takes
    <2> QED
      BY <2>2, <2>3
  <1>5. CASE q # Root /\ q \in DOMAIN t.at
    <2>1. AddItem(t, up, c) = Attach(t, c, t.at[q])
      BY <1>1, <1>5 DEF Added
    <2>2. t.at[q] \in DOMAIN t.nodes /\ t.nodes[t.at[q]].key = q /\ t.at[q] # 0
      BY <1>5 DEF Stands
    <2>3. Line(up, q) \ {Root} \subseteq DOMAIN t.at
      BY <1>5, StandsOnLines
    <2> QED
      BY <1>2, <1>5, <2>1, <2>2, <2>3, AttachStands DEF Takes
  <1>6. CASE q # Root /\ q \notin DOMAIN t.at
    <2>1. AddItem(t, up, c) = Attach(s, c, s.at[q])
      BY <1>1, <1>6 DEF Added
    <2>2. /\ Stands(s, up) /\ DOMAIN s.at = DOMAIN t.at \cup (Line(up, q) \ {Root})
          /\ NoTwins(s) <=> NoTwins(t)
      BY <1>6 DEF Takes
    <2>3. c \notin DOMAIN t.at
      <3> SUFFICES ASSUME c \in DOMAIN t.at PROVE FALSE
        OBVIOUS
      <3>1. Line(up, c) \ {Root} \subseteq DOMAIN t.at
        BY StandsOnLines
      <3> QED
        BY <1>2, <1>3, <1>6, <3>1
    <2> HIDE DEF s
    <2>4. s.at[q] \in DOMAIN s.nodes /\ s.nodes[s.at[q]].key = q /\ s.at[q] # 0
      BY <1>3, <1>6, <2>2 DEF Stands
    <2>5. /\ Stands(Attach(s, c, s.at[q]), up)
          /\ DOMAIN Attach(s, c, s.at[q]).at = DOMAIN s.at \cup {c}
          /\ NoTwins(Attach(s, c, s.at[q])) <=> NoTwins(s) /\ c \notin DOMAIN s.at
      BY <2>2, <2>4, AttachStands
    <2> QED
      BY <1>2, <2>1, <2>2, <2>3, <2>5 DEF Takes
  <1> QED
    BY <1>4, <1>5, <1>6

LEMMA AddItemTakes ==
  ASSUME NEW up, IsFiniteSet(DOMAIN up), Root \notin DOMAIN up, NEW t, Stands(t, up),
         NEW c \in Climbers(up)
  PROVE  Takes(t, up, c)
  <1> DEFINE Bad == {n \in Nat : \E d \in Climbers(up) : n = Height(up, d) /\ ~Takes(t, up, d)}
  <1> SUFFICES ASSUME ~Takes(t, up, c) PROVE FALSE
    OBVIOUS
  <1>1. Height(up, c) \in Bad
    BY HeightsFall
  <1>2. PICK n \in Bad : \A m \in Bad : ~ (<<m, n>> \in OpToRel(<, Nat))
    <2>1. Bad \subseteq Nat /\ Bad # {}
      BY <1>1
    <2> HIDE DEF Bad
    <2> QED
      BY <2>1, NatLessThanWellFounded, WFMin
  <1>3. PICK d \in Climbers(up) : n \in Nat /\ n = Height(up, d) /\ ~Takes(t, up, d)
    OBVIOUS
  <1>4. up[d] # Root /\ ~Takes(t, up, up[d])
    BY <1>3, TakesByTurns
  <1>5. up[d] \in Climbers(up)
    BY <1>4, ClimbersClimb
  <1>6. Height(up, up[d]) < n /\ Height(up, up[d]) \in Nat
    BY <1>3, <1>4, <1>5, HeightsFall
  <1>7. Height(up, up[d]) \in Bad
    BY <1>4, <1>5, <1>6
  <1>8. <<Height(up, up[d]), n>> \in OpToRel(<, Nat)
    BY <1>3, <1>6 DEF OpToRel
  <1> HIDE DEF Bad
  <1> QED
    BY <1>2, <1>7, <1>8

-----------------------------------------------------------------------------
(* ORDER BY PCDBH,CDXH *)

LEMMA EarlierIsAnOrder ==
  ASSUME TypeOK, NEW c \in DOMAIN menus, NEW d \in DOMAIN menus, NEW e \in DOMAIN menus
  PROVE  /\ ~Earlier(c, c)
         /\ Earlier(c, d) /\ Earlier(d, e) => Earlier(c, e)
         /\ ~Earlier(c, d) /\ ~Earlier(d, c) => menus[c].pcdbh = menus[d].pcdbh
         /\ menus[c].pcdbh = Root /\ menus[d].pcdbh # Root => Earlier(c, d)
  <1>1. \A m \in DOMAIN menus : menus[m].pcdbh \in Nat /\ menus[m].cdxh \in Nat
    <2>1. Cdbh \cup {Root} \subseteq Nat
      BY BlockAssumption, NumberAssumption DEF Cdbh
    <2>2. \A m \in DOMAIN menus : menus[m].pcdbh \in Cdbh \cup {Root} /\ menus[m].cdxh \in Cdxh
      BY DEF TypeOK, Menu
    <2> QED
      BY <2>1, <2>2, NumberAssumption
  <1> QED
    BY <1>1, NumberAssumption DEF Earlier

Rows(s) == IsFiniteSet(s) /\ \A x \in s : x[2] \in DOMAIN menus

LEMMA LastRowIsLast ==
  ASSUME TypeOK, NEW s, Rows(s), s # {}
  PROVE  LastRow(s) \in s /\ \A y \in s : ~Earlier(LastRow(s)[2], y[2])
  <1> DEFINE Last(x, r) == x \in r /\ \A y \in r : ~Earlier(x[2], y[2])
             Bad == {r \in SUBSET s : r # {} /\ ~ \E x \in r : Last(x, r)}
             R == StrictSubsetOrdering(s)
  <1>1. Bad = {}
    <2> SUFFICES ASSUME Bad # {} PROVE FALSE
      OBVIOUS
    <2>1. IsWellFoundedOn(R, SUBSET s)
      BY FS_StrictSubsetOrderingWellFounded, FS_FiniteSubsetsOfFinite DEF Rows
    <2>2. PICK r \in Bad : \A q \in Bad : <<q, r>> \notin R
      <3> HIDE DEF R
      <3>1. Bad \in SUBSET (SUBSET s)
        OBVIOUS
      <3> HIDE DEF Bad
      <3> QED
        BY <2>1, <3>1, WFMin
    <2>3. r \in SUBSET s /\ r # {} /\ ~ \E x \in r : Last(x, r)
      OBVIOUS
    <2>4. PICK x \in r : TRUE
      BY <2>3
    <2> DEFINE q == r \ {x}
    <2>5. q \in SUBSET s /\ <<q, r>> \in R
      BY <2>3, <2>4 DEF StrictSubsetOrdering
    <2>6. q = {} \/ \E y \in q : Last(y, q)
      <3> HIDE DEF Last, R, q
      <3> QED
        BY <2>2, <2>5
    <2>7. \A y \in r : y[2] \in DOMAIN menus
      BY <2>3 DEF Rows
    <2>8. CASE q = {}
      <3>1. \A y \in r : y = x
        BY <2>8
      <3>2. ~Earlier(x[2], x[2])
        BY <2>4, <2>7, EarlierIsAnOrder
      <3> QED
        BY <2>3, <2>4, <3>1, <3>2
    <2>9. ASSUME NEW y \in q, Last(y, q) PROVE FALSE
      <3>1. y \in r /\ \A z \in r : z = x \/ ~Earlier(y[2], z[2])
        BY <2>9
      <3>2. CASE Earlier(y[2], x[2])
        <4>1. ASSUME NEW z \in r, Earlier(x[2], z[2]) PROVE FALSE
          <5>1. Earlier(y[2], z[2])
            BY <2>7, <3>1, <3>2, <4>1, EarlierIsAnOrder
          <5>2. z = x
            BY <3>1, <5>1
          <5> QED
            BY <2>7, <4>1, <5>2, EarlierIsAnOrder
        <4> QED
          BY <2>3, <2>4, <4>1
      <3>3. CASE ~Earlier(y[2], x[2])
        BY <2>3, <3>1, <3>3
      <3> QED
        BY <3>2, <3>3
    <2> QED
      BY <2>6, <2>8, <2>9
  <1>2. \E x \in s : Last(x, s)
    BY <1>1
  <1> QED
    BY <1>2 DEF LastRow

-----------------------------------------------------------------------------
(* The rows one after the other *)

\* g has the tree of every subset of the rows.
Turns(g, rows) ==
    /\ g[{}] = NoTree
    /\ \A s \in SUBSET rows : s # {} =>
         g[s] = AddItem(g[s \ {LastRow(s)}], Pcdbh, LastRow(s)[2])

LEMMA ConstructTurns ==
  ASSUME NEW rows, IsFiniteSet(rows), \A s \in SUBSET rows : s # {} => LastRow(s) \in s
  PROVE  \E g : TreeOf(rows) = g[rows] /\ Turns(g, rows)
  <1> DEFINE Turn(g, s) == IF s = {} THEN NoTree
                           ELSE AddItem(g[s \ {LastRow(s)}], Pcdbh, LastRow(s)[2])
             Solves(g, D) == g = [s \in D |-> Turn(g, s)]
             iter == CHOOSE g : Solves(g, SUBSET rows)
  <1>1. TreeOf(rows) = iter[rows]
    BY DEF TreeOf, Construct, MapThenFoldSet
  <1> DEFINE D(n) == {s \in SUBSET rows : Cardinality(s) < n}
             Bad == {n \in Nat : ~ \E g : Solves(g, D(n))}
  <1>2. \A s \in SUBSET rows : IsFiniteSet(s) /\ Cardinality(s) \in Nat
                               /\ Cardinality(s) <= Cardinality(rows)
    BY FS_Subset, FS_CardinalityType
  <1>3. ASSUME NEW s \in SUBSET rows, s # {}
        PROVE  /\ s \ {LastRow(s)} \in SUBSET rows
               /\ Cardinality(s \ {LastRow(s)}) < Cardinality(s)
    <2>1. LastRow(s) \in s /\ IsFiniteSet(s) /\ Cardinality(s) \in Nat
      BY <1>2, <1>3
    <2>2. Cardinality(s \ {LastRow(s)}) = Cardinality(s) - 1
      BY <2>1, FS_RemoveElement
    <2> QED
      BY <2>1, <2>2
  <1>4. Bad = {}
    <2> SUFFICES ASSUME Bad # {} PROVE FALSE
      OBVIOUS
    <2>1. PICK n \in Bad : \A m \in Bad : ~ (<<m, n>> \in OpToRel(<, Nat))
      <3>1. Bad \subseteq Nat
        OBVIOUS
      <3> HIDE DEF Bad
      <3> QED
        BY <3>1, NatLessThanWellFounded, WFMin
    <2>2. n \in Nat
      OBVIOUS
    <2>3. n # 0
      <3>1. D(0) = {}
        BY <1>2
      <3>2. Solves([s \in {} |-> NoTree], D(0))
        BY <3>1
      <3> QED
        BY <2>1, <3>2
    <2>4. PICK g : Solves(g, D(n - 1))
      <3>1. n - 1 \in Nat /\ n - 1 < n
        BY ONLY <2>2, <2>3
      <3>2. <<n - 1, n>> \in OpToRel(<, Nat)
        BY ONLY <2>2, <3>1 DEF OpToRel
      <3>3. n - 1 \notin Bad
        BY ONLY <2>1, <3>2
      <3> HIDE DEF D, Solves
      <3> QED
        BY <3>1, <3>3
    <2> DEFINE h == [s \in D(n) |-> Turn(g, s)]
    <2>5. \A s \in D(n) : s # {} => s \ {LastRow(s)} \in D(n - 1)
      <3> SUFFICES ASSUME NEW s \in SUBSET rows, Cardinality(s) < n, s # {}
                   PROVE  Cardinality(s \ {LastRow(s)}) < n - 1
        BY <1>3
      <3>1. s \ {LastRow(s)} \in SUBSET rows /\ Cardinality(s \ {LastRow(s)}) < Cardinality(s)
        BY <1>3
      <3>2. Cardinality(s) \in Nat /\ Cardinality(s \ {LastRow(s)}) \in Nat
        BY <1>2, <3>1
      <3> QED
        BY <2>2, <3>1, <3>2
    <2>6. \A s \in D(n - 1) : s \in D(n) /\ h[s] = g[s]
      <3> SUFFICES ASSUME NEW s \in SUBSET rows, Cardinality(s) < n - 1
                   PROVE  s \in D(n) /\ h[s] = g[s]
        OBVIOUS
      <3>0. Cardinality(s) \in Nat
        BY <1>2
      <3>1. s \in D(n) /\ s \in D(n - 1)
        BY <2>2, <3>0
      <3>2. g[s] = Turn(g, s)
        BY <2>4, <3>1
      <3> HIDE DEF D, Turn
      <3> QED
        BY <3>1, <3>2
    <2>7. \A s \in D(n) : Turn(g, s) = Turn(h, s)
      <3> HIDE DEF D, h
      <3> QED
        BY <2>5, <2>6
    <2>8. Solves(h, D(n))
      <3> HIDE DEF D, Turn
      <3> QED
        BY <2>7
    <2> QED
      BY <2>1, <2>8
  <1>5. Solves(iter, SUBSET rows)
    <2>1. PICK k \in Nat : D(k) = SUBSET rows
      <3>1. Cardinality(rows) + 1 \in Nat /\ D(Cardinality(rows) + 1) = SUBSET rows
        BY <1>2, FS_CardinalityType
      <3> HIDE DEF D
      <3> QED
        BY <3>1
    <2>2. \E g : Solves(g, SUBSET rows)
      <3> HIDE DEF D, Solves
      <3>1. \E g : Solves(g, D(k))
        BY ONLY <1>4
      <3> QED
        BY ONLY <2>1, <3>1
    <2> HIDE DEF Solves
    <2> QED
      BY <2>2
  <1> HIDE DEF iter
  <1>6. {} \in SUBSET rows
    OBVIOUS
  <1>7. Turns(iter, rows)
    BY <1>5, <1>6 DEF Turns
  <1> QED
    BY <1>1, <1>7

\* No row that is not at the top is there twice, and none comes before the row
\* of a menu above it.
InTurn(s) ==
    \A x, y \in s : x # y /\ menus[x[2]].pcdbh # Root =>
        x[2] # y[2] /\ (x[2] \in Above(Pcdbh, y[2]) => Earlier(x[2], y[2]))

ClimbingRows(s) == Rows(s) /\ \A x \in s : Climbs(Pcdbh, x[2])

Lines(s) == (UNION {Line(Pcdbh, x[2]) : x \in s}) \ {Root}

LEMMA PcdbhFits ==
  ASSUME TypeOK, IsFiniteSet(DOMAIN menus)
  PROVE  /\ DOMAIN Pcdbh = DOMAIN menus /\ \A c \in DOMAIN menus : Pcdbh[c] = menus[c].pcdbh
         /\ IsFiniteSet(DOMAIN Pcdbh) /\ Root \notin DOMAIN Pcdbh
  BY BlockAssumption, NumberAssumption DEF TypeOK, Cdbh, Pcdbh

\* The last row is in turn exactly if what is above the others does not have it.
LEMMA InTurnStep ==
  ASSUME TypeOK, IsFiniteSet(DOMAIN menus), NEW s, ClimbingRows(s), NEW x \in s,
         \A y \in s : ~Earlier(x[2], y[2])
  PROVE  InTurn(s) <=> /\ InTurn(s \ {x})
                       /\ x[2] \notin Lines(s \ {x}) \/ Pcdbh[x[2]] = Root
  <1> DEFINE c == x[2]
             r == s \ {x}
  <1>1. \A y \in s : /\ y[2] \in DOMAIN menus /\ y[2] \in Climbers(Pcdbh) /\ y[2] # Root
                     /\ Pcdbh[y[2]] = menus[y[2]].pcdbh
    BY PcdbhFits DEF ClimbingRows, Rows, Climbers
  <1>2. \A y \in s : y[2] \in Line(Pcdbh, y[2])
    BY PcdbhFits, LineIsLeast
  <1>3. c \in Lines(r) <=> \E y \in r : c = y[2] \/ c \in Above(Pcdbh, y[2])
    BY <1>1, <1>2 DEF Lines, Above
  <1>4. ASSUME NEW y \in r, y[2] \in Above(Pcdbh, c)
        PROVE  Earlier(y[2], c)
    <2>1. y \in s /\ y[2] # c /\ y[2] \in Line(Pcdbh, c)
      BY <1>4 DEF Above
    <2>2. ~Earlier(c, y[2])
      BY <2>1
    <2>3. menus[y[2]].pcdbh # menus[c].pcdbh
      <3> SUFFICES ASSUME menus[y[2]].pcdbh = menus[c].pcdbh PROVE FALSE
        OBVIOUS
      <3>1. Line(Pcdbh, c) = {c} \cup Line(Pcdbh, Pcdbh[c])
        BY <1>1, PcdbhFits, ClimbersClimb
      <3>2. y[2] \notin Line(Pcdbh, Pcdbh[y[2]])
        BY <1>1, <2>1, PcdbhFits, ClimbersClimb
      <3> QED
        BY <1>1, <2>1, <3>1, <3>2
    <2> QED
      BY <1>1, <2>1, <2>2, <2>3, EarlierIsAnOrder
  <1>5. \A y \in s : ~Earlier(c, y[2])
    OBVIOUS
  <1> DEFINE Pair(u, v) == menus[u[2]].pcdbh # Root =>
                 u[2] # v[2] /\ (u[2] \in Above(Pcdbh, v[2]) => Earlier(u[2], v[2]))
  <1>6. InTurn(s) <=> /\ InTurn(r)
                      /\ \A y \in r : Pair(x, y) /\ Pair(y, x)
    <2>1. InTurn(s) <=> \A u, v \in s : u # v => Pair(u, v)
      BY DEF InTurn
    <2>2. InTurn(r) <=> \A u, v \in r : u # v => Pair(u, v)
      BY DEF InTurn
    <2>3. \A y \in s : y = x \/ y \in r
      OBVIOUS
    <2>4. \A y \in r : y \in s /\ y # x
      OBVIOUS
    <2> HIDE DEF Pair, r
    <2> QED
      BY <2>1, <2>2, <2>3, <2>4
  <1>7. (\A y \in r : Pair(x, y)) <=> (c \notin Lines(r) \/ Pcdbh[c] = Root)
    BY <1>1, <1>3, <1>5
  <1>8. ASSUME NEW y \in r, Pair(x, y) PROVE Pair(y, x)
    BY <1>4, <1>8
  <1> HIDE DEF Pair, r, c
  <1> QED
    BY <1>6, <1>7, <1>8 DEF r, c

Taken(t, s) ==
    /\ Stands(t, Pcdbh)
    /\ DOMAIN t.at = Lines(s)
    /\ NoTwins(t) <=> InTurn(s)

LEMMA TakenStep ==
  ASSUME TypeOK, IsFiniteSet(DOMAIN menus), NEW s, ClimbingRows(s), NEW x \in s,
         \A y \in s : ~Earlier(x[2], y[2]), NEW t, Taken(t, s \ {x})
  PROVE  Taken(AddItem(t, Pcdbh, x[2]), s)
  <1>1. x[2] \in Climbers(Pcdbh)
    BY PcdbhFits DEF ClimbingRows, Rows, Climbers
  <1>2. Takes(t, Pcdbh, x[2])
    BY <1>1, PcdbhFits, AddItemTakes DEF Taken
  <1>3. Lines(s) = Lines(s \ {x}) \cup (Line(Pcdbh, x[2]) \ {Root})
    BY DEF Lines
  <1> QED
    BY <1>2, <1>3, InTurnStep DEF Takes, Taken

LEMMA TreeTaken ==
  ASSUME TypeOK, IsFiniteSet(DOMAIN menus), NEW rows, ClimbingRows(rows)
  PROVE  Taken(TreeOf(rows), rows)
  <1>1. \A s \in SUBSET rows : ClimbingRows(s)
    BY FS_Subset DEF ClimbingRows, Rows
  <1>2. \A s \in SUBSET rows : s # {} =>
          LastRow(s) \in s /\ \A y \in s : ~Earlier(LastRow(s)[2], y[2])
    BY <1>1, LastRowIsLast DEF ClimbingRows
  <1>3. PICK g : TreeOf(rows) = g[rows] /\ Turns(g, rows)
    <2>1. IsFiniteSet(rows) /\ \A s \in SUBSET rows : s # {} => LastRow(s) \in s
      BY <1>2 DEF ClimbingRows, Rows
    <2> QED
      BY ONLY <2>1, ConstructTurns
  <1> DEFINE Bad == {s \in SUBSET rows : ~Taken(g[s], s)}
             R == StrictSubsetOrdering(rows)
  <1>4. Bad = {}
    <2> SUFFICES ASSUME Bad # {} PROVE FALSE
      OBVIOUS
    <2>1. IsWellFoundedOn(R, SUBSET rows)
      BY FS_StrictSubsetOrderingWellFounded, FS_FiniteSubsetsOfFinite DEF ClimbingRows, Rows
    <2>2. PICK s \in Bad : \A r \in Bad : <<r, s>> \notin R
      <3> HIDE DEF R
      <3>1. Bad \in SUBSET (SUBSET rows)
        OBVIOUS
      <3> HIDE DEF Bad
      <3> QED
        BY <2>1, <3>1, WFMin
    <2>3. s \in SUBSET rows /\ ~Taken(g[s], s)
      OBVIOUS
    <2>4. s # {}
      <3>1. Lines({}) = {} /\ InTurn({})
        BY DEF Lines, InTurn
      <3>2. Taken(NoTree, {})
        BY <3>1, NoTreeStands DEF Taken
      <3> QED
        BY <1>3, <2>3, <3>2 DEF Turns
    <2>5. PICK x : x = LastRow(s)
      OBVIOUS
    <2>6. /\ x \in s /\ (\A y \in s : ~Earlier(x[2], y[2]))
          /\ g[s] = AddItem(g[s \ {x}], Pcdbh, x[2])
      BY <1>2, <1>3, <2>3, <2>4, <2>5 DEF Turns
    <2>7. s \ {x} \in SUBSET rows /\ <<s \ {x}, s>> \in R
      BY <2>3, <2>6 DEF StrictSubsetOrdering
    <2>8. Taken(g[s \ {x}], s \ {x})
      <3> HIDE DEF R
      <3> QED
        BY <2>2, <2>7
    <2>9. ClimbingRows(s)
      BY <1>1, <2>3
    <2> QED
      BY <2>3, <2>6, <2>8, <2>9, TakenStep
  <1> QED
    BY <1>3, <1>4

\* As many nodes as keys is no key twice.
LEMMA CountedTwins ==
  ASSUME NEW t, NEW up, Stands(t, up)
  PROVE  /\ Keys(t) = DOMAIN t.at
         /\ Len(t.nodes) = Cardinality(Keys(t)) <=> NoTwins(t)
  <1>1. PICK n \in Nat : DOMAIN t.nodes = 1..n /\ Len(t.nodes) = n
    BY DEF Stands
  <1>2. Keys(t) = DOMAIN t.at
    <2>1. \A i \in DOMAIN t.nodes : t.nodes[i].key \in DOMAIN t.at
      BY DEF Stands
    <2>2. \A k \in DOMAIN t.at : \E i \in DOMAIN t.nodes : t.nodes[i].key = k
      BY DEF Stands
    <2> QED
      BY <2>1, <2>2 DEF Keys
  <1> DEFINE f == [i \in 1..n |-> t.nodes[i].key]
  <1>3. \A i \in 1..n : f[i] = t.nodes[i].key
    OBVIOUS
  <1>4. f \in Surjection(1..n, Keys(t))
    <2>1. f \in [1..n -> Keys(t)] /\ \A k \in Keys(t) : \E i \in 1..n : f[i] = k
      BY <1>1 DEF Keys
    <2> HIDE DEF f
    <2> QED
      BY <2>1 DEF Surjection
  <1>5. f \in Injection(1..n, Keys(t)) <=> NoTwins(t)
    <2>1. f \in [1..n -> Keys(t)]
      BY <1>1 DEF Keys
    <2> HIDE DEF f
    <2> QED
      BY <1>1, <1>3, <2>1 DEF Injection, IsInjective, NoTwins
  <1>6. IsFiniteSet(1..n) /\ Cardinality(1..n) = n
    BY FS_Interval
  <1> HIDE DEF f
  <1>7. Cardinality(Keys(t)) = n <=> NoTwins(t)
    BY <1>4, <1>5, <1>6, FS_Surjection
  <1> QED
    BY <1>1, <1>2, <1>7

LEMMA ShownInTurn ==
  ASSUME TypeOK, IsFiniteSet(DOMAIN menus), NEW rows, ClimbingRows(rows)
  PROVE  ShowsOnce(TreeOf(rows), Pcdbh, {x[2] : x \in rows}) <=> InTurn(rows)
  <1> DEFINE t == TreeOf(rows)
  <1>1. Stands(t, Pcdbh) /\ DOMAIN t.at = Lines(rows) /\ (NoTwins(t) <=> InTurn(rows))
    BY TreeTaken DEF Taken
  <1> HIDE DEF t
  <1>2. /\ Keys(t) = DOMAIN t.at
        /\ Len(t.nodes) = Cardinality(Keys(t)) <=> NoTwins(t)
    BY <1>1, CountedTwins
  <1>3. Lines(rows) = (UNION {Line(Pcdbh, c) : c \in {x[2] : x \in rows}}) \ {Root}
    BY DEF Lines
  <1>4. \A i \in DOMAIN t.nodes :
          Pcdbh[t.nodes[i].key] = IF t.nodes[i].over = 0 THEN Root
                                  ELSE t.nodes[t.nodes[i].over].key
    BY <1>1 DEF Stands
  <1> QED
    BY <1>1, <1>2, <1>3, <1>4 DEF ShowsOnce, t

-----------------------------------------------------------------------------
(* The menus of a user *)

FewGrants == IsFiniteSet(used) /\ IsFiniteSet({r \in Role : granted[r] # {}})

TreeInv == TypeOK /\ Hang /\ FewGrants

LEMMA InitFewGrants == Init => FewGrants
  <1> SUFFICES ASSUME Init PROVE FewGrants
    OBVIOUS
  <1>1. used = DOMAIN Shipped /\ {r \in Role : granted[r] # {}} = {}
    BY DEF Init
  <1> QED
    BY <1>1, ShippedAssumption, FS_EmptySet DEF FewGrants

LEMMA NextFewGrants == TypeOK /\ FewGrants /\ [Next]_vars => FewGrants'
  <1> SUFFICES ASSUME TypeOK, FewGrants, [Next]_vars PROVE FewGrants'
    OBVIOUS
  <1>1. IsFiniteSet(used')
    <2>1. used' = used \/ \E c : used' = used \cup {c}
      BY DEF Next, vars, InsertBean, UpdateBean, DeleteBean, DeleteAll, DeleteRoleMenu,
             UpdateRoleMenus, SaveFails, DeleteRole
    <2> QED
      BY <2>1, FS_AddElement DEF FewGrants
  <1>2. \E r : \A q \in Role \ {r} : granted'[q] = granted[q]
    <2>1. CASE granted' = granted
      BY <2>1
    <2>2. ASSUME NEW r, NEW e, granted' = [granted EXCEPT ![r] = e]
          PROVE  \A q \in Role \ {r} : granted'[q] = granted[q]
      BY <2>2 DEF TypeOK
    <2>3. \/ granted' = granted
          \/ \E r, e : granted' = [granted EXCEPT ![r] = e]
      BY DEF Next, vars, SameRoles, InsertBean, UpdateBean, DeleteBean, DeleteAll,
             DeleteRoleMenu, UpdateRoleMenus, SaveFails, DeleteRole
    <2> QED
      BY <2>1, <2>2, <2>3
  <1>3. IsFiniteSet({q \in Role : granted'[q] # {}})
    <2>1. PICK r : \A q \in Role \ {r} : granted'[q] = granted[q]
      BY <1>2
    <2>2. {q \in Role : granted'[q] # {}} \subseteq {q \in Role : granted[q] # {}} \cup {r}
      BY <2>1
    <2>3. IsFiniteSet({q \in Role : granted[q] # {}} \cup {r})
      BY FS_AddElement DEF FewGrants
    <2> QED
      BY <2>2, <2>3, FS_Subset
  <1> QED
    BY <1>1, <1>3 DEF FewGrants

LEMMA InitTreeInv == Init => TreeInv
  BY InitTypes, InitHangs, InitFewGrants DEF TreeInv

LEMMA NextTreeInv == TreeInv /\ [Next]_vars => TreeInv'
  BY NextTypes, NextHangs, NextFewGrants DEF TreeInv

LEMMA UserRows ==
  ASSUME TreeInv, NEW R \in SUBSET Role, \A c \in Mine(R) : Climbs(Pcdbh, c)
  PROVE  ClimbingRows(MenusByJsbh(R))
  <1> DEFINE S == {r \in Role : granted[r] # {}} \X used
  <1>1. IsFiniteSet(S)
    BY FS_Product DEF TreeInv, FewGrants
  <1>2. MenusByJsbh(R) \subseteq S
    BY DEF MenusByJsbh, TreeInv, TypeOK
  <1>3. IsFiniteSet(MenusByJsbh(R))
    BY <1>1, <1>2, FS_Subset
  <1> QED
    BY <1>3 DEF ClimbingRows, Rows, Mine, MenusByJsbh

LEMMA MineInTurn ==
  ASSUME NEW R
  PROVE  InTurn(MenusByJsbh(R)) <=>
           /\ Ascending(Mine(R))
           /\ \A x, y \in MenusByJsbh(R) : x[2] = y[2] /\ menus[x[2]].pcdbh # Root => x = y
  <1>1. \A c : c \in Mine(R) <=> \E x \in MenusByJsbh(R) : x[2] = c
    BY DEF Mine
  <1>2. \A c, d : c \in Above(Pcdbh, d) => c # d
    BY DEF Above
  <1> QED
    BY <1>1, <1>2 DEF InTurn, Ascending

\* Theorem.  queryMenuTreeByJsbh shows the menus of a user once and in their
\* places exactly if the numbers go up along the branches and no menu below the
\* top comes from two roles: in any table, whatever else is wrong in it.
THEOREM MyMenusGrow == Spec => []MyMenusAreRight
  <1>1. TreeInv => MyMenusAreRight
    <2> SUFFICES ASSUME TreeInv, NEW R \in SUBSET Role, \A c \in Mine(R) : Climbs(Pcdbh, c)
                 PROVE  ShowsOnce(TreeOf(MenusByJsbh(R)), Pcdbh, Mine(R)) <=>
                          /\ Ascending(Mine(R))
                          /\ \A x, y \in MenusByJsbh(R) :
                               x[2] = y[2] /\ menus[x[2]].pcdbh # Root => x = y
      BY DEF MyMenusAreRight
    <2>1. TypeOK /\ IsFiniteSet(DOMAIN menus)
      BY DEF TreeInv, Hang
    <2>2. Mine(R) = {x[2] : x \in MenusByJsbh(R)}
      BY DEF Mine
    <2> QED
      BY <2>1, <2>2, UserRows, ShownInTurn, MineInTurn
  <1> QED
    BY <1>1, InitTreeInv, NextTreeInv, PTL DEF Spec

-----------------------------------------------------------------------------
(* The menu page *)

PageRows == {"all"} \X DOMAIN menus

LEMMA PageRowsFit ==
  /\ \A d \in DOMAIN menus : <<"all", d>> \in PageRows /\ <<"all", d>>[2] = d
  /\ \A x \in PageRows : x = <<"all", x[2]>> /\ x[2] \in DOMAIN menus
  /\ {x[2] : x \in PageRows} = DOMAIN menus
  <1>1. \A d \in DOMAIN menus : <<"all", d>> \in PageRows /\ <<"all", d>>[2] = d
    BY DEF PageRows
  <1>2. \A x \in PageRows : x = <<"all", x[2]>> /\ x[2] \in DOMAIN menus
    BY DEF PageRows
  <1>3. {x[2] : x \in PageRows} \subseteq DOMAIN menus
    BY <1>2
  <1>4. \A d \in DOMAIN menus : \E x \in PageRows : d = x[2]
    BY <1>1
  <1> QED
    BY <1>1, <1>2, <1>3, <1>4

\* The nodes were put in in the order of the query.
Ordered(t) ==
    \A i, j \in DOMAIN t.nodes : i < j => ~Earlier(t.nodes[j].key, t.nodes[i].key)

\* The tree of the rows up to one of them, when the numbers go up.
PageTaken(t, s) ==
    /\ Stands(t, Pcdbh)
    /\ DOMAIN t.at = {x[2] : x \in s}
    /\ Ordered(t)

LEMMA AttachOrdered ==
  ASSUME NEW t, Stands(t, Pcdbh), Ordered(t), NEW c, NEW i,
         \A k \in DOMAIN t.at : ~Earlier(c, k)
  PROVE  Ordered(Attach(t, c, i))
  <1> DEFINE m == [key |-> c, over |-> i]
             s == Append(t.nodes, m)
  <1>1. PICK n \in Nat : DOMAIN t.nodes = 1..n /\ Len(t.nodes) = n
    BY DEF Stands
  <1>2. Attach(t, c, i).nodes = s
    BY DEF Attach
  <1>3. DOMAIN s = 1..(n + 1) /\ s[n + 1] = m /\ \A j \in 1..n : s[j] = t.nodes[j]
    BY <1>1
  <1>4. m.key = c
    OBVIOUS
  <1>5. \A j \in 1..n : t.nodes[j].key \in DOMAIN t.at
    BY <1>1 DEF Stands
  <1> HIDE DEF m, s
  <1>6. ASSUME NEW j \in 1..(n + 1), NEW k \in 1..(n + 1), j < k
        PROVE  ~Earlier(s[k].key, s[j].key)
    <2>1. j \in 1..n /\ s[j] = t.nodes[j]
      BY <1>3, <1>6
    <2>2. CASE k = n + 1
      BY <1>3, <1>4, <1>5, <2>1, <2>2
    <2>3. CASE k \in 1..n
      BY <1>1, <1>3, <1>6, <2>1, <2>3 DEF Ordered
    <2> QED
      BY <2>2, <2>3
  <1> QED
    BY <1>2, <1>3, <1>6 DEF Ordered

\* The next row is put in under a parent that is there.
LEMMA PageTakenStep ==
  ASSUME TypeOK, IsFiniteSet(DOMAIN menus), \A d \in DOMAIN menus : Climbs(Pcdbh, d),
         Ascending(DOMAIN menus), NEW s \in SUBSET PageRows,
         \A y \in s, z \in PageRows : Earlier(z[2], y[2]) => z \in s,
         NEW x \in s, \A y \in s : ~Earlier(x[2], y[2]),
         NEW t, PageTaken(t, s \ {x})
  PROVE  PageTaken(AddItem(t, Pcdbh, x[2]), s)
  <1> DEFINE c == x[2]
             p == Pcdbh[c]
             K == {y[2] : y \in s \ {x}}
             up == Pcdbh
  <1>0. /\ IsFiniteSet(DOMAIN up) /\ Root \notin DOMAIN up /\ DOMAIN up = DOMAIN menus
        /\ \A d \in DOMAIN menus : up[d] = menus[d].pcdbh
    BY PcdbhFits
  <1>1. /\ \A y \in PageRows : y = <<"all", y[2]>> /\ y[2] \in DOMAIN menus
        /\ \A d \in DOMAIN menus : <<"all", d>> \in PageRows /\ <<"all", d>>[2] = d
    BY PageRowsFit
  <1>2. c \in DOMAIN menus /\ c \notin K /\ {y[2] : y \in s} = K \cup {c}
    BY <1>1
  <1>3. Stands(t, up) /\ DOMAIN t.at = K /\ Ordered(t)
    BY DEF PageTaken
  <1>4. \A k \in K : ~Earlier(c, k)
    OBVIOUS
  <1>5. \A d \in Above(up, c) : d \in DOMAIN menus => Earlier(d, c)
    <2> SUFFICES ASSUME NEW d \in Above(up, c), d \in DOMAIN menus PROVE Earlier(d, c)
      OBVIOUS
    <2>1. CASE menus[d].pcdbh # Root
      BY <1>2, <2>1 DEF Ascending
    <2>2. CASE menus[d].pcdbh = Root
      <3>1. up[c] # Root
        <4> SUFFICES ASSUME up[c] = Root PROVE FALSE
          OBVIOUS
        <4>1. Line(up, c) = {c} \cup Line(up, Root) /\ Line(up, Root) = {Root}
          BY <1>0, <1>2, LineTurns
        <4> QED
          BY <4>1 DEF Above
      <3> QED
        BY <1>0, <1>2, <2>2, <3>1, EarlierIsAnOrder
    <2> QED
      BY <2>1, <2>2
  <1>6. p = Root \/ p \in K
    <2> SUFFICES ASSUME p # Root PROVE p \in K
      OBVIOUS
    <2>1. c \in Climbers(up)
      BY <1>0, <1>2 DEF Climbers
    <2>2. p \in Climbers(up) /\ p \in Line(up, c) /\ p # c
      <3>1. Line(up, c) = {c} \cup Line(up, p) /\ c \notin Line(up, p) /\ p \in Climbers(up)
        BY <1>0, <2>1, ClimbersClimb
      <3>2. p \in Line(up, p)
        BY <1>0, LineIsLeast
      <3> QED
        BY <3>1, <3>2
    <2>3. p \in DOMAIN menus /\ Earlier(p, c)
      BY <1>0, <1>5, <2>2 DEF Climbers, Above
    <2>4. <<"all", p>> \in s
      BY <1>1, <2>3
    <2>5. <<"all", p>> # x
      BY <2>2
    <2> QED
      BY <1>1, <2>3, <2>4, <2>5
  <1>7. AddItem(t, up, c) = Added(t, up, c, AddItem(t, up, p))
    <2>1. c \in Climbers(up)
      BY <1>0, <1>2 DEF Climbers
    <2> QED
      BY <1>0, <2>1, AddItemTurns
  <1> HIDE DEF c, K, up, p
  <1>8. PICK i : /\ AddItem(t, up, c) = Attach(t, c, i)
                 /\ IF i = 0 THEN up[c] = Root ELSE i \in DOMAIN t.nodes /\ up[c] = t.nodes[i].key
    <2>1. CASE p = Root
      BY <1>2, <1>3, <1>7, <2>1 DEF Added, AttachTop, p, up, c
    <2>2. CASE p # Root
      <3>1. p \in K
        BY <1>6, <2>2
      <3>2. t.at[p] \in DOMAIN t.nodes /\ t.nodes[t.at[p]].key = p /\ t.at[p] # 0
        BY <1>3, <3>1 DEF Stands
      <3>3. p = up[c]
        BY DEF p, up, c
      <3>4. AddItem(t, up, c) = Attach(t, c, t.at[p])
        BY <1>3, <1>7, <2>2, <3>1, <3>3 DEF Added
      <3> QED
        BY <3>2, <3>3, <3>4
    <2> QED
      BY <2>1, <2>2
  <1>9. Stands(Attach(t, c, i), up) /\ DOMAIN Attach(t, c, i).at = K \cup {c}
    BY <1>3, <1>8, AttachStands
  <1>10. Ordered(Attach(t, c, i))
    BY <1>3, <1>4, AttachOrdered DEF up
  <1>11. AddItem(t, Pcdbh, x[2]) = Attach(t, c, i)
    BY <1>8 DEF up, c
  <1> QED
    BY <1>2, <1>9, <1>10, <1>11 DEF PageTaken, up

LEMMA PageOrdered ==
  ASSUME TypeOK, IsFiniteSet(DOMAIN menus), \A d \in DOMAIN menus : Climbs(Pcdbh, d),
         Ascending(DOMAIN menus)
  PROVE  PageTaken(TreeOf(PageRows), PageRows)
  <1>1. IsFiniteSet(PageRows) /\ \A x \in PageRows : x[2] \in DOMAIN menus
    BY FS_Singleton, FS_Product DEF PageRows
  <1>2. ASSUME NEW s \in SUBSET PageRows, s # {}
        PROVE  LastRow(s) \in s /\ \A y \in s : ~Earlier(LastRow(s)[2], y[2])
    <2>1. Rows(s)
      BY <1>1, FS_Subset DEF Rows
    <2> QED
      BY <1>2, <2>1, LastRowIsLast
  <1>3. PICK g : TreeOf(PageRows) = g[PageRows] /\ Turns(g, PageRows)
    BY <1>1, <1>2, ConstructTurns
  <1> DEFINE Start(s) == \A y \in s, z \in PageRows : Earlier(z[2], y[2]) => z \in s
             Bad == {s \in SUBSET PageRows : Start(s) /\ ~PageTaken(g[s], s)}
             R == StrictSubsetOrdering(PageRows)
  <1>4. Bad = {}
    <2> SUFFICES ASSUME Bad # {} PROVE FALSE
      OBVIOUS
    <2>1. IsWellFoundedOn(R, SUBSET PageRows)
      BY <1>1, FS_StrictSubsetOrderingWellFounded, FS_FiniteSubsetsOfFinite
    <2>2. PICK s \in Bad : \A r \in Bad : <<r, s>> \notin R
      <3> HIDE DEF R
      <3>1. Bad \in SUBSET (SUBSET PageRows)
        OBVIOUS
      <3> HIDE DEF Bad
      <3> QED
        BY <2>1, <3>1, WFMin
    <2>3. s \in SUBSET PageRows /\ Start(s) /\ ~PageTaken(g[s], s)
      OBVIOUS
    <2>4. s # {}
      <3>1. PageTaken(NoTree, {})
        BY NoTreeStands DEF PageTaken, Ordered, NoTree
      <3> QED
        BY <1>3, <2>3, <3>1 DEF Turns
    <2>5. PICK x : x = LastRow(s)
      OBVIOUS
    <2>6. /\ x \in s /\ (\A y \in s : ~Earlier(x[2], y[2]))
          /\ g[s] = AddItem(g[s \ {x}], Pcdbh, x[2])
      BY <1>2, <1>3, <2>3, <2>4, <2>5 DEF Turns
    <2>7. s \ {x} \in SUBSET PageRows /\ <<s \ {x}, s>> \in R
      BY <2>3, <2>6 DEF StrictSubsetOrdering
    <2>8. Start(s \ {x})
      BY <2>3, <2>6
    <2>9. PageTaken(g[s \ {x}], s \ {x})
      <3> HIDE DEF R, Start
      <3> QED
        BY <2>2, <2>7, <2>8
    <2> QED
      BY <2>3, <2>6, <2>9, PageTakenStep
  <1>5. Start(PageRows) /\ PageRows \in SUBSET PageRows
    OBVIOUS
  <1> HIDE DEF Start
  <1> QED
    BY <1>3, <1>4, <1>5

\* What was put in in the order of the query is in order in every list.
LEMMA PageSorted ==
  ASSUME TypeOK, IsFiniteSet(DOMAIN menus), NEW t, PageTaken(t, PageRows)
  PROVE  Sorted(t, LAMBDA c, d : menus[c].cdxh < menus[d].cdxh)
  <1> SUFFICES ASSUME NEW i \in DOMAIN t.nodes, NEW j \in DOMAIN t.nodes, i < j,
                      t.nodes[i].over = t.nodes[j].over
               PROVE  ~(menus[t.nodes[j].key].cdxh < menus[t.nodes[i].key].cdxh)
    BY DEF Sorted
  <1>1. ~Earlier(t.nodes[j].key, t.nodes[i].key)
    BY DEF PageTaken, Ordered
  <1>2. \A k \in DOMAIN t.nodes :
          /\ t.nodes[k].key \in DOMAIN t.at
          /\ Pcdbh[t.nodes[k].key] = IF t.nodes[k].over = 0 THEN Root
                                     ELSE t.nodes[t.nodes[k].over].key
    BY DEF PageTaken, Stands
  <1>3. DOMAIN t.at = DOMAIN menus
    BY PageRowsFit DEF PageTaken
  <1>4. menus[t.nodes[i].key].pcdbh = menus[t.nodes[j].key].pcdbh
    <2>1. Pcdbh[t.nodes[i].key] = Pcdbh[t.nodes[j].key]
      BY <1>2
    <2> QED
      BY <1>2, <1>3, <2>1, PcdbhFits
  <1> QED
    BY <1>1, <1>4 DEF Earlier

\* Theorem.  queryAllMenus shows every menu once, in its place and in the order
\* of CDXH, exactly if the numbers go up along the branches, in any table whose
\* menus all hang on the root.
THEOREM MenuPageGrows == Spec => []MenuPageIsRight
  <1>1. TreeInv => MenuPageIsRight
    <2> SUFFICES ASSUME TreeInv, \A c \in DOMAIN menus : Climbs(Pcdbh, c)
                 PROVE  (/\ ShowsOnce(AllMenus, Pcdbh, DOMAIN menus)
                         /\ Sorted(AllMenus, LAMBDA c, d : menus[c].cdxh < menus[d].cdxh))
                        <=> Ascending(DOMAIN menus)
      BY DEF MenuPageIsRight
    <2>1. TypeOK /\ IsFiniteSet(DOMAIN menus)
      BY DEF TreeInv, Hang
    <2>2. AllMenus = TreeOf(PageRows) /\ {x[2] : x \in PageRows} = DOMAIN menus
      BY PageRowsFit DEF AllMenus, PageRows
    <2>3. ClimbingRows(PageRows)
      <3>1. IsFiniteSet(PageRows)
        BY <2>1, FS_Singleton, FS_Product DEF PageRows
      <3> QED
        BY <3>1 DEF ClimbingRows, Rows, PageRows
    <2>4. InTurn(PageRows) <=> Ascending(DOMAIN menus)
      <3>1. ASSUME InTurn(PageRows), NEW d \in DOMAIN menus, NEW p \in DOMAIN menus,
                   p \in Above(Pcdbh, d), menus[p].pcdbh # Root
            PROVE  Earlier(p, d)
        <4>1. /\ <<"all", p>> \in PageRows /\ <<"all", p>>[2] = p /\ p # d
              /\ <<"all", d>> \in PageRows /\ <<"all", d>>[2] = d
          BY <3>1, PageRowsFit DEF Above
        <4>2. <<"all", p>> # <<"all", d>>
          BY <4>1
        <4> QED
          BY <3>1, <4>1, <4>2 DEF InTurn
      <3>2. ASSUME Ascending(DOMAIN menus), NEW x \in PageRows, NEW y \in PageRows,
                   x # y, menus[x[2]].pcdbh # Root
            PROVE  x[2] # y[2] /\ (x[2] \in Above(Pcdbh, y[2]) => Earlier(x[2], y[2]))
        <4>1. /\ x = <<"all", x[2]>> /\ y = <<"all", y[2]>>
              /\ x[2] \in DOMAIN menus /\ y[2] \in DOMAIN menus
          BY PageRowsFit
        <4>2. x[2] # y[2]
          BY <3>2, <4>1
        <4> QED
          BY <3>2, <4>1, <4>2 DEF Ascending
      <3> QED
        BY <3>1, <3>2 DEF InTurn, Ascending
    <2>5. ShowsOnce(AllMenus, Pcdbh, DOMAIN menus) <=> Ascending(DOMAIN menus)
      BY <2>1, <2>2, <2>3, <2>4, ShownInTurn
    <2>6. Ascending(DOMAIN menus) =>
            Sorted(AllMenus, LAMBDA c, d : menus[c].cdxh < menus[d].cdxh)
      BY <2>1, <2>2, PageOrdered, PageSorted
    <2> QED
      BY <2>5, <2>6
  <1> QED
    BY <1>1, InitTreeInv, NextTreeInv, PTL DEF Spec
=============================================================================
