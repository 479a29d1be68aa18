-------------------------------- MODULE Tree --------------------------------
(***************************************************************************)
(* How MenuTools and DeptTools make a tree out of rows that name their     *)
(* parent: the rows are taken in the order of the query, and a parent that *)
(* was not met yet is loaded and put in first.                             *)
(*                                                                         *)
(* up maps the rows of the table to their parents.  A tree is the sequence *)
(* of its nodes in the order they were put into the list of their parent   *)
(* (over: the index of the parent node, 0 for the list of top nodes), and  *)
(* the map from keys to nodes both tools keep.                             *)
(***************************************************************************)
EXTENDS Naturals, Sequences, FiniteSets, Folds

CONSTANT Root       \* ROOT_KEY

\* c and what is above it, as far as the table goes.
Line(up, c) ==
    LET line[met \in SUBSET (DOMAIN up \cup {up[d] : d \in DOMAIN up} \cup {c})] ==
            LET more == met \cup {up[d] : d \in met \cap DOMAIN up}
            IN  IF more = met THEN met ELSE line[more]
    IN  line[{c}]

\* Neither a missing parent (objectToMap throws) nor a cycle (StackOverflowError).
Climbs(up, c) == Root \in Line(up, c)
Climbers(up) == {c \in DOMAIN up : Climbs(up, c)}

Above(up, c) == Line(up, c) \ {c, Root}
Below(up, p) == {c \in DOMAIN up : p \in Line(up, c)}

-----------------------------------------------------------------------------
NoTree == [nodes |-> <<>>, at |-> <<>>]

Attach(t, c, i) ==
    [nodes |-> Append(t.nodes, [key |-> c, over |-> i]),
     at |-> [d \in DOMAIN t.at \cup {c} |-> IF d = c THEN Len(t.nodes) + 1 ELSE t.at[d]]]

\* mutant: a top node that was loaded for a child is put in again
MutAttachTop(t, c) == Attach(t, c, 0)
AttachTop(t, c) == IF c \in DOMAIN t.at THEN t ELSE Attach(t, c, 0)

\* addMenus, addTreeItems, for a row that climbs
AddItem(t, up, c) ==
    LET add[d \in Climbers(up)] ==
            IF up[d] = Root THEN AttachTop(t, d)
            ELSE LET s == IF up[d] \in DOMAIN t.at THEN t ELSE add[up[d]]
                 IN  Attach(s, d, s.at[up[d]])
    IN  add[c]

\* constructMenuTree of the given rows; Last picks the last of some rows, Key
\* is the key of a row.
Construct(up, rows, Last(_), Key(_)) ==
    MapThenFoldSet(LAMBDA c, t : AddItem(t, up, c), NoTree, Key, Last, rows)

-----------------------------------------------------------------------------
(* What the tree should be. *)

Keys(t) == {t.nodes[i].key : i \in DOMAIN t.nodes}

\* Every one of the keys, and what is above it, is shown once, under its parent.
ShowsOnce(t, up, keys) ==
    /\ Keys(t) = (UNION {Line(up, c) : c \in keys}) \ {Root}
    /\ Len(t.nodes) = Cardinality(Keys(t))
    /\ \A i \in DOMAIN t.nodes :
         LET n == t.nodes[i]
         IN  up[n.key] = IF n.over = 0 THEN Root ELSE t.nodes[n.over].key

\* The nodes of every list are in the given order.
Sorted(t, Before(_, _)) ==
    \A i, j \in DOMAIN t.nodes : i < j /\ t.nodes[i].over = t.nodes[j].over =>
        ~Before(t.nodes[j].key, t.nodes[i].key)
=============================================================================
