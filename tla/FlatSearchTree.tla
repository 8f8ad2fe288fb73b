-------------------------- MODULE FlatSearchTree --------------------------
(***************************************************************************)
(* A fst::SearchTree that its client grows in any order while it walks a   *)
(* list of it with an in_iterator or an out_iterator.  These two iterators *)
(* hold a reference to the tree and an ArcID, never a pointer into a       *)
(* vector, so growing the tree under them is legal; what they then deliver *)
(* is what this module is about.                                           *)
(***************************************************************************)
EXTENDS FlatTree

CONSTANTS Data,       \* payloads of arcs and nodes
          NoData,     \* a default-constructed payload
          MaxNodes,   \* bounds of the model, 2^31 in the code (Int)
          MaxArcs

ASSUME DataAssumption == NoData \in Data

VARIABLES tree,       \* the SearchTree
          cursor      \* the live iterator, and the arcs it has delivered

vars == <<tree, cursor>>

\* in_iterator (dir = "in") or out_iterator (dir = "out") over a list of node:
\* id is m_id, seen what operator* has delivered so far.
Cursor == [dir : {"in", "out"}, node : Nat, id : Nat, seen : Seq(Nat)]

BeginIn(T, n)  == [dir |-> "in", node |-> n, id |-> beginIn(T, n), seen |-> <<>>]
BeginOut(T, n) == [dir |-> "out", node |-> n, id |-> beginOut(T, n), seen |-> <<>>]

is_valid(c) == c.id # invalid

Init ==
  /\ \E d \in Data : tree = NewTree(NoData, d)
  /\ cursor = BeginOut(tree, root_node)

AddNode ==
  /\ Len(tree.nodes) < MaxNodes
  /\ \E d \in Data : tree' = addNode(tree, d)
  /\ UNCHANGED cursor

AddArc ==
  /\ Len(tree.arcs) < MaxArcs
  /\ \E s, t \in NodeIDs(tree), d \in Data : tree' = addArc(tree, s, t, d)
  /\ UNCHANGED cursor

Begin ==
  /\ \E n \in NodeIDs(tree) : cursor' \in {BeginIn(tree, n), BeginOut(tree, n)}
  /\ UNCHANGED tree

\* [Mutant: operator++ of the in_iterator follows next_out.]
Advance_out ==
  /\ is_valid(cursor)
  /\ cursor' = [cursor EXCEPT !.id = nextOut(tree, @),
                              !.seen = Append(@, cursor.id)]
  /\ UNCHANGED tree

\* operator* and operator++.
Advance ==
  /\ is_valid(cursor)
  /\ cursor' = [cursor EXCEPT
                  !.id = IF cursor.dir = "in" THEN nextIn(tree, @)
                                              ELSE nextOut(tree, @),
                  !.seen = Append(@, cursor.id)]
  /\ UNCHANGED tree

Next == AddNode \/ AddArc \/ Begin \/ Advance

Spec == Init /\ [][Next]_vars

---------------------------------------------------------------------------
\* Every id stored in the tree and in the iterator is one of an existing
\* element, apart from the invalid source of the root arc.
TypeOK ==
  /\ IsTree(tree, Data)
  /\ cursor \in Cursor
  /\ cursor.node \in NodeIDs(tree)
  /\ cursor.id \in ArcIDs(tree) \union {invalid}

\* addArc threads each arc into two lists at once, through four fields of two
\* nodes (the same one for a self-loop) and of up to two older arcs (the same
\* one for parallel arcs).  Whatever the order of the calls, each in-list and
\* each out-list is exactly the arcs of its node, in id order, and its size is
\* their number.
ListsExact == Linked(tree)

\* The arcs of the list the iterator walks.
CursorArcs ==
  IF cursor.dir = "in" THEN ArcsInto(tree, cursor.node, Len(tree.arcs))
                       ELSE ArcsFrom(tree, cursor.node, Len(tree.arcs))

\* What the iterator has delivered.
Seen == {cursor.seen[i] : i \in 1 .. Len(cursor.seen)}

\* An iterator over a tree that grows has delivered, each once and in id
\* order, exactly the arcs of its list older than the one it stands on; when
\* it has run off the list, the arcs it has delivered are the oldest ones.
CursorExact ==
  /\ \A i, j \in 1 .. Len(cursor.seen) : i < j => cursor.seen[i] < cursor.seen[j]
  /\ Seen \subseteq CursorArcs
  /\ IF is_valid(cursor)
     THEN /\ cursor.id \in CursorArcs
          /\ Seen = {a \in CursorArcs : a < cursor.id}
     ELSE \A a \in CursorArcs \ Seen : \A b \in Seen : b < a

\* The step that takes the iterator off its list completes it: the arcs added
\* since the iterator was created have been delivered too.
IterationComplete ==
  [][ is_valid(cursor) /\ ~ is_valid(cursor') /\ cursor'.seen # <<>>
        => CursorArcs \subseteq Seen' ]_vars

\* link ( source, target ) searches the in-list of the target, a client that
\* plays a move walks the out-list of the source.  The two agree: link finds
\* an arc exactly when the out-list of the source has one to the target, and it
\* is the oldest of them.
LinkFindsOldest ==
  \A s, t \in NodeIDs(tree) :
    LET both == {a \in ArcIDs(tree) : /\ tree.arcs[a].source = s
                                      /\ tree.arcs[a].target = t}
        found == link(tree, s, t)
    IN  IF both = {} THEN found = invalid
                     ELSE found \in both /\ \A a \in both : found <= a

\* "This tree can only grow" (README.md:4): no operation moves an arc or
\* unlinks a successor once it is set, so an id or a position of an iterator
\* that a client kept stays good.
OnlyGrows == [][GrownFrom(tree', tree)]_vars

===========================================================================
