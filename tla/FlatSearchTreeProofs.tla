----------------------- MODULE FlatSearchTreeProofs -----------------------
(***************************************************************************)
(* The lists of a tree stay exact, an iterator over a growing tree         *)
(* delivers its list, and the whole implements AdjacencyGraph, for every   *)
(* payload set and every bound.                                            *)
(***************************************************************************)
EXTENDS MCFlatSearchTree, FlatTreeTheorems, SequenceTheorems

\* TypeOK is not inductive: addArc only stays in range when the tails it
\* follows do, which is a matter of the lists.
TreeInv == TypeOK /\ ListsExact

\* The tree its constructor makes satisfies the invariant.
LEMMA InitTreeInv == Init => TreeInv
<1> SUFFICES ASSUME Init PROVE TreeInv
  OBVIOUS
<1>1. PICK d \in Data : tree = NewTree(NoData, d)
  BY DEF Init
<1>2. /\ IsTree(tree, Data) /\ Linked(tree)
      /\ Len(tree.nodes) = 1 /\ tree.nodes[1].head_out = 0
  BY <1>1, DataAssumption, NewTreeLists DEF invalid
<1>3. cursor = [dir |-> "out", node |-> 1, id |-> 0, seen |-> <<>>]
  BY <1>2 DEF Init, BeginOut, beginOut, root_node
<1>4. cursor \in Cursor
  BY <1>3 DEF Cursor
<1> QED
  BY <1>2, <1>3, <1>4 DEF TreeInv, TypeOK, ListsExact, NodeIDs, invalid

\* An id read from a list of an exact tree is an arc of that list, or invalid.
LEMMA ListIds ==
  ASSUME NEW T, IsTree(T, Data), Linked(T)
  PROVE  /\ \A n \in NodeIDs(T) :
              /\ beginIn(T, n) \in ArcsInto(T, n, Len(T.arcs)) \union {invalid}
              /\ beginOut(T, n) \in ArcsFrom(T, n, Len(T.arcs)) \union {invalid}
         /\ \A a \in ArcIDs(T) :
              /\ nextIn(T, a) \in ArcsInto(T, T.arcs[a].target, Len(T.arcs)) \union {invalid}
              /\ nextOut(T, a) \in ArcsFrom(T, T.arcs[a].source, Len(T.arcs)) \union {invalid}
BY DEF Linked, OutLinked, InLinked, ListEnds, IsNext, ArcIDs, beginIn, beginOut, nextIn, nextOut

\* Every call of the client keeps the invariant of the tree.
LEMMA NextTreeInv == TreeInv /\ [Next]_vars => TreeInv'
<1> SUFFICES ASSUME TreeInv, [Next]_vars PROVE TreeInv'
  OBVIOUS
<1>1. /\ IsTree(tree, Data) /\ Linked(tree) /\ cursor \in Cursor
      /\ cursor.node \in NodeIDs(tree) /\ cursor.id \in ArcIDs(tree) \union {invalid}
  BY DEF TreeInv, TypeOK, ListsExact
<1>2. Len(tree.arcs) \in Nat /\ Len(tree.nodes) \in Nat
  BY <1>1, TreeFields DEF IsTree
<1>3. CASE AddNode
  <2>1. PICK d \in Data : tree' = addNode(tree, d)
    BY <1>3 DEF AddNode
  <2>2. /\ IsTree(tree', Data) /\ Linked(tree')
        /\ tree'.arcs = tree.arcs /\ Len(tree'.nodes) = Len(tree.nodes) + 1
    BY <1>1, <2>1, AddNodeKeepsLists
  <2>3. cursor' = cursor /\ NodeIDs(tree) \subseteq NodeIDs(tree') /\ ArcIDs(tree') = ArcIDs(tree)
    BY <1>2, <1>3, <2>2 DEF AddNode, NodeIDs, ArcIDs
  <2> QED
    BY <1>1, <2>2, <2>3 DEF TreeInv, TypeOK, ListsExact
<1>4. CASE AddArc
  <2>1. PICK s \in NodeIDs(tree), t \in NodeIDs(tree), d \in Data :
          tree' = addArc(tree, s, t, d)
    BY <1>4 DEF AddArc
  <2>2. /\ IsTree(tree', Data) /\ Linked(tree')
        /\ Len(tree'.arcs) = Len(tree.arcs) + 1 /\ Len(tree'.nodes) = Len(tree.nodes)
    BY <1>1, <2>1, AddArcKeepsLists
  <2>3. cursor' = cursor /\ NodeIDs(tree') = NodeIDs(tree) /\ ArcIDs(tree) \subseteq ArcIDs(tree')
    BY <1>2, <1>4, <2>2 DEF AddArc, NodeIDs, ArcIDs
  <2> QED
    BY <1>1, <2>2, <2>3 DEF TreeInv, TypeOK, ListsExact
<1>5. CASE Begin
  <2>1. PICK n \in NodeIDs(tree) : cursor' \in {BeginIn(tree, n), BeginOut(tree, n)}
    BY <1>5 DEF Begin
  <2>2. /\ beginIn(tree, n) \in ArcIDs(tree) \union {invalid}
        /\ beginOut(tree, n) \in ArcIDs(tree) \union {invalid}
    BY <1>1, ListIds DEF ArcsInto, ArcsFrom, ArcIDs
  <2>3. /\ n \in Nat
        /\ beginIn(tree, n) \in Nat /\ beginOut(tree, n) \in Nat
    BY <2>2 DEF NodeIDs, ArcIDs, invalid
  <2>4. /\ cursor' \in Cursor /\ cursor'.node = n
        /\ cursor'.id \in ArcIDs(tree) \union {invalid}
    <3>1. <<>> \in Seq(Nat)
      OBVIOUS
    <3>2. CASE cursor' = BeginIn(tree, n)
      BY <2>2, <2>3, <3>1, <3>2 DEF BeginIn, Cursor
    <3>3. CASE cursor' = BeginOut(tree, n)
      BY <2>2, <2>3, <3>1, <3>3 DEF BeginOut, Cursor
    <3> QED
      BY <2>1, <3>2, <3>3
  <2>5. tree' = tree
    BY <1>5 DEF Begin
  <2> QED
    BY <1>1, <2>4, <2>5 DEF TreeInv, TypeOK, ListsExact
<1>6. CASE Advance
  <2>1. tree' = tree /\ cursor.id \in ArcIDs(tree)
    BY <1>1, <1>6 DEF Advance, is_valid
  <2>2. PICK next : next = IF cursor.dir = "in" THEN nextIn(tree, cursor.id)
                                                ELSE nextOut(tree, cursor.id)
    OBVIOUS
  <2>3. next \in ArcIDs(tree) \union {invalid} /\ next \in Nat
    BY <1>1, <2>1, <2>2, ListIds DEF ArcsInto, ArcsFrom, ArcIDs, invalid
  <2>4. PICK seen \in Seq(Nat) : seen = Append(cursor.seen, cursor.id)
    <3>1. cursor.seen \in Seq(Nat) /\ cursor.id \in Nat
      BY <1>1 DEF Cursor
    <3>2. Append(cursor.seen, cursor.id) \in Seq(Nat)
      BY <3>1
    <3> QED
      BY <3>2
  <2>5. cursor' = [cursor EXCEPT !.id = next, !.seen = seen]
    BY <1>6, <2>2, <2>4 DEF Advance
  <2>6. cursor' \in Cursor /\ cursor'.node = cursor.node /\ cursor'.id = next
    BY <1>1, <2>3, <2>4, <2>5 DEF Cursor
  <2> QED
    BY <1>1, <2>1, <2>3, <2>6 DEF TreeInv, TypeOK, ListsExact
<1>7. CASE UNCHANGED vars
  BY <1>7 DEF vars, TreeInv, TypeOK, ListsExact
<1> QED
  BY <1>3, <1>4, <1>5, <1>6, <1>7 DEF Next

\* Every id the program stores is one of an existing element, whatever a
\* client adds and walks.
THEOREM TypeCorrect == Spec => []TypeOK
<1>1. TreeInv => TypeOK
  BY DEF TreeInv
<1> QED
  BY InitTreeInv, NextTreeInv, <1>1, PTL DEF Spec

\* Every threaded list is exactly the arcs of its node, in order and counted.
THEOREM ListsStayExact == Spec => []ListsExact
<1>1. TreeInv => ListsExact
  BY DEF TreeInv
<1> QED
  BY InitTreeInv, NextTreeInv, <1>1, PTL DEF Spec

\* link and the out-list of the source agree on the arcs between two nodes, for
\* trees of any size.
THEOREM LinkStaysExact == Spec => []LinkFindsOldest
<1>1. TreeInv => LinkFindsOldest
  BY LinkFinds DEF TreeInv, TypeOK, ListsExact, LinkFindsOldest
<1> QED
  BY InitTreeInv, NextTreeInv, <1>1, PTL DEF Spec

---------------------------------------------------------------------------
\* Every operation of Next leaves a tree that the one before has grown into.
THEOREM TreeOnlyGrows == Spec => OnlyGrows
<1>1. ASSUME TreeInv, [Next]_vars PROVE GrownFrom(tree', tree)
  <2>1. IsTree(tree, Data) /\ Linked(tree)
    BY <1>1 DEF TreeInv, TypeOK, ListsExact
  <2>2. CASE AddNode
    BY <2>1, <2>2, AddNodeKeepsLists DEF AddNode
  <2>3. CASE AddArc
    <3>1. PICK s \in NodeIDs(tree), t \in NodeIDs(tree), d \in Data :
            tree' = addArc(tree, s, t, d)
      BY <2>3 DEF AddArc
    <3> QED
      BY <2>1, <3>1, AddArcKeepsLists
  <2>4. CASE UNCHANGED tree
    BY <2>4 DEF GrownFrom
  <2> QED
    BY <1>1, <2>2, <2>3, <2>4 DEF Next, Begin, Advance, vars
<1>2. TreeInv /\ [Next]_vars => [GrownFrom(tree', tree)]_vars
  BY <1>1
<1> QED
  BY InitTreeInv, NextTreeInv, <1>2, PTL DEF Spec, OnlyGrows

---------------------------------------------------------------------------
\* What an exact list says of the iterator: its first id, and the one that
\* follows the id it stands on.
LEMMA CursorOnList ==
  ASSUME TreeInv
  PROVE  /\ CursorArcs \in SUBSET ArcIDs(tree)
         /\ cursor.id \in CursorArcs =>
              IsNext(CursorArcs, cursor.id,
                     IF cursor.dir = "in" THEN nextIn(tree, cursor.id)
                                          ELSE nextOut(tree, cursor.id))
         /\ \A n \in NodeIDs(tree) :
              LET In == ArcsInto(tree, n, Len(tree.arcs))
                  Out == ArcsFrom(tree, n, Len(tree.arcs))
              IN  /\ In # {} => beginIn(tree, n) \in In
                                /\ \A a \in In : beginIn(tree, n) <= a
                  /\ In = {} => beginIn(tree, n) = invalid
                  /\ Out # {} => beginOut(tree, n) \in Out
                                 /\ \A a \in Out : beginOut(tree, n) <= a
                  /\ Out = {} => beginOut(tree, n) = invalid
<1>1. /\ InLinked(tree, Len(tree.arcs)) /\ OutLinked(tree, Len(tree.arcs))
      /\ cursor.dir \in {"in", "out"}
  BY DEF TreeInv, TypeOK, ListsExact, Linked, Cursor
<1>2. CursorArcs \in SUBSET ArcIDs(tree)
  BY DEF CursorArcs, ArcsInto, ArcsFrom, ArcIDs
<1>3. ASSUME cursor.id \in CursorArcs
      PROVE  IsNext(CursorArcs, cursor.id,
                    IF cursor.dir = "in" THEN nextIn(tree, cursor.id)
                                         ELSE nextOut(tree, cursor.id))
  <2>1. CASE cursor.dir = "in"
    BY <1>1, <1>3, <2>1 DEF InLinked, CursorArcs, ArcsInto, nextIn
  <2>2. CASE cursor.dir # "in"
    BY <1>1, <1>3, <2>2 DEF OutLinked, CursorArcs, ArcsFrom, nextOut
  <2> QED
    BY <2>1, <2>2
<1> QED
  BY <1>1, <1>2, <1>3 DEF InLinked, OutLinked, ListEnds, beginIn, beginOut

CursorInv == TreeInv /\ CursorExact

\* The first iterator has delivered nothing and stands at the head.
LEMMA InitCursorInv == Init => CursorInv
<1> SUFFICES ASSUME Init PROVE CursorExact
  BY InitTreeInv DEF CursorInv
<1>1. cursor.seen = <<>>
  BY DEF Init, BeginOut
<1>2. Seen = {}
  BY <1>1 DEF Seen
<1>3. ~ is_valid(cursor)
  <2>1. PICK d \in Data : tree = NewTree(NoData, d)
    BY DEF Init
  <2>2. tree.nodes[1].head_out = invalid
    BY <2>1, DataAssumption, NewTreeLists
  <2> QED
    BY <2>2 DEF Init, BeginOut, beginOut, root_node, is_valid
<1> QED
  BY <1>1, <1>2, <1>3 DEF CursorExact

\* Growing the tree adds at most arc Len + 1 to the list the iterator walks.
LEMMA CursorArcsGrow ==
  ASSUME TreeInv, AddNode \/ AddArc
  PROVE  /\ CursorArcs' = CursorArcs \/ CursorArcs' = CursorArcs \union {Len(tree.arcs) + 1}
         /\ cursor' = cursor
<1>1. /\ IsTree(tree, Data) /\ Linked(tree) /\ Len(tree.arcs) \in Nat
  BY TreeFields DEF TreeInv, TypeOK, ListsExact, IsTree
<1>2. CASE AddNode
  <2>1. tree'.arcs = tree.arcs
    BY <1>1, <1>2, AddNodeKeepsLists DEF AddNode
  <2> QED
    BY <1>2, <2>1 DEF AddNode, CursorArcs, ArcsInto, ArcsFrom
<1>3. CASE AddArc
  <2>1. PICK s \in NodeIDs(tree), t \in NodeIDs(tree), d \in Data :
          tree' = addArc(tree, s, t, d)
    BY <1>3 DEF AddArc
  <2>2. /\ Len(tree'.arcs) = Len(tree.arcs) + 1
        /\ GrownFrom(tree', tree)
    BY <1>1, <2>1, AddArcKeepsLists
  <2>3. \A a \in 1 .. Len(tree.arcs) : /\ tree'.arcs[a].source = tree.arcs[a].source
                                       /\ tree'.arcs[a].target = tree.arcs[a].target
    BY <2>2 DEF GrownFrom, ArcIDs
  <2>4. 1 .. Len(tree'.arcs) = (1 .. Len(tree.arcs)) \union {Len(tree.arcs) + 1}
    BY <1>1, <2>2
  <2>5. cursor' = cursor
    BY <1>3 DEF AddArc
  <2>6. \A n : /\ \/ ArcsFrom(tree', n, Len(tree'.arcs)) = ArcsFrom(tree, n, Len(tree.arcs))
                  \/ ArcsFrom(tree', n, Len(tree'.arcs))
                       = ArcsFrom(tree, n, Len(tree.arcs)) \union {Len(tree.arcs) + 1}
               /\ \/ ArcsInto(tree', n, Len(tree'.arcs)) = ArcsInto(tree, n, Len(tree.arcs))
                  \/ ArcsInto(tree', n, Len(tree'.arcs))
                       = ArcsInto(tree, n, Len(tree.arcs)) \union {Len(tree.arcs) + 1}
    BY <2>3, <2>4 DEF ArcsFrom, ArcsInto
  <2> QED
    BY <2>5, <2>6 DEF CursorArcs
<1> QED
  BY <1>2, <1>3

\* The step of an iterator: what it delivers and where it goes.
LEMMA AdvanceDelivers ==
  ASSUME CursorInv, Advance
  PROVE  CursorExact' /\ (~ is_valid(cursor') => CursorArcs \subseteq Seen')
<1> DEFINE S == CursorArcs
           id == cursor.id
           next == IF cursor.dir = "in" THEN nextIn(tree, id) ELSE nextOut(tree, id)
<1>1. /\ TreeInv /\ tree' = tree /\ is_valid(cursor)
      /\ cursor \in Cursor
  BY DEF CursorInv, TreeInv, TypeOK, Advance
<1>2. /\ id \in S /\ Seen = {a \in S : a < id}
      /\ \A i, j \in 1 .. Len(cursor.seen) : i < j => cursor.seen[i] < cursor.seen[j]
  BY <1>1 DEF CursorInv, CursorExact
<1>3. S \in SUBSET Nat /\ IsNext(S, id, next)
  BY <1>1, <1>2, CursorOnList DEF ArcIDs
<1>4. PICK longer : longer = Append(cursor.seen, id)
  OBVIOUS
<1>5. /\ cursor'.id = next /\ cursor'.seen = longer
      /\ cursor'.dir = cursor.dir /\ cursor'.node = cursor.node
  <2>1. cursor' = [cursor EXCEPT !.id = next, !.seen = longer]
    BY <1>4 DEF Advance
  <2> QED
    BY <1>1, <2>1 DEF Cursor
<1>6. CursorArcs' = S
  BY <1>1, <1>5 DEF CursorArcs
<1>7. /\ Seen' = Seen \union {id}
      /\ \A i, j \in 1 .. Len(longer) : i < j => longer[i] < longer[j]
  <2>1. cursor.seen \in Seq(Nat) /\ id \in Nat
    BY <1>1 DEF Cursor
  <2>2. \A i \in 1 .. Len(cursor.seen) : cursor.seen[i] < id
    BY <1>2 DEF Seen
  <2>3. {longer[i] : i \in 1 .. Len(longer)} = Seen \union {id}
    BY <1>4, <2>1, AppendSeen DEF Seen
  <2>4. Seen' = {longer[i] : i \in 1 .. Len(longer)}
    BY <1>5 DEF Seen
  <2> QED
    BY <1>2, <1>4, <2>1, <2>2, <2>3, <2>4, AppendSeen
<1>8. next \in Nat
  <2>1. id \in ArcIDs(tree)
    BY <1>1, <1>2, CursorOnList
  <2> QED
    BY <1>1, <2>1, ListIds DEF TreeInv, TypeOK, ListsExact, ArcsInto, ArcsFrom, invalid
<1> HIDE DEF S, next, id
<1>9. CASE next = invalid
  <2>1. Seen' = S
    BY <1>2, <1>3, <1>7, <1>9, PrefixEnd
  <2>2. ~ is_valid(cursor')
    BY <1>5, <1>9 DEF is_valid
  <2> QED
    BY <1>5, <1>6, <1>7, <2>1, <2>2 DEF CursorExact, S
<1>10. CASE next # invalid
  <2>1. next \in S
    BY <1>3, <1>10 DEF IsNext
  <2>2. Seen' = {a \in S : a < next}
    BY <1>2, <1>3, <1>7, <1>8, <1>10, PrefixStep
  <2>3. is_valid(cursor')
    BY <1>5, <1>10 DEF is_valid
  <2> QED
    BY <1>5, <1>6, <1>7, <2>1, <2>2, <2>3 DEF CursorExact
<1> QED
  BY <1>9, <1>10

\* Every call of the client keeps the invariant of the iterator.
LEMMA NextCursorInv == CursorInv /\ [Next]_vars => CursorInv'
<1> SUFFICES ASSUME CursorInv, [Next]_vars PROVE CursorExact'
  BY NextTreeInv DEF CursorInv
<1>1. TreeInv /\ CursorExact
  BY DEF CursorInv
<1>2. CursorArcs \in SUBSET ArcIDs(tree) /\ Len(tree.arcs) \in Nat
  BY <1>1, CursorOnList, TreeFields DEF TreeInv, TypeOK, IsTree
<1>3. CASE AddNode \/ AddArc
  <2>1. /\ CursorArcs' = CursorArcs \/ CursorArcs' = CursorArcs \union {Len(tree.arcs) + 1}
        /\ cursor' = cursor
    BY <1>1, <1>3, CursorArcsGrow
  <2>2. Seen' = Seen /\ (is_valid(cursor') <=> is_valid(cursor))
    BY <2>1 DEF Seen, is_valid
  <2>3. CASE is_valid(cursor)
    <3>1. cursor.id \in CursorArcs /\ Seen = {a \in CursorArcs : a < cursor.id}
      BY <1>1, <2>3 DEF CursorExact
    <3>2. Seen = {a \in CursorArcs' : a < cursor.id} /\ cursor.id \in CursorArcs'
      <4>1. CursorArcs \in SUBSET (1 .. Len(tree.arcs))
        BY <1>2 DEF ArcIDs
      <4>2. {a \in CursorArcs : a < cursor.id} = {a \in CursorArcs' : a < cursor.id}
        BY <1>2, <2>1, <3>1, <4>1, PrefixGrow
      <4> QED
        BY <2>1, <3>1, <4>2
    <3> QED
      BY <1>1, <2>1, <2>2, <2>3, <3>1, <3>2 DEF CursorExact
  <2>4. CASE ~ is_valid(cursor)
    <3>1. Seen \subseteq CursorArcs /\ \A a \in CursorArcs \ Seen : \A b \in Seen : b < a
      BY <1>1, <2>4 DEF CursorExact
    <3>2. \A a \in CursorArcs' \ Seen : \A b \in Seen : b < a
      <4>1. CursorArcs \in SUBSET (1 .. Len(tree.arcs))
        BY <1>2 DEF ArcIDs
      <4> QED
        BY <1>2, <2>1, <3>1, <4>1, SuffixGrow
    <3> QED
      BY <1>1, <2>1, <2>2, <2>4, <3>1, <3>2 DEF CursorExact
  <2> QED
    BY <2>3, <2>4
<1>4. CASE Begin
  <2>1. tree' = tree
    BY <1>4 DEF Begin
  <2>2. PICK n \in NodeIDs(tree) : cursor' \in {BeginIn(tree, n), BeginOut(tree, n)}
    BY <1>4 DEF Begin
  <2>3. cursor'.seen = <<>> /\ Seen' = {}
    BY <2>2 DEF BeginIn, BeginOut, Seen
  <2>4. ASSUME is_valid(cursor')
        PROVE  cursor'.id \in CursorArcs' /\ {} = {a \in CursorArcs' : a < cursor'.id}
    <3>1. /\ CursorArcs' \in SUBSET Nat
          /\ cursor'.id \in CursorArcs' /\ \A a \in CursorArcs' : cursor'.id <= a
      <4>1. CASE cursor' = BeginIn(tree, n)
        <5>1. CursorArcs' = ArcsInto(tree, n, Len(tree.arcs)) /\ cursor'.id = beginIn(tree, n)
          BY <2>1, <4>1 DEF CursorArcs, BeginIn
        <5> QED
          BY <1>1, <2>4, <5>1, CursorOnList DEF is_valid, ArcsInto
      <4>2. CASE cursor' = BeginOut(tree, n)
        <5>1. CursorArcs' = ArcsFrom(tree, n, Len(tree.arcs)) /\ cursor'.id = beginOut(tree, n)
          BY <2>1, <4>2 DEF CursorArcs, BeginOut
        <5> QED
          BY <1>1, <2>4, <5>1, CursorOnList DEF is_valid, ArcsFrom
      <4> QED
        BY <2>2, <4>1, <4>2
    <3>2. ASSUME NEW a \in CursorArcs' PROVE ~ (a < cursor'.id)
      <4>1. a \in Nat /\ cursor'.id \in Nat /\ cursor'.id <= a
        BY <3>1
      <4> QED
        BY <4>1
    <3> QED
      BY <3>1, <3>2
  <2> QED
    BY <2>3, <2>4 DEF CursorExact
<1>5. CASE Advance
  BY <1>5, AdvanceDelivers
<1>6. CASE UNCHANGED vars
  BY <1>1, <1>6 DEF vars, CursorExact, Seen, CursorArcs, is_valid
<1> QED
  BY <1>3, <1>4, <1>5, <1>6 DEF Next

\* However the client interleaves growth with it, an iterator has delivered
\* its list up to the arc it stands on, each arc once and in order.
THEOREM CursorStaysExact == Spec => []CursorExact
<1>1. CursorInv => CursorExact
  BY DEF CursorInv
<1> QED
  BY InitCursorInv, NextCursorInv, <1>1, PTL DEF Spec

\* The step that ends an iteration has delivered every arc of the list.
THEOREM IterationsComplete == Spec => IterationComplete
<1>1. ASSUME CursorInv, [Next]_vars,
             is_valid(cursor), ~ is_valid(cursor'), cursor'.seen # <<>>
      PROVE  CursorArcs \subseteq Seen'
  <2>1. CASE Advance
    BY <1>1, <2>1, AdvanceDelivers
  <2>2. CASE Begin
    BY <1>1, <2>2 DEF Begin, BeginIn, BeginOut
  <2>3. CASE UNCHANGED cursor
    BY <1>1, <2>3 DEF is_valid
  <2> QED
    BY <1>1, <2>1, <2>2, <2>3 DEF Next, AddNode, AddArc, vars
<1>2. CursorInv /\ [Next]_vars =>
        [is_valid(cursor) /\ ~ is_valid(cursor') /\ cursor'.seen # <<>>
           => CursorArcs \subseteq Seen']_vars
  BY <1>1
<1> QED
  BY InitCursorInv, NextCursorInv, <1>2, PTL DEF Spec, IterationComplete

---------------------------------------------------------------------------
(***************************************************************************)
(* The refinement: the threaded lists are the sequences of the graph, and  *)
(* each operation of the tree is the operation of the graph.               *)
(***************************************************************************)
\* The abstract sequences of a tree.
Ends(T) == [a \in ArcIDs(T) |-> <<T.arcs[a].source, T.arcs[a].target>>]
Ins(T)  == [n \in NodeIDs(T) |-> inArcs(T, n)]
Outs(T) == [n \in NodeIDs(T) |-> outArcs(T, n)]

\* An iterator over a tree as a position.
Position(c) ==
  [dir |-> c.dir, node |-> c.node, pos |-> Len(c.seen), live |-> is_valid(c)]

\* A sequence written as a function, with an element appended.
LEMMA AppendedFunction ==
  ASSUME NEW S, NEW m \in Nat \ {0}, NEW f \in [1 .. m - 1 -> S], NEW x \in S,
         NEW g \in [1 .. m -> S], g[m] = x, \A n \in 1 .. m - 1 : g[n] = f[n]
  PROVE  g = Append(f, x)
<1>1. f \in Seq(S) /\ Len(f) = m - 1
  OBVIOUS
<1>2. /\ Append(f, x) \in Seq(S) /\ Len(Append(f, x)) = m
      /\ \A n \in 1 .. m : Append(f, x)[n] = IF n = m THEN x ELSE f[n]
  BY <1>1
<1>3. g \in Seq(S) /\ Len(g) = m
  OBVIOUS
<1>4. \A n \in 1 .. m : g[n] = Append(f, x)[n]
  <2>1. \A n \in 1 .. m : n = m \/ n \in 1 .. m - 1
    OBVIOUS
  <2> QED
    BY <1>2, <2>1
<1> QED
  BY <1>2, <1>3, <1>4, SeqEqual

\* What a walk delivers is a sequence of ids.
LEMMA WalksAreSequences ==
  ASSUME NEW T, IsTree(T, Data), Linked(T), NEW n \in NodeIDs(T)
  PROVE  inArcs(T, n) \in Seq(Nat) /\ outArcs(T, n) \in Seq(Nat)
<1>1. /\ Lists(inArcs(T, n), ArcsInto(T, n, Len(T.arcs)))
      /\ Lists(outArcs(T, n), ArcsFrom(T, n, Len(T.arcs)))
  BY IteratorsDeliverLists
<1> QED
  BY <1>1 DEF Lists

\* The sequences of a new tree.
LEMMA NewTreeMaps ==
  ASSUME NEW d \in Data, NEW T, T = NewTree(NoData, d)
  PROVE  Ends(T) = << <<0, 1>> >> /\ Ins(T) = << <<1>> >> /\ Outs(T) = << <<>> >>
<1>1. /\ IsTree(T, Data) /\ Linked(T) /\ Len(T.arcs) = 1 /\ Len(T.nodes) = 1
  BY DataAssumption, NewTreeLists
<1>2. 1 \in NodeIDs(T) /\ NodeIDs(T) = {1} /\ ArcIDs(T) = {1}
  BY <1>1 DEF NodeIDs, ArcIDs
<1>3. T.arcs[1].source = 0 /\ T.arcs[1].target = 1
  BY <1>1 DEF IsTree, EndsExist, root_arc, root_node, invalid
<1>4. ArcsInto(T, 1, Len(T.arcs)) = {1} /\ ArcsFrom(T, 1, Len(T.arcs)) = {}
  BY <1>1, <1>3 DEF ArcsInto, ArcsFrom
<1>5. Lists(<<1>>, {1}) /\ Lists(<<>>, {})
  BY DEF Lists
<1>6. inArcs(T, 1) = <<1>> /\ outArcs(T, 1) = <<>>
  <2>1. /\ Lists(<<1>>, ArcsInto(T, 1, Len(T.arcs)))
        /\ Lists(<<>>, ArcsFrom(T, 1, Len(T.arcs)))
    BY <1>4, <1>5
  <2> QED
    BY <1>1, <1>2, <2>1, WalkOf
<1>7. Ends(T) = << <<0, 1>> >>
  BY <1>2, <1>3 DEF Ends
<1>8. Ins(T) = << <<1>> >>
  BY <1>2, <1>6 DEF Ins
<1>9. Outs(T) = << <<>> >>
  BY <1>2, <1>6 DEF Outs
<1> QED
  BY <1>7, <1>8, <1>9

\* addNode adds an empty sequence of either kind.
LEMMA AddNodeMaps ==
  ASSUME NEW T, IsTree(T, Data), Linked(T), NEW d \in Data, NEW U, U = addNode(T, d)
  PROVE  /\ Ends(U) = Ends(T)
         /\ Ins(U) = Append(Ins(T), <<>>)
         /\ Outs(U) = Append(Outs(T), <<>>)
<1>1. /\ IsTree(U, Data) /\ Linked(U) /\ U.arcs = T.arcs
      /\ Len(U.nodes) = Len(T.nodes) + 1
  BY AddNodeKeepsLists
<1>2. Len(T.nodes) \in Nat /\ Len(T.arcs) \in Nat
  BY TreeFields DEF IsTree
<1>3. PICK m : m = Len(T.nodes) + 1
  OBVIOUS
<1>4. /\ NodeIDs(T) = 1 .. m - 1 /\ m \in Nat \ {0} /\ m \in NodeIDs(U)
      /\ NodeIDs(U) = NodeIDs(T) \union {m}
      /\ \A n \in NodeIDs(T) : inArcs(U, n) = inArcs(T, n) /\ outArcs(U, n) = outArcs(T, n)
      /\ inArcs(U, m) = <<>> /\ outArcs(U, m) = <<>>
  BY <1>3, AddNodeWalks
<1>9. Ends(U) = Ends(T)
  BY <1>1 DEF Ends, ArcIDs
<1>10. Ins(U) = Append(Ins(T), <<>>)
  <2>1. PICK S : S = Seq(Nat)
    OBVIOUS
  <2>2. Ins(T) \in [1 .. m - 1 -> S] /\ <<>> \in S
    BY <1>4, <2>1, WalksAreSequences DEF Ins
  <2>3. Ins(U) \in [1 .. m -> S]
    BY <1>1, <1>3, <2>1, WalksAreSequences DEF Ins, NodeIDs
  <2>4. Ins(U)[m] = <<>> /\ \A n \in 1 .. m - 1 : Ins(U)[n] = Ins(T)[n]
    BY <1>4 DEF Ins
  <2> QED
    BY <1>4, <2>2, <2>3, <2>4, AppendedFunction
<1>11. Outs(U) = Append(Outs(T), <<>>)
  <2>1. PICK S : S = Seq(Nat)
    OBVIOUS
  <2>2. Outs(T) \in [1 .. m - 1 -> S] /\ <<>> \in S
    BY <1>4, <2>1, WalksAreSequences DEF Outs
  <2>3. Outs(U) \in [1 .. m -> S]
    BY <1>1, <1>3, <2>1, WalksAreSequences DEF Outs, NodeIDs
  <2>4. Outs(U)[m] = <<>> /\ \A n \in 1 .. m - 1 : Outs(U)[n] = Outs(T)[n]
    BY <1>4 DEF Outs
  <2> QED
    BY <1>4, <2>2, <2>3, <2>4, AppendedFunction
<1> QED
  BY <1>9, <1>10, <1>11

\* addArc appends the arc to the sequence of its source and to that of its target.
LEMMA AddArcMaps ==
  ASSUME NEW T, IsTree(T, Data), Linked(T), NEW s \in NodeIDs(T), NEW t \in NodeIDs(T),
         NEW d \in Data, NEW U, U = addArc(T, s, t, d), NEW id, id = Len(T.arcs) + 1
  PROVE  /\ Ends(U) = Append(Ends(T), <<s, t>>) /\ Len(Ends(U)) = id
         /\ Ins(U) = [Ins(T) EXCEPT ![t] = Append(Ins(T)[t], id)]
         /\ Outs(U) = [Outs(T) EXCEPT ![s] = Append(Outs(T)[s], id)]
<1>1. /\ IsTree(U, Data) /\ Linked(U) /\ GrownFrom(U, T)
      /\ Len(U.arcs) = id /\ Len(U.nodes) = Len(T.nodes)
      /\ U.arcs[id].source = s /\ U.arcs[id].target = t
  BY AddArcKeepsLists
<1>2. Len(T.nodes) \in Nat /\ Len(T.arcs) \in Nat
  BY TreeFields DEF IsTree
<1>3. /\ ArcIDs(U) = 1 .. id /\ ArcIDs(T) = 1 .. id - 1 /\ id \in Nat \ {0}
      /\ NodeIDs(U) = NodeIDs(T) /\ s \in Nat /\ t \in Nat
  BY <1>1, <1>2 DEF NodeIDs, ArcIDs
<1>4. \A a \in 1 .. id - 1 : /\ U.arcs[a].source = T.arcs[a].source
                             /\ U.arcs[a].target = T.arcs[a].target
  BY <1>1, <1>3 DEF GrownFrom
<1>5. Ends(U) = Append(Ends(T), <<s, t>>)
  <2>1. PICK S : S = Nat \X Nat
    OBVIOUS
  <2>2. /\ \A a \in 1 .. id - 1 : T.arcs[a].source \in Nat /\ T.arcs[a].target \in Nat
        /\ \A a \in 1 .. id : U.arcs[a].source \in Nat /\ U.arcs[a].target \in Nat
    BY <1>1, <1>3, TreeFields DEF IsTree
  <2>3. Ends(T) \in [1 .. id - 1 -> S] /\ <<s, t>> \in S
    BY <1>3, <2>1, <2>2 DEF Ends
  <2>4. Ends(U) \in [1 .. id -> S]
    BY <1>3, <2>1, <2>2 DEF Ends
  <2>5. Ends(U)[id] = <<s, t>> /\ \A a \in 1 .. id - 1 : Ends(U)[a] = Ends(T)[a]
    <3>1. id \in 1 .. id /\ \A a \in 1 .. id - 1 : a \in 1 .. id
      BY <1>3
    <3> QED
      BY <1>1, <1>3, <1>4, <3>1 DEF Ends
  <2> QED
    BY <1>3, <2>3, <2>4, <2>5, AppendedFunction
<1>6. Len(Ends(U)) = id
  BY <1>3 DEF Ends
<1>7. /\ \A n \in NodeIDs(T) :
           /\ inArcs(U, n) = IF n = t THEN Append(inArcs(T, n), id) ELSE inArcs(T, n)
           /\ outArcs(U, n) = IF n = s THEN Append(outArcs(T, n), id) ELSE outArcs(T, n)
  BY AddArcWalks
<1>11. Ins(U) = [Ins(T) EXCEPT ![t] = Append(Ins(T)[t], id)]
  BY <1>3, <1>7 DEF Ins
<1>12. Outs(U) = [Outs(T) EXCEPT ![s] = Append(Outs(T)[s], id)]
  BY <1>3, <1>7 DEF Outs
<1> QED
  BY <1>5, <1>6, <1>11, <1>12

\* The first tree is the first graph.
LEMMA InitRefines == Init => Graph!Init
<1> SUFFICES ASSUME Init PROVE Graph!Init
  OBVIOUS
<1>1. PICK d \in Data : tree = NewTree(NoData, d)
  BY DEF Init
<1>2. Ends(tree) = << <<0, 1>> >> /\ Ins(tree) = << <<1>> >> /\ Outs(tree) = << <<>> >>
  BY <1>1, NewTreeMaps
<1>3. tree.nodes[1].head_out = invalid
  BY <1>1, DataAssumption, NewTreeLists
<1>4. cursor = [dir |-> "out", node |-> 1, id |-> invalid, seen |-> <<>>]
  BY <1>3 DEF Init, BeginOut, beginOut, root_node
<1>5. Position(cursor) = [dir |-> "out", node |-> 1, pos |-> 0, live |-> FALSE]
  BY <1>4 DEF Position, is_valid
<1> QED
  BY <1>2, <1>5 DEF Graph!Init, Ends, Ins, Outs, Position

\* The positions, and one that is one further.
Positions == [dir : {"in", "out"}, node : Nat, pos : Nat, live : BOOLEAN]

\* The step of the graph's iterator, field by field.
LEMMA MoveOn ==
  ASSUME NEW it \in Positions, NEW n \in Nat, NEW next \in Positions,
         next.dir = it.dir, next.node = it.node, next.pos = it.pos + 1,
         next.live = (it.pos + 1 < n)
  PROVE  next = [it EXCEPT !.pos = it.pos + 1, !.live = it.pos + 1 < n]
<1>1. PICK p \in Nat, l \in BOOLEAN : p = it.pos + 1 /\ l = (p < n)
  BY DEF Positions
<1>2. PICK r : r = [it EXCEPT !.pos = p, !.live = l]
  OBVIOUS
<1>3. r \in Positions /\ r.dir = it.dir /\ r.node = it.node /\ r.pos = p /\ r.live = l
  BY <1>2 DEF Positions
<1>4. next = r
  BY <1>1, <1>3 DEF Positions
<1> QED
  BY <1>1, <1>2, <1>4

\* What operator++ does to the position: one further, and off the list when
\* that was its end.
LEMMA AdvanceRefines ==
  ASSUME CursorInv, Advance,
         NEW w, w = IF cursor.dir = "in" THEN inArcs(tree, cursor.node)
                                         ELSE outArcs(tree, cursor.node)
  PROVE  /\ tree' = tree /\ Position(cursor).live /\ Len(w) \in Nat
         /\ Position(cursor) \in Positions /\ Position(cursor') \in Positions
         /\ Position(cursor').dir = Position(cursor).dir
         /\ Position(cursor').node = Position(cursor).node
         /\ Position(cursor').pos = Position(cursor).pos + 1
         /\ Position(cursor').live = (Position(cursor).pos + 1 < Len(w))
<1>1. /\ IsTree(tree, Data) /\ Linked(tree) /\ cursor \in Cursor
      /\ cursor.node \in NodeIDs(tree) /\ CursorExact
      /\ tree' = tree /\ is_valid(cursor)
  BY DEF CursorInv, TreeInv, TypeOK, ListsExact, Advance
<1>2. PICK S, next :
        /\ S = CursorArcs
        /\ next = IF cursor.dir = "in" THEN nextIn(tree, cursor.id)
                                       ELSE nextOut(tree, cursor.id)
  OBVIOUS
<1>3. cursor.id \in S /\ S \in SUBSET Nat /\ Lists(w, S) /\ IsNext(S, cursor.id, next)
  <2>1. cursor.id \in S
    BY <1>1, <1>2 DEF CursorExact
  <2>2. CASE cursor.dir = "in"
    <3>1. S = ArcsInto(tree, cursor.node, Len(tree.arcs)) /\ next = nextIn(tree, cursor.id)
      BY <1>2, <2>2 DEF CursorArcs
    <3>2. Lists(w, S) /\ S \in SUBSET Nat
      BY <1>1, <1>2, <2>2, <3>1, IteratorsDeliverLists, WalkOf
    <3>3. cursor.id \in 1 .. Len(tree.arcs) /\ tree.arcs[cursor.id].target = cursor.node
      BY <2>1, <3>1 DEF ArcsInto
    <3> QED
      BY <1>1, <2>1, <3>1, <3>2, <3>3 DEF Linked, InLinked, nextIn
  <2>3. CASE cursor.dir # "in"
    <3>1. S = ArcsFrom(tree, cursor.node, Len(tree.arcs)) /\ next = nextOut(tree, cursor.id)
      BY <1>2, <2>3 DEF CursorArcs
    <3>2. Lists(w, S) /\ S \in SUBSET Nat
      BY <1>1, <1>2, <2>3, <3>1, IteratorsDeliverLists, WalkOf
    <3>3. cursor.id \in 1 .. Len(tree.arcs) /\ tree.arcs[cursor.id].source = cursor.node
      BY <2>1, <3>1 DEF ArcsFrom
    <3> QED
      BY <1>1, <2>1, <3>1, <3>2, <3>3 DEF Linked, OutLinked, nextOut
  <2> QED
    BY <2>2, <2>3
<1>4. PICK id, seen : id = cursor.id /\ seen = cursor.seen
  OBVIOUS
<1>5. Lists(seen, {a \in S : a < id})
  BY <1>1, <1>2, <1>4 DEF CursorExact, Cursor, Lists, Seen
<1>6. /\ Len(seen) \in Nat /\ Len(w) \in Nat /\ Len(seen) < Len(w)
      /\ (\A a \in S : a <= id) <=> Len(seen) + 1 = Len(w)
  <2>1. S \in SUBSET Nat /\ Lists(w, S) /\ id \in S
    BY <1>3, <1>4
  <2> QED
    BY ONLY <2>1, <1>5, ListsPosition
<1>7. next = invalid <=> \A a \in S : a <= id
  <2>1. ASSUME next # invalid PROVE \E a \in S : ~ (a <= id)
    <3>1. next \in S /\ id < next /\ next \in Nat /\ id \in Nat
      BY <1>3, <1>4, <2>1 DEF IsNext
    <3> QED
      BY <3>1
  <2> QED
    BY <1>3, <1>4, <2>1 DEF IsNext
<1>8. next # invalid <=> Len(seen) + 1 < Len(w)
  BY <1>6, <1>7
<1>9. PICK longer : longer = Append(seen, id)
  OBVIOUS
<1>10. Len(longer) = Len(seen) + 1
  <2>1. seen \in Seq(Nat)
    BY <1>1, <1>4 DEF Cursor
  <2> QED
    BY <1>9, <2>1
<1>11. cursor' = [cursor EXCEPT !.id = next, !.seen = longer]
  BY <1>2, <1>4, <1>9 DEF Advance
<1>12. /\ cursor'.dir = cursor.dir /\ cursor'.node = cursor.node
       /\ cursor'.id = next /\ cursor'.seen = longer
  BY <1>1, <1>11 DEF Cursor
<1>13. Position(cursor) \in Positions /\ Position(cursor') \in Positions
  <2>1. /\ cursor.dir \in {"in", "out"} /\ cursor.node \in Nat
        /\ is_valid(cursor) \in BOOLEAN /\ is_valid(cursor') \in BOOLEAN
    BY <1>1 DEF Cursor, is_valid
  <2> QED
    BY <1>4, <1>6, <1>10, <1>12, <2>1 DEF Position, Positions
<1>14. /\ Position(cursor).live /\ Position(cursor).pos = Len(seen)
       /\ Position(cursor').dir = Position(cursor).dir
       /\ Position(cursor').node = Position(cursor).node
       /\ Position(cursor').pos = Len(seen) + 1
  BY <1>1, <1>4, <1>10, <1>12 DEF Position
<1>15. Position(cursor').live = (Len(seen) + 1 < Len(w))
  BY <1>8, <1>12 DEF Position, is_valid
<1> QED
  BY <1>1, <1>6, <1>13, <1>14, <1>15

\* Every step of the tree is a step of the graph, or none.
LEMMA NextRefines == CursorInv /\ [Next]_vars => [Graph!Next]_Graph!vars
<1> SUFFICES ASSUME CursorInv, [Next]_vars PROVE [Graph!Next]_Graph!vars
  OBVIOUS
<1>1. /\ IsTree(tree, Data) /\ Linked(tree) /\ cursor \in Cursor
      /\ cursor.node \in NodeIDs(tree) /\ CursorExact
  BY DEF CursorInv, TreeInv, TypeOK, ListsExact
<1>2. DOMAIN Outs(tree) = NodeIDs(tree)
  BY DEF Outs
<1>3. CASE AddNode
  <2>1. PICK d \in Data : tree' = addNode(tree, d)
    BY <1>3 DEF AddNode
  <2>2. /\ Ends(tree') = Ends(tree) /\ Ins(tree') = Append(Ins(tree), <<>>)
        /\ Outs(tree') = Append(Outs(tree), <<>>) /\ cursor' = cursor
    BY <1>1, <1>3, <2>1, AddNodeMaps DEF AddNode
  <2>3. Graph!NewNode
    BY <2>2 DEF Graph!NewNode, Ends, Ins, Outs
  <2> QED
    BY <2>3 DEF Graph!Next
<1>4. CASE AddArc
  <2>1. PICK s \in NodeIDs(tree), t \in NodeIDs(tree), d \in Data :
          tree' = addArc(tree, s, t, d)
    BY <1>4 DEF AddArc
  <2>2. PICK id : id = Len(tree.arcs) + 1
    OBVIOUS
  <2>3. /\ Ends(tree') = Append(Ends(tree), <<s, t>>) /\ Len(Ends(tree')) = id
        /\ Ins(tree') = [Ins(tree) EXCEPT ![t] = Append(Ins(tree)[t], Len(Ends(tree')))]
        /\ Outs(tree') = [Outs(tree) EXCEPT ![s] = Append(Outs(tree)[s], Len(Ends(tree')))]
        /\ cursor' = cursor
    BY <1>1, <1>4, <2>1, <2>2, AddArcMaps, SMTT(30) DEF AddArc
  <2>4. s \in DOMAIN Outs(tree) /\ t \in DOMAIN Outs(tree)
    BY <1>2
  <2>5. Graph!NewArc
    BY <2>3, <2>4, ZenonT(60) DEF Graph!NewArc, Graph!Nodes, Ends, Ins, Outs
  <2> QED
    BY <2>5 DEF Graph!Next
<1>5. CASE Begin
  <2>1. PICK n \in NodeIDs(tree) : cursor' \in {BeginIn(tree, n), BeginOut(tree, n)}
    BY <1>5 DEF Begin
  <2>2. /\ inArcs(tree, n) # <<>> <=> beginIn(tree, n) # invalid
        /\ outArcs(tree, n) # <<>> <=> beginOut(tree, n) # invalid
        /\ Ins(tree)[n] = inArcs(tree, n) /\ Outs(tree)[n] = outArcs(tree, n)
        /\ tree' = tree
    BY <1>1, <1>5, WalkOf DEF Begin, Ins, Outs
  <2>3. CASE cursor' = BeginIn(tree, n)
    <3>1. Position(cursor') = Graph!At("in", n)
      BY <2>2, <2>3 DEF BeginIn, Position, is_valid, Graph!At, Graph!List, Ins
    <3> QED
      BY <1>2, <2>2, <3>1 DEF Graph!Next, Graph!NewIterator, Graph!Nodes, Position, Outs
  <2>4. CASE cursor' = BeginOut(tree, n)
    <3>1. Position(cursor') = Graph!At("out", n)
      BY <2>2, <2>4 DEF BeginOut, Position, is_valid, Graph!At, Graph!List, Outs
    <3> QED
      BY <1>2, <2>2, <3>1 DEF Graph!Next, Graph!NewIterator, Graph!Nodes, Position, Outs
  <2> QED
    BY <2>1, <2>3, <2>4
<1>6. CASE UNCHANGED vars
  BY <1>6 DEF vars, Graph!vars
<1>7. CASE Advance
  <2>1. PICK w : w = IF cursor.dir = "in" THEN inArcs(tree, cursor.node)
                                          ELSE outArcs(tree, cursor.node)
    OBVIOUS
  <2>2. Graph!List(cursor.dir, cursor.node) = w
    BY <1>1, <2>1 DEF Graph!List
  <2>3. /\ tree' = tree /\ Position(cursor).live
        /\ Position(cursor).dir = cursor.dir /\ Position(cursor).node = cursor.node
    BY <1>7, <2>1, AdvanceRefines DEF Position
  <2>4. Position(cursor') = [Position(cursor) EXCEPT
                               !.pos = Position(cursor).pos + 1,
                               !.live = Position(cursor).pos + 1 < Len(w)]
    <3>1. PICK it, next, n : it = Position(cursor) /\ next = Position(cursor') /\ n = Len(w)
      OBVIOUS
    <3>2. /\ it \in Positions /\ next \in Positions /\ n \in Nat
          /\ next.dir = it.dir /\ next.node = it.node /\ next.pos = it.pos + 1
          /\ next.live = (it.pos + 1 < n)
      BY <1>7, <2>1, <3>1, AdvanceRefines
    <3>3. next = [it EXCEPT !.pos = it.pos + 1, !.live = it.pos + 1 < n]
      BY ONLY <3>2, MoveOn
    <3> QED
      BY <3>1, <3>3
  <2>5. Graph!Deliver
    <3>1. w = Graph!List(Position(cursor).dir, Position(cursor).node)
      BY <2>2, <2>3
    <3> QED
      BY <2>3, <2>4, <3>1 DEF Graph!Deliver, Position
  <2> QED
    BY <2>5 DEF Graph!Next
<1> QED
  BY <1>3, <1>4, <1>5, <1>6, <1>7 DEF Next

\* Walking the threaded lists is iterating over the sequences of the graph,
\* whatever the interleaving of growth and iteration, for trees of any size.
THEOREM Implements == Spec => ImplementsGraph
<1> QED
  BY InitCursorInv, NextCursorInv, InitRefines, NextRefines, PTL
  DEF Spec, ImplementsGraph, Graph!Spec

===========================================================================
