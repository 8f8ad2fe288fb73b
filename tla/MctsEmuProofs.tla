--------------------------- MODULE MctsEmuProofs ---------------------------
(***************************************************************************)
(* The driver keeps every move, for any number of moves and iterations:    *)
(* each move of a node is untried or on one arc, and the nodes form a tree.*)
(* And a list of moves, by itself, is a bag.                               *)
(***************************************************************************)
EXTENDS MctsEmu, MovesList, FlatTreeTheorems

\* Both kinds of payload: the moves of a node and the move of an arc.
Payload == MovesValue \union Move \union {NoMove}

Untried(m) == {m.m_moves[i] : i \in Used(m)}

\* A list of moves without repetition.
OnceEach(m) ==
  /\ m \in MovesValue
  /\ \A i, j \in Used(m) : m.m_moves[i] = m.m_moves[j] => i = j

\* The arcs of T from n that carry the move v.
Carry(T, n, v) == {a \in ArcIDs(T) : T.arcs[a].source = n /\ T.arcs[a].data = v}

\* Each move of node n is untried, or on one arc.
MovesKept(T, n) ==
  /\ OnceEach(T.nodes[n].data)
  /\ \A v \in Move :
       /\ v \in Untried(T.nodes[n].data) <=> Carry(T, n, v) = {}
       /\ \A a, b \in Carry(T, n, v) : a = b

KeepsMoves(T) ==
  /\ IsTree(T, Payload) /\ Linked(T)
  /\ \A n \in NodeIDs(T) : MovesKept(T, n)

\* Each node but the root is entered by one arc, from an older node.
OneOlderParent(T) ==
  \A n \in NodeIDs(T) \ {root_node} :
    \E a \in ArcIDs(T) : ArcsInto(T, n, Len(T.arcs)) = {a} /\ T.arcs[a].source < n

EmuInv ==
  /\ KeepsMoves(tree) /\ node \in NodeIDs(tree)
  /\ OneOlderParent(tree)

---------------------------------------------------------------------------
(***************************************************************************)
(* The list of moves.                                                      *)
(***************************************************************************)
LEMMA SlotsAre ==
  /\ Capacity \in Nat /\ IsFiniteSet(Slots) /\ Cardinality(Slots) = Capacity
  /\ \A m \in MovesValue : /\ m.m_size \in 0 .. Capacity /\ m.m_size \in Nat
                           /\ m.m_moves \in [Slots -> Move]
                           /\ Used(m) \subseteq Slots
<1>1. Capacity \in Nat
  BY MoveAssumption, FS_CardinalityType DEF Capacity
<1>2. IsFiniteSet(Slots) /\ Cardinality(Slots) = Capacity
  <2>1. 0 \in Int /\ Capacity - 1 \in Int
    BY <1>1
  <2>2. PICK b : b = Capacity - 1
    OBVIOUS
  <2>3. IsFiniteSet(0 .. b) /\ Cardinality(0 .. b) = IF 0 > b THEN 0 ELSE b - 0 + 1
    BY <2>1, <2>2, FS_Interval
  <2> QED
    BY <1>1, <2>2, <2>3 DEF Slots
<1>3. ASSUME NEW m \in MovesValue
      PROVE  /\ m.m_size \in 0 .. Capacity /\ m.m_size \in Nat
             /\ m.m_moves \in [Slots -> Move] /\ Used(m) \subseteq Slots
  BY <1>1 DEF MovesValue, Used, Slots
<1> QED
  BY <1>1, <1>2, <1>3

\* getMoves makes a list of every move, once: as many slots as moves, so that a
\* shuffled array without repetition has them all.
LEMMA GetMovesAll ==
  ASSUME NEW d \in getMoves
  PROVE  OnceEach(d) /\ Untried(d) = Move
<1>1. PICK f \in [Slots -> Move] :
        /\ d = [m_size |-> Capacity, m_moves |-> f]
        /\ \A i, j \in Slots : f[i] = f[j] => i = j
  BY DEF getMoves
<1>2. d \in MovesValue /\ Used(d) = Slots /\ d.m_moves = f
  BY <1>1, SlotsAre DEF MovesValue, Used, Slots
<1>3. f \in Surjection(Slots, Move)
  <2>1. f \in Injection(Slots, Move)
    BY <1>1 DEF Injection, IsInjective
  <2> QED
    BY <2>1, FS_Injection, MoveAssumption, SlotsAre DEF Capacity
<1>4. \A v \in Move : \E i \in Slots : f[i] = v
  BY <1>3 DEF Surjection
<1> QED
  BY <1>1, <1>2, <1>4 DEF OnceEach, Untried

\* take takes the move at its index out of the list, and no other.
LEMMA TakeOne ==
  ASSUME NEW m, OnceEach(m), m.m_size # 0, NEW i \in Used(m),
         NEW v, v = m.m_moves[i], NEW u, u = take(m, i)
  PROVE  OnceEach(u) /\ Untried(u) = Untried(m) \ {v} /\ v \in Move
<1>1. PICK k, f : k = m.m_size /\ f = m.m_moves
  OBVIOUS
<1>2. /\ k \in 1 .. Capacity /\ Capacity \in Nat /\ f \in [Slots -> Move]
      /\ Used(m) = 0 .. k - 1 /\ i \in 0 .. k - 1 /\ Slots = 0 .. Capacity - 1
  BY <1>1, SlotsAre DEF OnceEach, Used, Slots
<1>3. PICK g : g = [f EXCEPT ![i] = f[k - 1]]
  OBVIOUS
<1>4. /\ u.m_size = k - 1 /\ u.m_moves = g /\ u \in MovesValue /\ Used(u) = 0 .. k - 2
  BY <1>1, <1>2, <1>3 DEF take, MovesValue, Used
<1>5. \A j \in 0 .. k - 2 : g[j] = IF j = i THEN f[k - 1] ELSE f[j]
  BY <1>2, <1>3
<1>6. \A a, b \in 0 .. k - 1 : f[a] = f[b] => a = b
  BY <1>1, <1>2 DEF OnceEach
<1>7. OnceEach(u)
  BY <1>2, <1>4, <1>5, <1>6 DEF OnceEach
<1>8. v = f[i] /\ v \in Move
  BY <1>1, <1>2
<1>9. ASSUME NEW w PROVE w \in Untried(u) <=> w \in Untried(m) \ {v}
  <2>1. w \in Untried(u) <=> \E j \in 0 .. k - 2 : w = g[j]
    BY <1>4 DEF Untried
  <2>2. w \in Untried(m) <=> \E j \in 0 .. k - 1 : w = f[j]
    BY <1>1, <1>2 DEF Untried
  <2>3. ASSUME NEW j \in 0 .. k - 2, w = g[j] PROVE w \in Untried(m) /\ w # v
    <3>1. PICK h \in 0 .. k - 1 : w = f[h] /\ h # i
      BY <1>2, <1>5, <2>3
    <3> QED
      BY <1>6, <1>8, <1>2, <2>2, <3>1
  <2>4. ASSUME NEW j \in 0 .. k - 1, w = f[j], w # v PROVE w \in Untried(u)
    <3>1. CASE j = k - 1
      BY <1>2, <1>5, <1>8, <2>1, <2>4, <3>1
    <3>2. CASE j \in 0 .. k - 2
      BY <1>5, <1>8, <2>1, <2>4, <3>2
    <3> QED
      BY <1>2, <3>1, <3>2
  <2> QED
    BY <2>1, <2>2, <2>3, <2>4
<1> QED
  BY <1>7, <1>8, <1>9

---------------------------------------------------------------------------
(***************************************************************************)
(* The tree.                                                               *)
(***************************************************************************)
LEMMA NodesAreIDs ==
  ASSUME NEW T, IsTree(T, Payload)
  PROVE  /\ Len(T.nodes) \in Nat /\ Len(T.arcs) \in Nat
         /\ root_node \in NodeIDs(T) /\ NodeIDs(T) \subseteq Nat /\ ArcIDs(T) \subseteq Nat
         /\ \A a \in ArcIDs(T) : /\ T.arcs[a].target \in NodeIDs(T)
                                 /\ T.arcs[a].source \in NodeIDs(T) \union {invalid}
<1>1. T \in TreeValue(Payload) /\ EndsExist(T)
  BY DEF IsTree
<1> QED
  BY <1>1, TreeFields DEF EndsExist, NodeIDs, ArcIDs, root_arc, root_node

\* The node an expansion adds has all its moves, and no arc.
LEMMA AddNodeKeepsMoves ==
  ASSUME NEW T, KeepsMoves(T), NEW d \in getMoves, NEW U, U = addNode(T, d)
  PROVE  /\ KeepsMoves(U) /\ NodeIDs(U) = NodeIDs(T) \union {Len(T.nodes) + 1}
         /\ U.arcs = T.arcs /\ \A n \in NodeIDs(T) : U.nodes[n] = T.nodes[n]
         /\ Len(T.nodes) + 1 \notin NodeIDs(T) /\ Len(U.nodes) = Len(T.nodes) + 1
<1>1. IsTree(T, Payload) /\ Linked(T) /\ d \in Payload /\ OnceEach(d) /\ Untried(d) = Move
  BY GetMovesAll DEF KeepsMoves, Payload, OnceEach
<1>2. /\ IsTree(U, Payload) /\ Linked(U)
      /\ U.arcs = T.arcs /\ Len(U.nodes) = Len(T.nodes) + 1
      /\ U.nodes[Len(T.nodes) + 1] = NewNode(d)
      /\ \A n \in NodeIDs(T) : U.nodes[n] = T.nodes[n]
  BY <1>1, AddNodeKeepsLists
<1>3. PICK k \in Nat : k = Len(T.nodes)
  BY <1>1, NodesAreIDs
<1>4. NodeIDs(U) = NodeIDs(T) \union {k + 1} /\ k + 1 \notin NodeIDs(T)
  BY <1>2, <1>3 DEF NodeIDs
<1>5. ASSUME NEW n, NEW v PROVE Carry(U, n, v) = Carry(T, n, v)
  BY <1>2 DEF Carry, ArcIDs
<1>6. ASSUME NEW n \in NodeIDs(T) PROVE MovesKept(U, n)
  <2>1. MovesKept(T, n) /\ U.nodes[n] = T.nodes[n]
    BY <1>2 DEF KeepsMoves
  <2> QED
    BY <1>5, <2>1 DEF MovesKept
<1>7. MovesKept(U, k + 1)
  <2>1. U.nodes[k + 1].data = d
    BY <1>2, <1>3 DEF NewNode
  <2>2. ASSUME NEW v PROVE Carry(T, k + 1, v) = {}
    BY <1>1, <1>3, <1>4, NodesAreIDs DEF Carry, invalid
  <2> QED
    BY <1>1, <1>5, <2>1, <2>2 DEF MovesKept
<1> QED
  BY <1>2, <1>3, <1>4, <1>6, <1>7 DEF KeepsMoves

\* U has the arcs of T and one more, from n to t.
OneMoreArc(U, T, n, t) ==
  /\ NodeIDs(U) = NodeIDs(T) /\ Len(U.arcs) = Len(T.arcs) + 1
  /\ U.arcs[Len(T.arcs) + 1].source = n /\ U.arcs[Len(T.arcs) + 1].target = t
  /\ \A a \in ArcIDs(T) : /\ U.arcs[a].source = T.arcs[a].source
                          /\ U.arcs[a].target = T.arcs[a].target

\* Taking a move and putting it on a new arc, to any node.
LEMMA PlayKeepsMoves ==
  ASSUME NEW T, KeepsMoves(T), NEW n \in NodeIDs(T), hasMoves(T, n),
         NEW i \in Draws(T.nodes[n].data), NEW t \in NodeIDs(T),
         NEW v, v = T.nodes[n].data.m_moves[i],
         NEW U, U = addArc(taken(T, n, i), n, t, v)
  PROVE  KeepsMoves(U) /\ OneMoreArc(U, T, n, t)
<1>1. PICK m, u, S : m = T.nodes[n].data /\ u = take(m, i) /\ S = taken(T, n, i)
  OBVIOUS
<1>2. OnceEach(m) /\ m.m_size # 0 /\ i \in Used(m) /\ v = m.m_moves[i]
  BY <1>1 DEF KeepsMoves, MovesKept, hasMoves, Draws
<1>3. OnceEach(u) /\ Untried(u) = Untried(m) \ {v} /\ v \in Move
  BY <1>1, <1>2, TakeOne
<1>4. IsTree(T, Payload) /\ Linked(T) /\ u \in Payload /\ v \in Payload
  BY <1>3 DEF KeepsMoves, Payload, OnceEach
<1>5. S = withNodeData(T, n, u)
  <2>1. withNodeData(T, n, u) = withNodeData(T, n, take(T.nodes[n].data, i))
    BY <1>1
  <2>2. taken(T, n, i) = withNodeData(T, n, take(T.nodes[n].data, i))
    BY DEF taken, withNodeData
  <2> QED
    BY <1>1, <2>1, <2>2
<1>6. /\ IsTree(S, Payload) /\ SameGraph(S, T) /\ S.arcs = T.arcs
      /\ \A k \in NodeIDs(T) : S.nodes[k].data = IF k = n THEN u ELSE T.nodes[k].data
  BY <1>4, <1>5, NodeDataWrites
<1>7. Linked(S) /\ NodeIDs(S) = NodeIDs(T) /\ ArcIDs(S) = ArcIDs(T)
  BY <1>4, <1>6, SameGraphLinked
<1>8. U = addArc(S, n, t, v) /\ n \in NodeIDs(S) /\ t \in NodeIDs(S) /\ v \in Payload
  BY <1>1, <1>4, <1>7
<1>9. /\ IsTree(U, Payload) /\ Linked(U) /\ GrownFrom(U, S)
      /\ Len(U.arcs) = Len(S.arcs) + 1 /\ Len(U.nodes) = Len(S.nodes)
      /\ U.arcs[Len(S.arcs) + 1].source = n /\ U.arcs[Len(S.arcs) + 1].target = t
      /\ U.arcs[Len(S.arcs) + 1].data = v
      /\ \A a \in ArcIDs(S) : U.arcs[a].data = S.arcs[a].data
      /\ \A k \in NodeIDs(S) : U.nodes[k].data = S.nodes[k].data
  <2>1. IsTree(S, Payload) /\ Linked(S)
    BY <1>6, <1>7
  <2> QED
    BY ONLY <1>8, <2>1, AddArcKeepsLists
<1>10. PICK id \in Nat : id = Len(T.arcs) + 1
  BY <1>4, NodesAreIDs
<1>11. /\ ArcIDs(U) = ArcIDs(T) \union {id} /\ id \notin ArcIDs(T)
       /\ NodeIDs(U) = NodeIDs(T)
       /\ U.arcs[id].source = n /\ U.arcs[id].target = t /\ U.arcs[id].data = v
  <2>1. Len(T.arcs) \in Nat /\ Len(S.arcs) = Len(T.arcs)
    BY <1>4, <1>6, NodesAreIDs
  <2>2. Len(U.arcs) = id /\ Len(U.nodes) = Len(S.nodes) /\ id = Len(T.arcs) + 1
    BY <1>9, <1>10, <2>1
  <2>3. ArcIDs(U) = ArcIDs(T) \union {id} /\ id \notin ArcIDs(T)
    BY <2>1, <2>2 DEF ArcIDs
  <2>4. NodeIDs(U) = NodeIDs(T)
    BY <1>7, <2>2 DEF NodeIDs
  <2> QED
    BY <1>9, <2>1, <2>2, <2>3, <2>4
<1>12. \A a \in ArcIDs(T) : /\ U.arcs[a].source = T.arcs[a].source
                            /\ U.arcs[a].target = T.arcs[a].target
                            /\ U.arcs[a].data = T.arcs[a].data
  <2>1. ASSUME NEW a \in ArcIDs(S)
        PROVE  U.arcs[a].source = S.arcs[a].source /\ U.arcs[a].target = S.arcs[a].target
    BY <1>9 DEF GrownFrom
  <2>2. ASSUME NEW a \in ArcIDs(S) PROVE U.arcs[a].data = S.arcs[a].data
    BY <1>9
  <2>3. S.arcs = T.arcs /\ ArcIDs(S) = ArcIDs(T)
    BY <1>6, <1>7 DEF ArcIDs
  <2> QED
    BY <2>1, <2>2, <2>3
<1>13. ASSUME NEW k \in NodeIDs(T), NEW w
       PROVE  Carry(U, k, w) = Carry(T, k, w) \union (IF k = n /\ w = v THEN {id} ELSE {})
  BY <1>11, <1>12 DEF Carry
<1>14. ASSUME NEW k \in NodeIDs(T) PROVE MovesKept(U, k)
  <2>1. MovesKept(T, k) /\ U.nodes[k].data = IF k = n THEN u ELSE T.nodes[k].data
    BY <1>6, <1>7, <1>9 DEF KeepsMoves
  <2>2. CASE k # n
    <3>1. ASSUME NEW w PROVE Carry(U, k, w) = Carry(T, k, w)
      <4>1. Carry(U, k, w) = Carry(T, k, w) \union {}
        BY <1>13, <2>2
      <4> QED
        BY <4>1
    <3> QED
      BY <2>1, <2>2, <3>1 DEF MovesKept
  <2>3. CASE k = n
    <3>1. U.nodes[n].data = u /\ MovesKept(T, n)
      BY <2>1, <2>3
    <3>2. v \in Untried(m)
      BY <1>2 DEF Untried
    <3>3. Carry(T, n, v) = {} /\ Carry(U, n, v) = {id}
      BY <1>1, <1>3, <1>13, <3>1, <3>2 DEF MovesKept
    <3>4. ASSUME NEW w \in Move, w # v PROVE Carry(U, n, w) = Carry(T, n, w)
      <4>1. Carry(U, n, w) = Carry(T, n, w) \union {}
        BY <1>13, <3>4
      <4> QED
        BY <4>1
    <3>5. ASSUME NEW w \in Move
          PROVE  /\ w \in Untried(u) <=> Carry(U, n, w) = {}
                 /\ \A a, b \in Carry(U, n, w) : a = b
      <4>1. CASE w = v
        BY <1>3, <3>3, <4>1
      <4>2. CASE w # v
        BY <1>1, <1>3, <3>1, <3>4, <4>2 DEF MovesKept
      <4> QED
        BY <4>1, <4>2
    <3> QED
      BY <1>3, <2>3, <3>1, <3>5 DEF MovesKept
  <2> QED
    BY <2>2, <2>3
<1>15. Len(U.arcs) = Len(T.arcs) + 1
  BY <1>6, <1>9 DEF SameGraph
<1> QED
  BY <1>9, <1>10, <1>11, <1>12, <1>14, <1>15 DEF KeepsMoves, OneMoreArc

---------------------------------------------------------------------------
(***************************************************************************)
(* The driver.                                                             *)
(***************************************************************************)
LEMMA EmuStarts == Init => EmuInv
<1> SUFFICES ASSUME Init PROVE EmuInv
  OBVIOUS
<1>1. PICK d \in getMoves : tree = NewTree(NoMove, d)
  BY DEF Init
<1>2. OnceEach(d) /\ Untried(d) = Move /\ d \in Payload /\ NoMove \in Payload
  BY GetMovesAll DEF OnceEach, Payload
<1>3. /\ IsTree(tree, Payload) /\ Linked(tree)
      /\ Len(tree.arcs) = 1 /\ Len(tree.nodes) = 1 /\ tree.nodes[1].data = d
  BY <1>1, <1>2, NewTreeLists
<1>4. NodeIDs(tree) = {1} /\ ArcIDs(tree) = {1}
  BY <1>3 DEF NodeIDs, ArcIDs
<1>5. tree.arcs[1].source = invalid
  BY <1>3 DEF IsTree, EndsExist, root_arc
<1>6. ASSUME NEW v PROVE Carry(tree, 1, v) = {}
  BY <1>4, <1>5 DEF Carry, invalid
<1>7. MovesKept(tree, 1)
  BY <1>2, <1>3, <1>6 DEF MovesKept
<1>8. KeepsMoves(tree)
  BY <1>3, <1>4, <1>7 DEF KeepsMoves
<1>9. OneOlderParent(tree) /\ node \in NodeIDs(tree)
  BY <1>4 DEF OneOlderParent, root_node, Init
<1> QED
  BY <1>8, <1>9 DEF EmuInv

\* selectChild delivers nodes of the tree.
LEMMA ChildrenExist ==
  ASSUME NEW T, IsTree(T, Payload), Linked(T), NEW n \in NodeIDs(T)
  PROVE  selectChild(T, n) \subseteq NodeIDs(T)
<1>1. PICK w : w = outArcs(T, n)
  OBVIOUS
<1>2. Len(w) = outArcNum(T, n) /\ \A i \in 1 .. Len(w) : w[i] \in ArcIDs(T)
  BY <1>1, OutListOf
<1>3. \A a \in ArcIDs(T) : T.arcs[a].target \in NodeIDs(T)
  BY DEF IsTree, EndsExist
<1> QED
  BY <1>1, <1>2, <1>3 DEF selectChild

\* A child for a move of the node: the tree grows, and the move becomes its arc.
LEMMA EmuAddChild == EmuInv /\ AddChild => EmuInv'
<1> SUFFICES ASSUME EmuInv, AddChild PROVE EmuInv'
  OBVIOUS
<1>1. PICK T, U, n : T = tree /\ U = tree' /\ n = node
  OBVIOUS
<1>2. PICK d \in getMoves, i \in Draws(T.nodes[n].data) : U = addChild(T, n, d, i)
  BY <1>1 DEF AddChild
<1>3. KeepsMoves(T) /\ n \in NodeIDs(T) /\ hasMoves(T, n)
  BY <1>1 DEF EmuInv, AddChild
<1>4. PICK S, k : S = addNode(T, d) /\ k = Len(T.nodes) + 1
  OBVIOUS
<1>5. /\ KeepsMoves(S) /\ NodeIDs(S) = NodeIDs(T) \union {k} /\ S.arcs = T.arcs
      /\ S.nodes[n] = T.nodes[n] /\ k \notin NodeIDs(T)
  BY <1>3, <1>4, AddNodeKeepsMoves
<1>6. /\ hasMoves(S, n) /\ i \in Draws(S.nodes[n].data) /\ n \in NodeIDs(S) /\ k \in NodeIDs(S)
      /\ U = addArc(taken(S, n, i), n, k, S.nodes[n].data.m_moves[i])
  BY <1>2, <1>3, <1>4, <1>5 DEF hasMoves, addChild
<1>7. /\ KeepsMoves(U) /\ NodeIDs(U) = NodeIDs(S) /\ Len(U.arcs) = Len(S.arcs) + 1
      /\ U.arcs[Len(S.arcs) + 1].source = n /\ U.arcs[Len(S.arcs) + 1].target = k
      /\ \A a \in ArcIDs(S) : /\ U.arcs[a].source = S.arcs[a].source
                              /\ U.arcs[a].target = S.arcs[a].target
  <2>1. PICK v : v = S.nodes[n].data.m_moves[i]
    OBVIOUS
  <2>2. U = addArc(taken(S, n, i), n, k, v) /\ KeepsMoves(S)
    BY <1>5, <1>6, <2>1
  <2>3. KeepsMoves(U) /\ OneMoreArc(U, S, n, k)
    BY <1>6, <2>1, <2>2, PlayKeepsMoves
  <2> QED
    BY ONLY <2>3 DEF OneMoreArc
<1>8. node' \in NodeIDs(tree')
  <2>1. node' = root_node
    BY DEF AddChild, Back
  <2> QED
    BY <1>1, <1>7, <2>1, NodesAreIDs DEF KeepsMoves
<1>9. ASSUME OneOlderParent(T) PROVE OneOlderParent(U)
  <2>1. PICK id \in Nat : id = Len(T.arcs) + 1
    BY <1>3, NodesAreIDs DEF KeepsMoves
  <2>2. /\ ArcIDs(T) = 1 .. Len(T.arcs) /\ ArcIDs(U) = ArcIDs(T) \union {id}
        /\ Len(U.arcs) = id /\ id \in ArcIDs(U) /\ id \notin ArcIDs(T)
        /\ U.arcs[id].source = n /\ U.arcs[id].target = k
    <3>1. Len(T.arcs) \in Nat
      BY <1>3, NodesAreIDs DEF KeepsMoves
    <3>2. Len(U.arcs) = id /\ U.arcs[id].source = n /\ U.arcs[id].target = k
      BY <1>5, <1>7, <2>1
    <3> QED
      BY <2>1, <3>1, <3>2 DEF ArcIDs
  <2>3. \A a \in ArcIDs(T) : /\ U.arcs[a].source = T.arcs[a].source
                             /\ U.arcs[a].target = T.arcs[a].target
                             /\ T.arcs[a].target \in NodeIDs(T)
    BY <1>3, <1>5, <1>7, NodesAreIDs DEF KeepsMoves, ArcIDs
  <2>4. ASSUME NEW m
        PROVE  ArcsInto(U, m, Len(U.arcs)) =
                 ArcsInto(T, m, Len(T.arcs)) \union (IF m = k THEN {id} ELSE {})
    <3>1. ArcsInto(U, m, Len(U.arcs)) = {a \in ArcIDs(U) : U.arcs[a].target = m}
      BY DEF ArcsInto, ArcIDs
    <3>2. ArcsInto(T, m, Len(T.arcs)) = {a \in ArcIDs(T) : T.arcs[a].target = m}
      BY DEF ArcsInto, ArcIDs
    <3> QED
      BY <2>2, <2>3, <3>1, <3>2
  <2>5. ArcsInto(T, k, Len(T.arcs)) = {}
    BY <1>5, <2>2, <2>3 DEF ArcsInto
  <2>6. ASSUME NEW m \in NodeIDs(U) \ {root_node}
        PROVE  \E a \in ArcIDs(U) : /\ ArcsInto(U, m, Len(U.arcs)) = {a}
                                    /\ U.arcs[a].source < m
    <3>1. CASE m = k
      <4>1. ArcsInto(U, m, Len(U.arcs)) = {id}
        BY <2>4, <2>5, <3>1
      <4>2. n < k
        BY <1>3, <1>4, NodesAreIDs DEF KeepsMoves, NodeIDs
      <4> QED
        BY <2>2, <3>1, <4>1, <4>2
    <3>2. CASE m # k
      <4>1. m \in NodeIDs(T) \ {root_node}
        BY <1>5, <1>7, <3>2
      <4>2. PICK a \in ArcIDs(T) : ArcsInto(T, m, Len(T.arcs)) = {a} /\ T.arcs[a].source < m
        BY <1>9, <4>1 DEF OneOlderParent
      <4>3. ArcsInto(U, m, Len(U.arcs)) = {a} \union {}
        BY <2>4, <3>2, <4>2
      <4>4. a \in ArcIDs(U) /\ U.arcs[a].source < m
        BY <2>2, <2>3, <4>2
      <4> QED
        BY <4>3, <4>4
    <3> QED
      BY <3>1, <3>2
  <2> QED
    BY <2>6 DEF OneOlderParent
<1> QED
  BY <1>1, <1>7, <1>8, <1>9 DEF EmuInv

\* No step of the driver breaks the invariant.
LEMMA EmuStep == EmuInv /\ [Next]_vars => EmuInv'
<1> SUFFICES ASSUME EmuInv, [Next]_vars PROVE EmuInv'
  OBVIOUS
<1>1. CASE AddChild
  BY <1>1, EmuAddChild
<1>2. CASE Descend
  BY <1>2, ChildrenExist DEF Descend, EmuInv, KeepsMoves
<1>3. CASE Test \/ Stop \/ Skip \/ UNCHANGED vars
  <2>1. tree' = tree /\ node' \in {node, root_node}
    BY <1>3 DEF Test, Stop, Skip, Back, vars
  <2>2. root_node \in NodeIDs(tree)
    BY NodesAreIDs DEF EmuInv, KeepsMoves
  <2> QED
    BY <2>1, <2>2 DEF EmuInv
<1> QED
  BY <1>1, <1>2, <1>3 DEF Next

\* The invariant holds always: for any moves, as long as they are finitely many.
THEOREM EmuInvariant == Spec => []EmuInv
BY EmuStarts, EmuStep, PTL DEF Spec

\* Each move of each node is at any time untried or on one arc of it: none is
\* lost, none is played twice, and none is taken from a node that has none left.
THEOREM MovesStayKept == Spec => []MovesBecomeArcs
<1>1. ASSUME EmuInv, NEW n \in NodeIDs(tree) PROVE MovesKept(tree, n)
  BY <1>1 DEF EmuInv, KeepsMoves
<1>2. ASSUME NEW n \in NodeIDs(tree), MovesKept(tree, n), NEW v \in Move
      PROVE  Count(tree.nodes[n].data, v) + Cardinality(Played(n, v)) = 1
  <2>1. PICK m : m = tree.nodes[n].data
    OBVIOUS
  <2>2. PICK I, C : I = {i \in Used(m) : m.m_moves[i] = v} /\ C = Carry(tree, n, v)
    OBVIOUS
  <2>3. Count(m, v) = Cardinality(I) /\ Played(n, v) = C
    BY <2>2 DEF Count, Played, Carry
  <2>4. v \in Untried(m) <=> I # {}
    BY <2>2 DEF Untried
  <2>5. (I # {} <=> C = {}) /\ (\A i, j \in I : i = j) /\ \A a, b \in C : a = b
    BY <1>2, <2>1, <2>2, <2>4 DEF MovesKept, OnceEach
  <2>6. CASE C = {}
    <3>1. PICK i : I = {i}
      BY <2>5, <2>6
    <3>2. Cardinality({i}) = 1 /\ Cardinality({}) = 0
      BY FS_Singleton, FS_EmptySet
    <3>3. Count(m, v) = 1 /\ Cardinality(Played(n, v)) = 0
      BY <2>3, <2>6, <3>1, <3>2
    <3> QED
      BY <2>1, <3>3
  <2>7. CASE C # {}
    <3>1. PICK a : C = {a}
      BY <2>5, <2>7
    <3>2. I = {}
      BY <2>5, <2>7
    <3>3. Cardinality({a}) = 1 /\ Cardinality({}) = 0
      BY FS_Singleton, FS_EmptySet
    <3>4. Count(m, v) = 0 /\ Cardinality(Played(n, v)) = 1
      BY <2>3, <3>1, <3>2, <3>3
    <3> QED
      BY <2>1, <3>4
  <2> QED
    BY <2>6, <2>7
<1>3. EmuInv => MovesBecomeArcs
  BY <1>1, <1>2 DEF MovesBecomeArcs, MovesKept, OnceEach
<1> QED
  BY <1>3, EmuInvariant, PTL

\* Each node but the root is entered by one arc, from an older node: the driver
\* grows a tree.
THEOREM TreeIsGrown == Spec => []GrowsTree
<1>1. EmuInv => GrowsTree
  BY DEF EmuInv, OneOlderParent, GrowsTree
<1> QED
  BY <1>1, EmuInvariant, PTL

---------------------------------------------------------------------------
(***************************************************************************)
(* The list of moves as a bag.                                             *)
(***************************************************************************)
\* The indices at which a list has a move.
At(m, v) == {i \in Used(m) : m.m_moves[i] = v}

\* A move is in the list when its count is positive.
LEMMA CountIsSize ==
  ASSUME NEW m \in MovesValue, NEW v
  PROVE  /\ IsFiniteSet(At(m, v)) /\ Count(m, v) = Cardinality(At(m, v)) /\ Count(m, v) \in Nat
         /\ Count(m, v) > 0 <=> find(m, v)
         /\ Count(m, v) = 0 <=> At(m, v) = {}
<1>1. IsFiniteSet(Used(m))
  BY SlotsAre, FS_Subset
<1>2. IsFiniteSet(At(m, v))
  BY <1>1, FS_Subset DEF At
<1>3. Count(m, v) = Cardinality(At(m, v))
  BY DEF Count, At
<1>4. Cardinality(At(m, v)) \in Nat /\ (Cardinality(At(m, v)) = 0 <=> At(m, v) = {})
  BY <1>2, FS_CardinalityType, FS_EmptySet
<1>5. At(m, v) # {} <=> find(m, v)
  BY DEF At, find
<1> QED
  BY <1>2, <1>3, <1>4, <1>5

\* push_back counts one more.
LEMMA PushCounts ==
  ASSUME NEW m \in MovesValue, m.m_size < Capacity, NEW u \in Move, NEW w, w = push_back(m, u)
  PROVE  /\ w \in MovesValue
         /\ \A v : Count(w, v) = IF v = u THEN Count(m, v) + 1 ELSE Count(m, v)
<1>1. /\ m.m_size \in Nat /\ Capacity \in Nat /\ m.m_moves \in [Slots -> Move]
      /\ m.m_size \in Slots /\ Used(m) = 0 .. m.m_size - 1 /\ Used(m) \subseteq Slots
  BY SlotsAre DEF Slots, Used
<1>2. PICK s, a : s = m.m_size /\ a = m.m_moves
  OBVIOUS
<1>3. w = [m_size |-> s + 1, m_moves |-> [a EXCEPT ![s] = u]]
  BY <1>2 DEF push_back
<1>4. /\ w.m_size = s + 1 /\ w.m_moves = [a EXCEPT ![s] = u]
      /\ w.m_moves \in [Slots -> Move] /\ s + 1 \in 0 .. Capacity
  BY <1>1, <1>2, <1>3
<1>5. w \in MovesValue
  BY <1>3, <1>4 DEF MovesValue
<1>6. Used(w) = Used(m) \union {s} /\ s \notin Used(m)
  BY <1>1, <1>2, <1>4 DEF Used
<1>7. w.m_moves[s] = u /\ \A i \in Used(m) : w.m_moves[i] = m.m_moves[i]
  BY <1>1, <1>2, <1>4, <1>6
<1>8. ASSUME NEW v PROVE Count(w, v) = IF v = u THEN Count(m, v) + 1 ELSE Count(m, v)
  <2>1. At(w, v) = IF v = u THEN At(m, v) \union {s} ELSE At(m, v)
    BY <1>6, <1>7 DEF At
  <2>2. s \notin At(m, v)
    BY <1>6 DEF At
  <2>3. IsFiniteSet(At(m, v)) /\ Count(m, v) = Cardinality(At(m, v))
    BY CountIsSize
  <2>4. Count(w, v) = Cardinality(At(w, v))
    BY <1>5, CountIsSize
  <2>5. Cardinality(At(m, v) \union {s}) = Cardinality(At(m, v)) + 1
    BY <2>2, <2>3, FS_AddElement
  <2> QED
    BY <2>1, <2>3, <2>4, <2>5
<1> QED
  BY <1>5, <1>8

\* The list w is m after its last move replaced the one at index i.
Replaced(w, m, i) ==
  w = [m_size  |-> m.m_size - 1, m_moves |-> [m.m_moves EXCEPT ![i] = m.m_moves[m.m_size - 1]]]

\* The move at index i is counted once less, and no other.
LEMMA ReplacedCounts ==
  ASSUME NEW m \in MovesValue, NEW i \in Used(m), NEW w, Replaced(w, m, i)
  PROVE  /\ w \in MovesValue /\ m.m_moves[i] \in Move /\ Count(m, m.m_moves[i]) > 0
         /\ \A v : Count(w, v) = IF v = m.m_moves[i] THEN Count(m, v) - 1 ELSE Count(m, v)
<1>1. PICK s, a, last : s = m.m_size /\ a = m.m_moves /\ last = s - 1
  OBVIOUS
<1>2. /\ s \in 0 .. Capacity /\ Capacity \in Nat /\ a \in [Slots -> Move]
      /\ Used(m) = 0 .. last /\ Used(m) \subseteq Slots /\ s \in Nat
  BY <1>1, SlotsAre DEF Used
<1>3. last \in Used(m) /\ i \in Slots /\ last \in Slots /\ last \in 0 .. Capacity
  BY <1>1, <1>2
<1>4. w = [m_size |-> last, m_moves |-> [a EXCEPT ![i] = a[last]]]
  BY <1>1 DEF Replaced
<1>5. /\ w.m_size = last /\ w.m_moves \in [Slots -> Move]
      /\ w.m_moves[i] = a[last] /\ \A k \in Slots \ {i} : w.m_moves[k] = a[k]
  BY <1>2, <1>3, <1>4
<1>6. w \in MovesValue
  BY <1>3, <1>4, <1>5 DEF MovesValue
<1>7. Used(w) = Used(m) \ {last}
  BY <1>1, <1>2, <1>5 DEF Used
<1>8. ASSUME NEW v PROVE Count(w, v) = IF v = a[i] THEN Count(m, v) - 1 ELSE Count(m, v)
  <2>1. PICK A : A = At(m, v) \ {i, last}
    OBVIOUS
  <2>2. IsFiniteSet(At(m, v)) /\ IsFiniteSet(At(w, v))
    BY <1>6, CountIsSize
  <2>3. IsFiniteSet(A) /\ Cardinality(A) \in Nat /\ i \notin A /\ last \notin A
    BY <2>1, <2>2, FS_Subset, FS_CardinalityType
  <2>4. /\ Count(m, v) = Cardinality(At(m, v)) /\ Count(w, v) = Cardinality(At(w, v))
    BY <1>6, CountIsSize
  <2>5. /\ Cardinality(A \union {i}) = Cardinality(A) + 1
        /\ Cardinality(A \union {last}) = Cardinality(A) + 1
        /\ i # last => Cardinality((A \union {i}) \union {last}) = Cardinality(A) + 2
    <3>1. /\ IsFiniteSet(A \union {i}) /\ Cardinality(A \union {i}) = Cardinality(A) + 1
          /\ Cardinality(A \union {last}) = Cardinality(A) + 1
      BY <2>3, FS_AddElement
    <3>2. i # last => last \notin A \union {i}
      BY <2>3
    <3>3. i # last => Cardinality((A \union {i}) \union {last}) = Cardinality(A \union {i}) + 1
      BY <3>1, <3>2, FS_AddElement
    <3> QED
      BY <2>3, <3>1, <3>3
  <2>6. CASE i = last
    <3>1. At(w, v) = A
      BY <1>1, <1>2, <1>5, <1>7, <2>1, <2>6 DEF At
    <3>2. At(m, v) = IF v = a[i] THEN A \union {i} ELSE A
      BY <1>1, <1>2, <1>3, <2>1, <2>6 DEF At
    <3> QED
      BY <2>3, <2>4, <2>5, <3>1, <3>2
  <2>7. CASE i # last
    <3>1. At(w, v) = IF v = a[last] THEN A \union {i} ELSE A
      BY <1>1, <1>2, <1>5, <1>7, <2>1, <2>7 DEF At
    <3>2. At(m, v) = IF v = a[last] THEN IF v = a[i] THEN (A \union {i}) \union {last}
                                                     ELSE A \union {last}
                     ELSE IF v = a[i] THEN A \union {i} ELSE A
      BY <1>1, <1>2, <1>3, <2>1, <2>7 DEF At
    <3> QED
      BY <2>3, <2>4, <2>5, <2>7, <3>1, <3>2
  <2> QED
    BY <2>6, <2>7
<1>9. a[i] \in Move
  BY <1>2, <1>3
<1>10. Count(m, a[i]) > 0
  <2>1. find(m, a[i])
    BY <1>1 DEF find
  <2> QED
    BY <2>1, CountIsSize
<1> QED
  BY <1>1, <1>6, <1>8, <1>9, <1>10

\* A list of every move counts each once, and an empty one none.
LEMMA FullAndEmpty ==
  /\ \A d \in getMoves : d \in MovesValue /\ \A v \in Move : Count(d, v) = 1
  /\ \A m \in MovesValue : m.m_size = 0 => \A v : Count(m, v) = 0
<1>1. ASSUME NEW d \in getMoves PROVE d \in MovesValue /\ \A v \in Move : Count(d, v) = 1
  <2>1. OnceEach(d) /\ Untried(d) = Move
    BY GetMovesAll
  <2>2. d \in MovesValue
    BY <2>1 DEF OnceEach
  <2>3. ASSUME NEW v \in Move PROVE Count(d, v) = 1
    <3>1. PICK i \in Used(d) : d.m_moves[i] = v
      BY <2>1 DEF Untried
    <3>2. At(d, v) = {i}
      BY <2>1, <3>1 DEF OnceEach, At
    <3> QED
      BY <2>2, <3>2, CountIsSize, FS_Singleton
  <2> QED
    BY <2>2, <2>3
<1>2. ASSUME NEW m \in MovesValue, m.m_size = 0, NEW v PROVE Count(m, v) = 0
  <2>1. At(m, v) = {}
    BY <1>2 DEF At, Used
  <2> QED
    BY <2>1, CountIsSize
<1> QED
  BY <1>1, <1>2

---------------------------------------------------------------------------
\* Both lists are within their arrays, and a call was made where it may be.
ListInv ==
  /\ moves \in MovesValue /\ other \in MovesValue
  /\ \A v \in Move : call = <<"push_back", v>> => moves.m_size < Capacity
  /\ call = <<"take">> \/ call = <<"look">> => moves.m_size # 0

\* What a list counts.
Counts(m) == [v \in Move |-> Count(m, v)]

\* Two empty lists, whatever is in their arrays.
LEMMA InitBag == ListInit => ListInv /\ Bag!Init
<1> SUFFICES ASSUME ListInit PROVE ListInv /\ Bag!Init
  OBVIOUS
<1>1. ASSUME NEW m \in NewMoves PROVE m \in MovesValue /\ m.m_size = 0
  <2>1. PICK a \in [Slots -> Move] : m = [m_size |-> 0, m_moves |-> a]
    BY DEF NewMoves
  <2>2. 0 \in 0 .. Capacity
    BY SlotsAre
  <2> QED
    BY <2>1, <2>2 DEF MovesValue
<1>2. /\ ListInv /\ moves.m_size = 0 /\ other.m_size = 0
      /\ call = <<>> /\ answer = {}
  BY <1>1 DEF ListInit, ListInv, NoCall
<1>3. Counts(moves) = [v \in Move |-> 0] /\ Counts(other) = [v \in Move |-> 0]
  BY <1>2, FullAndEmpty DEF ListInv, Counts
<1> QED
  BY <1>2, <1>3 DEF Bag!Init, Bag!Empty, Bag!NoCall, Counts

\* take and remove bring the count of one move down.
LEMMA ReplacedIsRemoved ==
  ASSUME NEW m \in MovesValue, NEW i \in Used(m), NEW w, Replaced(w, m, i)
  PROVE  Counts(w) = [Counts(m) EXCEPT ![m.m_moves[i]] = IF @ = 0 THEN 0 ELSE @ - 1]
<1>1. PICK u : u = m.m_moves[i]
  OBVIOUS
<1>2. /\ u \in Move /\ Count(m, u) > 0 /\ Count(m, u) \in Nat
      /\ \A v : Count(w, v) = IF v = u THEN Count(m, v) - 1 ELSE Count(m, v)
  BY <1>1, ReplacedCounts, CountIsSize
<1>3. \A v \in Move : Counts(w)[v] = [Counts(m) EXCEPT ![u] = IF @ = 0 THEN 0 ELSE @ - 1][v]
  BY <1>2 DEF Counts
<1> QED
  BY <1>1, <1>3 DEF Counts

\* take puts the last move in the place of the one it takes.
LEMMA TakeReplaces ==
  ASSUME NEW m \in MovesValue, m.m_size # 0, NEW i \in Draws(m)
  PROVE  i \in Used(m) /\ Replaced(take(m, i), m, i)
BY DEF Draws, take, Replaced

\* remove does the same at the first hit, or nothing.
LEMMA RemoveReplaces ==
  ASSUME NEW m \in MovesValue, NEW v \in Move, NEW w, w = remove(m, v)
  PROVE  \/ w = m /\ Count(m, v) = 0
         \/ \E i \in Used(m) : m.m_moves[i] = v /\ Replaced(w, m, i)
<1>1. PICK hits : hits = At(m, v)
  OBVIOUS
<1>2. CASE hits = {}
  BY <1>1, <1>2, CountIsSize DEF remove, At
<1>3. CASE hits # {}
  <2>1. hits \in SUBSET Nat
    BY <1>1, SlotsAre DEF At, Used
  <2>2. \E h \in hits : \A k \in hits : h <= k
    BY <1>3, <2>1, Least
  <2>3. PICK i : i = CHOOSE h \in hits : \A k \in hits : h <= k
    OBVIOUS
  <2>4. i \in hits
    BY <2>2, <2>3
  <2>5. Replaced(w, m, i)
    BY <1>1, <1>3, <2>3 DEF remove, At, Replaced
  <2> QED
    BY <1>1, <2>4, <2>5 DEF At
<1> QED
  BY <1>2, <1>3

\* A call is made where it may be.
LEMMA RequestBag == ListInv /\ Request => ListInv' /\ Bag!Request
<1> SUFFICES ASSUME ListInv, Request PROVE ListInv' /\ Bag!Request
  OBVIOUS
<1>1. /\ call = <<>> /\ answer' = {} /\ moves' = moves /\ other' = other
      /\ moves \in MovesValue /\ other \in MovesValue
  BY DEF Request, NoCall, ListInv
<1>2. \/ call' \in {<<"clear">>, <<"getMoves">>, <<"= other">>, <<"other =">>}
      \/ \E v \in Move : call' = <<"find", v>>
      \/ moves.m_size < Capacity /\ \E v \in Move : call' = <<"push_back", v>>
      \/ moves.m_size # 0 /\ call' \in {<<"take">>, <<"look">>}
      \/ moves.m_size # 0 /\ \E v \in Move : call' = <<"remove", v>>
  BY DEF Request
<1>3. call' # <<>>
  <2>1. \A x, y : <<x>> # <<>> /\ <<x, y>> # <<>>
    <3>1. \A x, y : Len(<<x>>) = 1 /\ Len(<<x, y>>) = 2 /\ Len(<<>>) = 0
      OBVIOUS
    <3> QED
      BY <3>1
  <2> QED
    BY <1>2, <2>1
<1>4. /\ call'[1] = "push_back" => moves.m_size < Capacity
      /\ call'[1] \in {"take", "look"} => moves.m_size # 0
  <2>1. \A op, v : <<op>>[1] = op /\ <<op, v>>[1] = op
    OBVIOUS
  <2>2. \/ call'[1] \in {"clear", "getMoves", "= other", "other =", "find"}
        \/ moves.m_size < Capacity /\ call'[1] = "push_back"
        \/ moves.m_size # 0 /\ call'[1] \in {"take", "look", "remove"}
    <3>1. CASE call' \in {<<"clear">>, <<"getMoves">>, <<"= other">>, <<"other =">>}
      BY <2>1, <3>1
    <3>2. CASE \E v \in Move : call' = <<"find", v>>
      BY <2>1, <3>2
    <3>3. CASE moves.m_size < Capacity /\ \E v \in Move : call' = <<"push_back", v>>
      BY <2>1, <3>3
    <3>4. CASE moves.m_size # 0 /\ call' \in {<<"take">>, <<"look">>}
      BY <2>1, <3>4
    <3>5. CASE moves.m_size # 0 /\ \E v \in Move : call' = <<"remove", v>>
      BY <2>1, <3>5
    <3> QED
      BY <1>2, <3>1, <3>2, <3>3, <3>4, <3>5
  <2> QED
    BY <2>2
<1>5. /\ \A v \in Move : call' = <<"push_back", v>> => moves.m_size < Capacity
      /\ call' = <<"take">> \/ call' = <<"look">> => moves.m_size # 0
  <2>1. \A v : <<"push_back", v>>[1] = "push_back"
    OBVIOUS
  <2>2. <<"take">>[1] = "take" /\ <<"look">>[1] = "look"
    OBVIOUS
  <2> QED
    BY <1>4, <2>1, <2>2
<1>6. Bag!Request
  BY <1>1, <1>3 DEF Bag!Request, Bag!NoCall
<1> QED
  BY <1>1, <1>5, <1>6 DEF ListInv

\* Nothing is under way after a return.
LEMMA ReturnedIn ==
  ASSUME moves' \in MovesValue, other' \in MovesValue, call' = <<>>
  PROVE  ListInv'
BY DEF ListInv

\* Every step of a call is the step of a bag with the same call.
LEMMA StepBag == ListInv /\ [ListNext]_listVars => ListInv' /\ [Bag!Next]_(Bag!vars)
<1> SUFFICES ASSUME ListInv, [ListNext]_listVars PROVE ListInv' /\ [Bag!Next]_(Bag!vars)
  OBVIOUS
<1>1. moves \in MovesValue /\ other \in MovesValue
  BY DEF ListInv
<1>2. CASE UNCHANGED listVars
  BY <1>1, <1>2 DEF listVars, ListInv, Bag!vars
<1>3. CASE Request
  BY <1>3, RequestBag DEF Bag!Next
<1>4. CASE Clear
  <2>1. moves' = [moves EXCEPT !.m_size = 0] /\ other' = other /\ call' = <<>>
    BY <1>4 DEF Clear, Returns, NoCall, OnlyMoves, clear
  <2>2. moves' \in MovesValue /\ moves'.m_size = 0
    BY <1>1, <2>1, SlotsAre DEF MovesValue
  <2>3. Counts(moves') = Bag!Empty
    BY <2>2, FullAndEmpty DEF Counts, Bag!Empty
  <2>4. Bag!Clear
    BY <1>4, <2>3 DEF Clear, Returns, NoCall, OnlyMoves, Counts,
                      Bag!Clear, Bag!Returns, Bag!NoCall, Bag!OnlyBag
  <2> QED
    BY <1>1, <2>1, <2>2, <2>4, ReturnedIn DEF Bag!Next
<1>5. CASE Fill
  <2>1. moves' \in getMoves /\ other' = other /\ call' = <<>>
    BY <1>5 DEF Fill, Returns, NoCall, OnlyMoves
  <2>2. moves' \in MovesValue /\ Counts(moves') = Bag!Full
    BY <2>1, FullAndEmpty DEF Counts, Bag!Full
  <2>3. Bag!Fill
    BY <1>5, <2>2 DEF Fill, Returns, NoCall, OnlyMoves, Counts,
                      Bag!Fill, Bag!Returns, Bag!NoCall, Bag!OnlyBag
  <2> QED
    BY <1>1, <2>1, <2>2, <2>3, ReturnedIn DEF Bag!Next
<1>6. CASE Take
  <2>1. PICK i \in Draws(moves) : moves' = take(moves, i) /\ answer' = {moves.m_moves[i]}
    BY <1>6 DEF Take
  <2>2. call = <<"take">> /\ call' = <<>> /\ moves.m_size # 0 /\ other' = other
    BY <1>6 DEF Take, Returns, NoCall, ListInv
  <2>3. i \in Used(moves) /\ Replaced(moves', moves, i)
    BY <1>1, <2>1, <2>2, TakeReplaces
  <2>4. PICK u : u = moves.m_moves[i]
    OBVIOUS
  <2>5. moves' \in MovesValue /\ u \in Move /\ Counts(moves)[u] > 0
    BY <1>1, <2>3, <2>4, ReplacedCounts DEF Counts
  <2>6. Counts(moves') = Bag!Without(Counts(moves), u)
    BY <1>1, <2>3, <2>4, ReplacedIsRemoved DEF Bag!Without
  <2>7. Bag!Take
    BY <2>1, <2>2, <2>4, <2>5, <2>6 DEF Counts, Bag!Take, Bag!Returns, Bag!NoCall
  <2> QED
    BY <1>1, <2>2, <2>5, <2>7, ReturnedIn DEF Bag!Next
<1>7. CASE Look
  <2>1. PICK i \in Draws(moves) : answer' = {moves.m_moves[i]}
    BY <1>7 DEF Look
  <2>2. /\ call = <<"look">> /\ call' = <<>> /\ moves.m_size # 0
        /\ moves' = moves /\ other' = other
    BY <1>7 DEF Look, Returns, NoCall, ListInv
  <2>3. i \in Used(moves)
    BY <1>1, <2>1, <2>2, TakeReplaces
  <2>4. PICK u : u = moves.m_moves[i]
    OBVIOUS
  <2>5. u \in Move /\ Counts(moves)[u] > 0
    BY <1>1, <2>3, <2>4, ReplacedCounts DEF Counts, Replaced
  <2>6. Bag!Look
    BY <2>1, <2>2, <2>4, <2>5 DEF Counts, Bag!Look, Bag!Returns, Bag!NoCall
  <2> QED
    BY <1>1, <2>2, <2>6, ReturnedIn DEF Bag!Next
<1>8. CASE Assign
  <2>1. moves' = other /\ other' = other /\ call' = <<>> /\ Bag!Assign
    BY <1>8 DEF Assign, Returns, NoCall, OnlyMoves,
                Bag!Assign, Bag!Returns, Bag!NoCall, Bag!OnlyBag
  <2> QED
    BY <1>1, <2>1, ReturnedIn DEF Bag!Next
<1>9. CASE AssignTo
  <2>1. moves' = moves /\ other' = moves /\ call' = <<>> /\ Bag!AssignTo
    BY <1>9 DEF AssignTo, Returns, NoCall, Bag!AssignTo, Bag!Returns, Bag!NoCall
  <2> QED
    BY <1>1, <2>1, ReturnedIn DEF Bag!Next
<1>10. ASSUME NEW v \in Move, PushBack(v) PROVE ListInv' /\ Bag!PushBack(v)
  <2>1. /\ moves' = push_back(moves, v) /\ moves.m_size < Capacity
        /\ call = <<"push_back", v>> /\ call' = <<>> /\ answer' = {} /\ other' = other
    BY <1>10 DEF PushBack, Returns, NoCall, OnlyMoves, ListInv
  <2>2. /\ moves' \in MovesValue
        /\ \A u : Count(moves', u) = IF u = v THEN Count(moves, u) + 1 ELSE Count(moves, u)
    BY <1>1, <2>1, PushCounts
  <2>3. Counts(moves') = Bag!Add(Counts(moves), v)
    BY <2>2 DEF Counts, Bag!Add
  <2>4. Bag!PushBack(v)
    BY <2>1, <2>3 DEF Counts, Bag!PushBack, Bag!Returns, Bag!NoCall, Bag!OnlyBag
  <2> QED
    BY <1>1, <2>1, <2>2, <2>4, ReturnedIn
<1>11. ASSUME NEW v \in Move, Remove(v) PROVE ListInv' /\ Bag!Remove(v)
  <2>1. /\ moves' = remove(moves, v)
        /\ call = <<"remove", v>> /\ call' = <<>> /\ answer' = {} /\ other' = other
    BY <1>11 DEF Remove, Returns, NoCall, OnlyMoves
  <2>2. moves' \in MovesValue /\ Counts(moves') = Bag!Without(Counts(moves), v)
    <3>1. CASE moves' = moves /\ Count(moves, v) = 0
      BY <1>1, <3>1 DEF Counts, Bag!Without
    <3>2. CASE \E i \in Used(moves) : moves.m_moves[i] = v /\ Replaced(moves', moves, i)
      BY <1>1, <3>2, ReplacedCounts, ReplacedIsRemoved DEF Bag!Without
    <3> QED
      BY <1>1, <2>1, <3>1, <3>2, RemoveReplaces
  <2>3. Bag!Remove(v)
    BY <2>1, <2>2 DEF Counts, Bag!Remove, Bag!Returns, Bag!NoCall, Bag!OnlyBag
  <2> QED
    BY <1>1, <2>1, <2>2, <2>3, ReturnedIn
<1>12. ASSUME NEW v \in Move, Find(v) PROVE ListInv' /\ Bag!Find(v)
  <2>1. /\ call = <<"find", v>> /\ call' = <<>> /\ answer' = {find(moves, v)}
        /\ moves' = moves /\ other' = other
    BY <1>12 DEF Find, Returns, NoCall
  <2>2. find(moves, v) = (Counts(moves)[v] > 0)
    <3>1. find(moves, v) <=> Counts(moves)[v] > 0
      BY <1>1, CountIsSize DEF Counts
    <3>2. find(moves, v) \in BOOLEAN
      BY Zenon DEF find
    <3>3. (Counts(moves)[v] > 0) \in BOOLEAN
      BY SMT
    <3> QED
      BY <3>1, <3>2, <3>3
  <2>3. Bag!Find(v)
    BY <2>1, <2>2 DEF Counts, Bag!Find, Bag!Returns, Bag!NoCall
  <2> QED
    BY <1>1, <2>1, <2>3, ReturnedIn
<1> QED
  BY <1>2, <1>3, <1>4, <1>5, <1>6, <1>7, <1>8, <1>9, <1>10, <1>11, <1>12
     DEF ListNext, Bag!Next

\* For any finite set of moves, an array of that size and any calls in any order,
\* each operation does to the list, and answers, what the operation of the same
\* name and argument does to a bag.
THEOREM ListIsBag == ListSpec => IsBag
BY InitBag, StepBag, PTL DEF ListSpec, IsBag, Bag!Spec

============================================================================
