--------------------------- MODULE SubTreeProofs ---------------------------
(***************************************************************************)
(* makeSubTree copies exactly what is below the new root, for a tree of    *)
(* any size and shape.  The invariant says how far the copy of each node   *)
(* has come: a node that is known has its first out-arcs in the sub-tree,  *)
(* in order; none when it waits on the stack, those before the place of    *)
(* the for-loop when it is the parent, and all of them otherwise.          *)
(***************************************************************************)
EXTENDS SubTree, FlatTreeTheorems

Known == {n \in NodeIDs(tree) : visited[n] # invalid}

\* The out-arcs of a node at the call, and the copies it has in the sub-tree.
Outs(n)   == outArcs(orig, n)
Copies(n) == outArcs(sub, visited[n])

\* No payload of T was moved out.
Unmoved(T) ==
  /\ \A a \in ArcIDs(T) : T.arcs[a].data # Moved
  /\ \A n \in NodeIDs(T) : T.nodes[n].data # Moved

\* What the locals are in a call, from the call to what the client does with the
\* result.
InCall ==
  /\ root \in NodeIDs(tree)
  /\ visited \in [NodeIDs(tree) -> NodeIDs(sub) \union {invalid}]
  /\ stack \in Seq(NodeIDs(tree)) /\ NoneTwice(stack) /\ Entries(stack) \subseteq Known
  /\ pc = "returned" => stack = <<>>
  /\ SameGraph(tree, orig) /\ Unmoved(orig)

Numbered ==
  /\ visited[root] = root_node
  /\ \A m, n \in Known : visited[m] = visited[n] => m = n
  /\ \A i \in NodeIDs(sub) : \E n \in Known : visited[n] = i
  /\ \A n \in Known : sub.nodes[visited[n]].data = orig.nodes[n].data

\* The payloads that were not taken yet.
NodesLeft == \A n \in NodeIDs(tree) \ Known : tree.nodes[n].data = orig.nodes[n].data

ArcsLeft ==
  \A n \in NodeIDs(tree) : \A i \in 1 .. Len(Outs(n)) :
    n \notin Known \/ i > Len(Copies(n)) =>
      tree.arcs[Outs(n)[i]].data = orig.arcs[Outs(n)[i]].data

PayloadsLeft == NodesLeft /\ ArcsLeft

\* The copies are those of the first out-arcs, in order.
CopiesAgree ==
  \A n \in Known :
    /\ Len(Copies(n)) <= Len(Outs(n))
    /\ \A i \in 1 .. Len(Copies(n)) :
         /\ sub.arcs[Copies(n)[i]].target = visited[orig.arcs[Outs(n)[i]].target]
         /\ sub.arcs[Copies(n)[i]].data = orig.arcs[Outs(n)[i]].data

\* Which nodes are copied, and how far the for-loop is with its parent.
WorkDone ==
  /\ \A n \in Entries(stack) : Copies(n) = <<>>
  /\ \A n \in Known \ Entries(stack) :
       ~ (pc = "for" /\ n = parent) => Len(Copies(n)) = Len(Outs(n))
  /\ pc = "for" =>
       /\ parent \in Known \ Entries(stack)
       /\ arc = IF Len(Copies(parent)) < Len(Outs(parent))
                THEN Outs(parent)[Len(Copies(parent)) + 1] ELSE invalid

KnownAreReached == Known \subseteq Reach(orig, root)

SubInv ==
  /\ TypeOK /\ Linked(orig) /\ Linked(tree) /\ Linked(sub) /\ Unmoved(sub)
  /\ pc = "client" => Unmoved(tree)
  /\ pc # "client" =>
       /\ InCall /\ Numbered /\ PayloadsLeft
       /\ CopiesAgree /\ WorkDone /\ KnownAreReached

---------------------------------------------------------------------------
(***************************************************************************)
(* Taking payloads changes no list.                                        *)
(***************************************************************************)
LEMMA TakeNodeWrites ==
  ASSUME NEW T, IsTree(T, Int), NEW n \in NodeIDs(T), NEW U, U = takeNode(T, n)
  PROVE  /\ IsTree(U, Int) /\ SameGraph(U, T) /\ U.arcs = T.arcs
         /\ \A m \in NodeIDs(T) : m # n => U.nodes[m].data = T.nodes[m].data
<1>1. PICK D, v : D = Int /\ v = Moved
  OBVIOUS
<1>2. v \in D /\ IsTree(T, D) /\ U = withNodeData(T, n, v)
  BY <1>1 DEF Moved, takeNode, withNodeData
<1>3. /\ IsTree(U, D) /\ SameGraph(U, T) /\ U.arcs = T.arcs
      /\ \A m \in NodeIDs(T) : U.nodes[m].data = IF m = n THEN v ELSE T.nodes[m].data
  BY <1>2, NodeDataWrites
<1> QED
  BY <1>1, <1>3

\* Moving the payload of an arc out changes no list.
LEMMA TakeArcWrites ==
  ASSUME NEW T, IsTree(T, Int), NEW a \in ArcIDs(T), NEW U, U = takeArc(T, a)
  PROVE  /\ IsTree(U, Int) /\ SameGraph(U, T) /\ U.nodes = T.nodes
         /\ \A b \in ArcIDs(T) : b # a => U.arcs[b].data = T.arcs[b].data
<1>1. PICK D, v : D = Int /\ v = Moved
  OBVIOUS
<1>2. v \in D /\ IsTree(T, D) /\ U = withArcData(T, a, v)
  BY <1>1 DEF Moved, takeArc, withArcData
<1>3. /\ IsTree(U, D) /\ SameGraph(U, T) /\ U.nodes = T.nodes
      /\ \A b \in ArcIDs(T) : U.arcs[b].data = IF b = a THEN v ELSE T.arcs[b].data
  BY <1>2, ArcDataWrites
<1> QED
  BY <1>1, <1>3

---------------------------------------------------------------------------
(***************************************************************************)
(* The client's part.                                                      *)
(***************************************************************************)
\* The tree a call starts with.
LEMMA NewTreeUnmoved ==
  ASSUME NEW d \in Int, d # Moved, NEW T, T = NewTree(NoData, d)
  PROVE  /\ IsTree(T, Int) /\ Linked(T) /\ Unmoved(T)
         /\ NodeIDs(T) = {root_node} /\ T.nodes[root_node].data = d
         /\ outArcs(T, root_node) = <<>>
<1>1. NoData \in Int /\ NoData # Moved
  BY DEF NoData, Moved
<1>2. /\ IsTree(T, Int) /\ Linked(T) /\ Len(T.arcs) = 1 /\ Len(T.nodes) = 1
      /\ T.nodes[1].data = d
  <2>1. PICK D, z : D = Int /\ z = NoData
    OBVIOUS
  <2>2. z \in D /\ d \in D /\ T = NewTree(z, d)
    BY <1>1, <2>1
  <2>3. /\ IsTree(T, D) /\ Linked(T) /\ Len(T.arcs) = 1 /\ Len(T.nodes) = 1
        /\ T.nodes[1].data = d
    BY ONLY <2>2, NewTreeLists
  <2> QED
    BY <2>1, <2>3
<1>3. outArcs(T, root_node) = <<>> /\ T.arcs[1].data = NoData
  BY <1>1, NewTreeWalks DEF root_arc
<1>4. NodeIDs(T) = {1} /\ ArcIDs(T) = {1}
  BY <1>2 DEF NodeIDs, ArcIDs
<1> QED
  BY <1>1, <1>2, <1>3, <1>4 DEF Unmoved, root_node

\* Between the calls only the three trees matter.
LEMMA ClientTrees ==
  ASSUME IsTree(tree, Int), Linked(tree), Unmoved(tree),
         IsTree(sub, Int), Linked(sub), Unmoved(sub),
         IsTree(orig, Int), Linked(orig), pc = "client"
  PROVE  SubInv
<1>1. TypeOK
  BY DEF TypeOK, Running
<1> QED
  BY <1>1 DEF SubInv

\* Before the first call nothing is moved.
LEMMA SubInit == Init => SubInv
<1> SUFFICES ASSUME Init PROVE SubInv
  OBVIOUS
<1>1. /\ tree = NewTree(NoData, 1) /\ sub = NewTree(NoData, 0) /\ orig = NewTree(NoData, 0)
      /\ pc = "client"
  BY DEF Init, NoTree, root_node, NoData
<1>2. 0 \in Int /\ 1 \in Int /\ 0 # Moved /\ 1 # Moved
  BY DEF Moved
<1>3. /\ IsTree(tree, Int) /\ Linked(tree) /\ Unmoved(tree)
      /\ IsTree(sub, Int) /\ Linked(sub) /\ Unmoved(sub)
      /\ IsTree(orig, Int) /\ Linked(orig)
  BY <1>1, <1>2, NewTreeUnmoved
<1> QED
  BY <1>1, <1>3, ClientTrees

\* The client grows the tree, or goes on with the result.
LEMMA SubClient == SubInv /\ (AddNode \/ AddArc \/ Adopt) => SubInv'
<1> SUFFICES ASSUME SubInv, AddNode \/ AddArc \/ Adopt PROVE SubInv'
  OBVIOUS
<1>1. /\ IsTree(tree, Int) /\ Linked(tree) /\ (pc = "client" => Unmoved(tree))
      /\ IsTree(sub, Int) /\ Linked(sub) /\ Unmoved(sub)
      /\ IsTree(orig, Int) /\ Linked(orig)
  BY DEF SubInv, TypeOK
<1>2. PICK T, U : T = tree /\ U = tree'
  OBVIOUS
<1>3. Len(T.nodes) \in Nat /\ Len(T.arcs) \in Nat
  BY <1>1, <1>2, TreeFields DEF IsTree
<1>4. pc' = "client" /\ IsTree(U, Int) /\ Linked(U) /\ Unmoved(U)
  <2>1. CASE AddNode
    <3>1. PICK d : d = Len(T.nodes) + 1
      OBVIOUS
    <3>2. d \in Int /\ d # Moved /\ U = addNode(T, d) /\ pc = "client" /\ pc' = "client"
      BY <1>2, <1>3, <2>1, <3>1 DEF AddNode, Moved
    <3>3. IsTree(T, Int) /\ Linked(T) /\ Unmoved(T)
      BY <1>1, <1>2, <3>2
    <3>4. /\ IsTree(U, Int) /\ Linked(U)
          /\ U.arcs = T.arcs /\ Len(U.nodes) = Len(T.nodes) + 1
          /\ U.nodes[Len(T.nodes) + 1] = NewNode(d)
          /\ \A n \in NodeIDs(T) : U.nodes[n] = T.nodes[n]
      BY ONLY <3>2, <3>3, AddNodeKeepsLists
    <3>5. NewNode(d).data = d
      BY DEF NewNode
    <3>6. \A n \in NodeIDs(U) : n \in NodeIDs(T) \/ n = Len(T.nodes) + 1
      BY <1>3, <3>4 DEF NodeIDs
    <3> QED
      BY <3>2, <3>3, <3>4, <3>5, <3>6 DEF Unmoved, ArcIDs
  <2>2. CASE AddArc
    <3>1. PICK d : d = Len(T.arcs) + 1
      OBVIOUS
    <3>2. PICK s, t \in NodeIDs(T) : U = addArc(T, s, t, d)
      BY <1>2, <2>2, <3>1 DEF AddArc
    <3>3. d \in Int /\ d # Moved /\ pc = "client" /\ pc' = "client"
      BY <1>3, <2>2, <3>1 DEF AddArc, Moved
    <3>4. IsTree(T, Int) /\ Linked(T) /\ Unmoved(T)
      BY <1>1, <1>2, <3>3
    <3>5. /\ IsTree(U, Int) /\ Linked(U)
          /\ Len(U.arcs) = Len(T.arcs) + 1 /\ Len(U.nodes) = Len(T.nodes)
          /\ U.arcs[Len(T.arcs) + 1].data = d
          /\ \A a \in ArcIDs(T) : U.arcs[a].data = T.arcs[a].data
          /\ \A n \in NodeIDs(T) : U.nodes[n].data = T.nodes[n].data
      BY ONLY <3>2, <3>3, <3>4, AddArcKeepsLists
    <3>6. \A a \in ArcIDs(U) : a \in ArcIDs(T) \/ a = Len(T.arcs) + 1
      BY <1>3, <3>5 DEF ArcIDs
    <3> QED
      BY <3>3, <3>4, <3>5, <3>6 DEF Unmoved, NodeIDs
  <2>3. CASE Adopt
    BY <1>1, <1>2, <2>3 DEF Adopt
  <2> QED
    BY <2>1, <2>2, <2>3
<1>5. /\ IsTree(sub', Int) /\ Linked(sub') /\ Unmoved(sub')
      /\ IsTree(orig', Int) /\ Linked(orig')
  <2>1. CASE Adopt
    <3>1. PICK N : N = NewTree(NoData, 0)
      OBVIOUS
    <3>2. 0 \in Int /\ 0 # Moved
      BY DEF Moved
    <3>3. IsTree(N, Int) /\ Linked(N) /\ Unmoved(N)
      BY ONLY <3>1, <3>2, NewTreeUnmoved
    <3>4. sub' = N /\ orig' = N
      BY <2>1, <3>1 DEF Adopt, NoTree, NoData
    <3> QED
      BY <3>3, <3>4
  <2>2. CASE AddNode \/ AddArc
    <3>1. sub' = sub /\ orig' = orig
      BY <2>2 DEF AddNode, AddArc, loopVars
    <3> QED
      BY <1>1, <3>1
  <2> QED
    BY <2>1, <2>2
<1>6. TypeOK'
  BY <1>2, <1>4, <1>5 DEF TypeOK, Running
<1> QED
  BY <1>2, <1>4, <1>5, <1>6 DEF SubInv

---------------------------------------------------------------------------
(***************************************************************************)
(* The call.                                                               *)
(***************************************************************************)
\* How the trees are at the start of a call, in values.
LEMMA CallTrees ==
  ASSUME NEW T, IsTree(T, Int), Linked(T), Unmoved(T), NEW r \in NodeIDs(T),
         NEW S, S = NewTree(NoData, T.nodes[r].data), NEW U, U = takeNode(T, r)
  PROVE  /\ IsTree(S, Int) /\ Linked(S) /\ Unmoved(S) /\ NodeIDs(S) = {root_node}
         /\ S.nodes[root_node].data = T.nodes[r].data /\ outArcs(S, root_node) = <<>>
         /\ IsTree(U, Int) /\ Linked(U) /\ SameGraph(U, T) /\ NodeIDs(U) = NodeIDs(T)
         /\ U.arcs = T.arcs /\ \A m \in NodeIDs(T) : m # r => U.nodes[m].data = T.nodes[m].data
         /\ Len(outArcs(T, r)) \in Nat
<1>1. T.nodes[r].data \in Int /\ T.nodes[r].data # Moved
  <2>1. T.nodes[r] \in Node(Int)
    BY TreeFields DEF IsTree
  <2> QED
    BY <2>1 DEF Node, Unmoved
<1>2. /\ IsTree(S, Int) /\ Linked(S) /\ Unmoved(S) /\ NodeIDs(S) = {root_node}
      /\ S.nodes[root_node].data = T.nodes[r].data /\ outArcs(S, root_node) = <<>>
  BY <1>1, NewTreeUnmoved
<1>3. /\ IsTree(U, Int) /\ SameGraph(U, T) /\ U.arcs = T.arcs
      /\ \A m \in NodeIDs(T) : m # r => U.nodes[m].data = T.nodes[m].data
  BY TakeNodeWrites
<1>4. Linked(U) /\ NodeIDs(U) = NodeIDs(T)
  BY <1>3, SameGraphLinked
<1>5. Len(outArcs(T, r)) \in Nat
  BY OutListOf
<1> QED
  BY <1>2, <1>3, <1>4, <1>5

\* A node reaches itself.
LEMMA ReachStart == ASSUME NEW T, NEW r \in NodeIDs(T) PROVE r \in Reach(T, r)
BY DEF Reach

\* The call makes the new root and moves its payload.
LEMMA SubCall == SubInv /\ (\E r \in NodeIDs(tree) : Call(r)) => SubInv'
<1> SUFFICES ASSUME SubInv, NEW r \in NodeIDs(tree), Call(r) PROVE SubInv'
  OBVIOUS
<1>1. /\ IsTree(tree, Int) /\ Linked(tree) /\ Unmoved(tree)
      /\ pc' = "while" /\ root' = r /\ stack' = <<r>> /\ orig' = tree
      /\ visited' = [n \in NodeIDs(tree) |-> IF n = r THEN root_node ELSE invalid]
  BY DEF SubInv, TypeOK, Call, newVisited
<1>2. PICK T, S, U, v : T = tree /\ S = sub' /\ U = tree' /\ v = visited'
  OBVIOUS
<1>3. S = NewTree(NoData, T.nodes[r].data) /\ U = takeNode(T, r)
  BY <1>2 DEF Call
<1>4. /\ IsTree(S, Int) /\ Linked(S) /\ Unmoved(S) /\ NodeIDs(S) = {root_node}
      /\ S.nodes[root_node].data = T.nodes[r].data /\ outArcs(S, root_node) = <<>>
      /\ IsTree(U, Int) /\ Linked(U) /\ SameGraph(U, T) /\ NodeIDs(U) = NodeIDs(T)
      /\ U.arcs = T.arcs /\ \A m \in NodeIDs(T) : m # r => U.nodes[m].data = T.nodes[m].data
      /\ Len(outArcs(T, r)) \in Nat
  <2>1. IsTree(T, Int) /\ Linked(T) /\ Unmoved(T) /\ r \in NodeIDs(T)
    BY <1>1, <1>2
  <2> QED
    BY ONLY <1>3, <2>1, CallTrees
<1>5. /\ v \in [NodeIDs(T) -> NodeIDs(S) \union {invalid}]
      /\ v[r] = root_node /\ \A n \in NodeIDs(T) : v[n] # invalid <=> n = r
  BY <1>1, <1>2, <1>4 DEF root_node, invalid
<1>6. Known' = {r} /\ r \in NodeIDs(T)
  BY <1>2, <1>4, <1>5 DEF Known
<1>7. TypeOK'
  <2>1. stack' \in Seq(NodeIDs(U))
    BY <1>1, <1>2, <1>4
  <2> QED
    BY <1>1, <1>2, <1>4, <1>5, <2>1 DEF TypeOK, Running
<1>8. InCall'
  <2>1. Len(<<r>>) = 1 /\ <<r>>[1] = r
    OBVIOUS
  <2>2. Entries(<<r>>) = {r} /\ NoneTwice(<<r>>)
    BY <2>1 DEF Entries, NoneTwice
  <2>3. stack' \in Seq(NodeIDs(U))
    BY <1>1, <1>2, <1>4
  <2> QED
    BY <1>1, <1>2, <1>4, <1>5, <1>6, <2>2, <2>3 DEF InCall
<1>9. Numbered'
  BY <1>1, <1>2, <1>4, <1>5, <1>6 DEF Numbered
<1>10. Copies(r)' = <<>> /\ Len(Copies(r)') = 0
  BY <1>2, <1>4, <1>5 DEF Copies
<1>11. PayloadsLeft'
  BY <1>1, <1>2, <1>4, <1>6 DEF PayloadsLeft, NodesLeft, ArcsLeft, Outs
<1>12. CopiesAgree'
  <2>1. Len(Outs(r)') \in Nat
    BY <1>1, <1>2, <1>4 DEF Outs
  <2>2. Len(Copies(r)') <= Len(Outs(r)') /\ 1 .. Len(Copies(r)') = {}
    BY <1>10, <2>1
  <2> QED
    BY <1>6, <2>2 DEF CopiesAgree
<1>13. WorkDone'
  <2>1. Entries(<<r>>) = {r}
    BY DEF Entries
  <2> QED
    BY <1>1, <1>6, <1>10, <2>1 DEF WorkDone
<1>14. KnownAreReached'
  BY <1>1, <1>2, <1>6, ReachStart DEF KnownAreReached
<1> QED
  BY <1>1, <1>2, <1>4, <1>7, <1>8, <1>9, <1>11, <1>12, <1>13, <1>14 DEF SubInv

---------------------------------------------------------------------------
(***************************************************************************)
(* The while-loop takes the next node.                                     *)
(***************************************************************************)
\* The out-lists in values: the one at the call has not changed since.
LEMMA OutsOf ==
  ASSUME SubInv, pc # "client", NEW n \in NodeIDs(tree)
  PROVE  /\ n \in NodeIDs(orig) /\ Len(Outs(n)) \in Nat /\ Len(Outs(n)) = outArcNum(orig, n)
         /\ \A i \in 1 .. Len(Outs(n)) :
              /\ Outs(n)[i] \in ArcIDs(tree) /\ Outs(n)[i] \in ArcIDs(orig)
              /\ orig.arcs[Outs(n)[i]].source = n
              /\ tree.arcs[Outs(n)[i]].target = orig.arcs[Outs(n)[i]].target
              /\ orig.arcs[Outs(n)[i]].target \in NodeIDs(tree)
              /\ nextOut(tree, Outs(n)[i]) = IF i < Len(Outs(n)) THEN Outs(n)[i + 1] ELSE invalid
         /\ \A i, j \in 1 .. Len(Outs(n)) : Outs(n)[i] = Outs(n)[j] => i = j
         /\ \A a \in ArcIDs(orig) : orig.arcs[a].source = n => \E i \in 1 .. Len(Outs(n)) : Outs(n)[i] = a
         /\ beginOut(tree, n) = IF Len(Outs(n)) = 0 THEN invalid ELSE Outs(n)[1]
<1>1. SameGraph(tree, orig) /\ IsTree(orig, Int) /\ Linked(orig)
  BY DEF SubInv, InCall, TypeOK
<1>2. /\ ArcIDs(tree) = ArcIDs(orig) /\ NodeIDs(tree) = NodeIDs(orig)
      /\ \A m \in NodeIDs(orig) : beginOut(tree, m) = beginOut(orig, m)
      /\ \A a \in ArcIDs(orig) : nextOut(tree, a) = nextOut(orig, a)
  BY <1>1, SameGraphLinked
<1>3. \A a \in ArcIDs(orig) : /\ tree.arcs[a].target = orig.arcs[a].target
                              /\ orig.arcs[a].target \in NodeIDs(orig)
  BY <1>1 DEF SameGraph, IsTree, EndsExist
<1>4. PICK w : w = outArcs(orig, n)
  OBVIOUS
<1>5. /\ w \in Seq(Nat) /\ Len(w) \in Nat /\ Len(w) = outArcNum(orig, n)
      /\ \A i \in 1 .. Len(w) : w[i] \in ArcIDs(orig) /\ orig.arcs[w[i]].source = n
      /\ \A i, j \in 1 .. Len(w) : w[i] = w[j] => i = j
      /\ \A a \in ArcIDs(orig) : orig.arcs[a].source = n => \E i \in 1 .. Len(w) : w[i] = a
      /\ beginOut(orig, n) = IF Len(w) = 0 THEN invalid ELSE w[1]
      /\ \A i \in 1 .. Len(w) : nextOut(orig, w[i]) = IF i < Len(w) THEN w[i + 1] ELSE invalid
  BY <1>1, <1>2, <1>4, OutListOf
<1>6. Outs(n) = w
  BY <1>4 DEF Outs
<1> QED
  BY <1>2, <1>3, <1>5, <1>6

\* The copies of the out-arcs of a known node are arcs of the sub-tree, to known
\* nodes.
LEMMA CopiesOf ==
  ASSUME SubInv, pc # "client", NEW n \in Known
  PROVE  /\ n \in NodeIDs(tree) /\ visited[n] \in NodeIDs(sub)
         /\ Copies(n) \in Seq(Nat) /\ Len(Copies(n)) \in Nat
         /\ Len(Copies(n)) = outArcNum(sub, visited[n])
         /\ \A i \in 1 .. Len(Copies(n)) : /\ Copies(n)[i] \in ArcIDs(sub)
                                           /\ sub.arcs[Copies(n)[i]].target \in NodeIDs(sub)
<1>1. n \in NodeIDs(tree) /\ visited[n] \in NodeIDs(sub)
  BY DEF Known, SubInv, InCall
<1>2. IsTree(sub, Int) /\ Linked(sub)
  BY DEF SubInv, TypeOK
<1>3. PICK w : w = outArcs(sub, visited[n])
  OBVIOUS
<1>4. /\ w \in Seq(Nat) /\ Len(w) \in Nat /\ Len(w) = outArcNum(sub, visited[n])
      /\ \A i \in 1 .. Len(w) : w[i] \in ArcIDs(sub)
  BY <1>1, <1>2, <1>3, OutListOf
<1>5. \A a \in ArcIDs(sub) : sub.arcs[a].target \in NodeIDs(sub)
  BY <1>2 DEF IsTree, EndsExist
<1>6. Copies(n) = w
  BY <1>3 DEF Copies
<1> QED
  BY <1>1, <1>4, <1>5, <1>6

\* The next node whose arcs are copied has its copy, none of whose arcs is made yet.
LEMMA SubPop == SubInv /\ Pop => SubInv'
<1> SUFFICES ASSUME SubInv, Pop PROVE SubInv'
  OBVIOUS
<1>1. PICK n, rest : n = stack[Len(stack)] /\ rest = SubSeq(stack, 1, Len(stack) - 1)
  OBVIOUS
<1>2. /\ TypeOK /\ InCall /\ Numbered /\ PayloadsLeft /\ CopiesAgree /\ WorkDone /\ KnownAreReached
      /\ pc = "while" /\ pc' = "for" /\ stack # <<>> /\ stack \in Seq(NodeIDs(tree))
      /\ parent' = n /\ stack' = rest /\ arc' = beginOut(tree, n)
      /\ tree' = tree /\ sub' = sub /\ root' = root /\ visited' = visited /\ orig' = orig
  <2>1. /\ pc = "while" /\ stack # <<>> /\ parent' = n /\ stack' = rest
        /\ arc' = beginOut(tree, parent') /\ pc' = "for"
        /\ tree' = tree /\ sub' = sub /\ root' = root /\ visited' = visited /\ orig' = orig
    BY <1>1 DEF Pop
  <2> QED
    BY <2>1 DEF SubInv, InCall
<1>3. /\ rest \in Seq(NodeIDs(tree)) /\ n \in NodeIDs(tree) /\ NoneTwice(rest)
      /\ Entries(stack) = Entries(rest) \union {n} /\ n \notin Entries(rest)
  <2>1. PICK S : S = NodeIDs(tree)
    OBVIOUS
  <2>2. stack \in Seq(S) /\ stack # <<>>
    BY <1>2, <2>1
  <2>3. Extends(stack, rest, n, S)
    BY ONLY <1>1, <2>2, PoppedBack
  <2> QED
    BY <1>2, <2>1, <2>3 DEF Extends, InCall
<1>4. n \in Known /\ visited[n] # invalid /\ Known' = Known
  BY <1>2, <1>3 DEF InCall, Known
<1>5. /\ Copies(n) = <<>> /\ Len(Copies(n)) = 0 /\ Len(Outs(n)) \in Nat
      /\ beginOut(tree, n) = IF Len(Outs(n)) = 0 THEN invalid ELSE Outs(n)[1]
      /\ Len(Outs(n)) > 0 => Outs(n)[1] \in ArcIDs(tree)
  <2>1. Copies(n) = <<>>
    BY <1>2, <1>3 DEF WorkDone
  <2> QED
    BY <1>2, <1>3, <2>1, OutsOf
<1>6. arc' = IF Len(Copies(n)) < Len(Outs(n)) THEN Outs(n)[Len(Copies(n)) + 1] ELSE invalid
  BY <1>2, <1>5
<1>7. TypeOK'
  <2>1. arc' \in ArcIDs(tree) \union {invalid}
    BY <1>2, <1>5
  <2> QED
    BY <1>2, <1>3, <1>4, <2>1 DEF TypeOK, Running, InCall
<1>8. \A m : Copies(m)' = Copies(m) /\ Outs(m)' = Outs(m)
  BY <1>2 DEF Copies, Outs
<1>9. InCall' /\ Numbered' /\ PayloadsLeft' /\ CopiesAgree' /\ KnownAreReached'
  <2>1. InCall'
    BY <1>2, <1>3, <1>4 DEF InCall
  <2>2. Numbered' /\ KnownAreReached'
    BY <1>2, <1>4 DEF Numbered, KnownAreReached
  <2>3. PayloadsLeft' /\ CopiesAgree'
    BY <1>2, <1>4, <1>8 DEF PayloadsLeft, NodesLeft, ArcsLeft, CopiesAgree
  <2> QED
    BY <2>1, <2>2, <2>3
<1>10. WorkDone'
  BY <1>2, <1>3, <1>4, <1>5, <1>6, <1>8 DEF WorkDone
<1>11. Linked(orig') /\ Linked(tree') /\ Linked(sub') /\ Unmoved(sub')
  BY <1>2 DEF SubInv
<1> QED
  BY <1>2, <1>7, <1>9, <1>10, <1>11 DEF SubInv

---------------------------------------------------------------------------
(***************************************************************************)
(* A pass of the for-loop.  Both ways to pass an arc copy it into a tree S *)
(* in which its child has a node: the sub-tree, or the sub-tree with one   *)
(* node more.                                                              *)
(***************************************************************************)
LEMMA ReachNext ==
  ASSUME NEW T, NEW r, NEW a \in ArcIDs(T),
         T.arcs[a].source \in Reach(T, r), T.arcs[a].target \in NodeIDs(T)
  PROVE  T.arcs[a].target \in Reach(T, r)
BY DEF Reach, Closed

\* The arc the for-loop is at, which is not copied yet.
LEMMA ArcPassed ==
  ASSUME SubInv, pc = "for", arc # invalid,
         NEW c, c = tree.arcs[arc].target, NEW k, k = Len(Copies(parent)) + 1
  PROVE  /\ parent \in Known \ Entries(stack) /\ parent \in NodeIDs(tree)
         /\ k \in 1 .. Len(Outs(parent)) /\ k \in Nat /\ Len(Copies(parent)) = k - 1
         /\ arc = Outs(parent)[k] /\ arc \in ArcIDs(tree)
         /\ c \in NodeIDs(tree) /\ c = orig.arcs[arc].target /\ c \in Reach(orig, root)
         /\ tree.arcs[arc].data = orig.arcs[arc].data
         /\ tree.arcs[arc].data \in Int /\ tree.arcs[arc].data # Moved
         /\ nextOut(tree, arc) = IF k < Len(Outs(parent)) THEN Outs(parent)[k + 1] ELSE invalid
         /\ nextOut(tree, arc) \in ArcIDs(tree) \union {invalid}
<1>1. /\ TypeOK /\ InCall /\ PayloadsLeft /\ WorkDone /\ KnownAreReached /\ pc # "client"
  BY DEF SubInv
<1>2. PICK n : n = parent
  OBVIOUS
<1>3. /\ n \in Known \ Entries(stack) /\ n \in NodeIDs(tree)
      /\ Len(Copies(n)) < Len(Outs(n)) /\ arc = Outs(n)[k]
  BY <1>1, <1>2 DEF WorkDone, Known
<1>4. Len(Copies(n)) \in Nat
  BY <1>1, <1>3, CopiesOf
<1>5. /\ Len(Outs(n)) \in Nat
      /\ \A i \in 1 .. Len(Outs(n)) :
           /\ Outs(n)[i] \in ArcIDs(tree) /\ Outs(n)[i] \in ArcIDs(orig)
           /\ orig.arcs[Outs(n)[i]].source = n
           /\ tree.arcs[Outs(n)[i]].target = orig.arcs[Outs(n)[i]].target
           /\ orig.arcs[Outs(n)[i]].target \in NodeIDs(tree)
           /\ nextOut(tree, Outs(n)[i]) = IF i < Len(Outs(n)) THEN Outs(n)[i + 1] ELSE invalid
  BY <1>1, <1>3, OutsOf
<1>6. k \in 1 .. Len(Outs(n)) /\ k \in Nat /\ Len(Copies(n)) = k - 1
  BY <1>2, <1>3, <1>4, <1>5
<1>7. /\ arc \in ArcIDs(tree) /\ arc \in ArcIDs(orig) /\ orig.arcs[arc].source = n
      /\ c = orig.arcs[arc].target /\ c \in NodeIDs(tree)
      /\ nextOut(tree, arc) = IF k < Len(Outs(n)) THEN Outs(n)[k + 1] ELSE invalid
  BY <1>3, <1>5, <1>6
<1>8. nextOut(tree, arc) \in ArcIDs(tree) \union {invalid}
  <2>1. k < Len(Outs(n)) => k + 1 \in 1 .. Len(Outs(n))
    BY <1>5, <1>6
  <2> QED
    BY <1>5, <1>7, <2>1
<1>9. /\ tree.arcs[arc].data = orig.arcs[arc].data
      /\ tree.arcs[arc].data \in Int /\ tree.arcs[arc].data # Moved
  <2>1. k > Len(Copies(n))
    BY <1>6
  <2>2. tree.arcs[arc].data = orig.arcs[arc].data
    BY <1>1, <1>3, <1>6, <2>1 DEF PayloadsLeft, ArcsLeft
  <2>3. orig.arcs[arc].data # Moved
    BY <1>1, <1>7 DEF InCall, Unmoved
  <2>4. tree.arcs[arc] \in Arc(Int)
    BY <1>1, <1>7, TreeFields DEF TypeOK, IsTree
  <2> QED
    BY <2>2, <2>3, <2>4 DEF Arc
<1>10. c \in Reach(orig, root)
  <2>1. orig.arcs[arc].source \in Reach(orig, root)
    BY <1>1, <1>3, <1>7 DEF KnownAreReached
  <2>2. c \in NodeIDs(orig)
    BY <1>1, <1>7, SameGraphLinked DEF InCall
  <2> QED
    BY <1>7, <2>1, <2>2, ReachNext
<1> QED
  BY <1>2, <1>3, <1>6, <1>7, <1>8, <1>9, <1>10

\* S is the sub-tree, or has one node more; v numbers its nodes.
Widens(S, v, c) ==
  /\ IsTree(S, Int) /\ Linked(S) /\ S.arcs = sub.arcs
  /\ \A i \in NodeIDs(sub) : i \in NodeIDs(S) /\ outArcs(S, i) = outArcs(sub, i)
  /\ c \in NodeIDs(tree) /\ v[c] \in NodeIDs(S)
  /\ \A n \in Known : v[n] = visited[n]
  /\ c \notin Known => v[c] \notin NodeIDs(sub) /\ outArcs(S, v[c]) = <<>>

\* The new arc is behind the copies of its source; the other copies are as before.
LEMMA CopyGrows ==
  ASSUME SubInv, pc # "client", NEW S, NEW v, NEW c, Widens(S, v, c),
         NEW p \in Known, NEW d \in Int, d # Moved,
         NEW X, X = addArc(S, visited[p], v[c], d), NEW id, id = Len(sub.arcs) + 1
  PROVE  /\ IsTree(X, Int) /\ Linked(X) /\ NodeIDs(X) = NodeIDs(S)
         /\ \A i \in NodeIDs(S) : X.nodes[i].data = S.nodes[i].data
         /\ \A a \in ArcIDs(X) : X.arcs[a].data # Moved
         /\ \A n \in Known : outArcs(X, v[n]) = IF n = p THEN Append(Copies(n), id) ELSE Copies(n)
         /\ c \notin Known => outArcs(X, v[c]) = <<>>
         /\ \A a \in ArcIDs(sub) : /\ X.arcs[a].target = sub.arcs[a].target
                                   /\ X.arcs[a].data = sub.arcs[a].data
         /\ X.arcs[id].target = v[c] /\ X.arcs[id].data = d
<1>1. /\ IsTree(S, Int) /\ Linked(S) /\ S.arcs = sub.arcs
      /\ \A i \in NodeIDs(sub) : i \in NodeIDs(S) /\ outArcs(S, i) = outArcs(sub, i)
      /\ v[c] \in NodeIDs(S) /\ \A n \in Known : v[n] = visited[n]
      /\ c \notin Known => v[c] \notin NodeIDs(sub) /\ outArcs(S, v[c]) = <<>>
  BY DEF Widens
<1>2. PICK s, t : s = visited[p] /\ t = v[c]
  OBVIOUS
<1>3. /\ s \in NodeIDs(S) /\ t \in NodeIDs(S) /\ s \in NodeIDs(sub)
      /\ X = addArc(S, s, t, d) /\ id = Len(S.arcs) + 1 /\ d \in Int
  BY <1>1, <1>2, CopiesOf
<1>4. /\ IsTree(X, Int) /\ Linked(X) /\ GrownFrom(X, S)
      /\ Len(X.arcs) = id /\ Len(X.nodes) = Len(S.nodes)
      /\ X.arcs[id].target = t /\ X.arcs[id].data = d
      /\ \A a \in ArcIDs(S) : X.arcs[a].data = S.arcs[a].data
      /\ \A i \in NodeIDs(S) : X.nodes[i].data = S.nodes[i].data
  BY ONLY <1>1, <1>3, AddArcKeepsLists
<1>5. /\ ArcIDs(X) = 1 .. id /\ ArcIDs(S) = 1 .. id - 1 /\ id \in Nat \ {0}
      /\ NodeIDs(X) = NodeIDs(S)
      /\ \A i \in NodeIDs(S) :
           outArcs(X, i) = IF i = s THEN Append(outArcs(S, i), id) ELSE outArcs(S, i)
  <2>1. IsTree(S, Int) /\ Linked(S)
    BY <1>1
  <2>2. /\ s \in NodeIDs(S) /\ t \in NodeIDs(S) /\ d \in Int
        /\ X = addArc(S, s, t, d) /\ id = Len(S.arcs) + 1
    BY <1>3
  <2> QED
    BY ONLY <2>1, <2>2, AddArcWalks
<1>6. ArcIDs(sub) = ArcIDs(S)
  BY <1>1 DEF ArcIDs
<1>7. \A a \in ArcIDs(X) : X.arcs[a].data # Moved
  <2>1. \A a \in ArcIDs(S) : S.arcs[a].data # Moved
    BY <1>1, <1>6 DEF SubInv, Unmoved
  <2>2. \A a \in ArcIDs(X) : a \in ArcIDs(S) \/ a = id
    BY <1>5
  <2> QED
    BY <1>4, <2>1, <2>2
<1>8. ASSUME NEW n \in Known
      PROVE  outArcs(X, v[n]) = IF n = p THEN Append(Copies(n), id) ELSE Copies(n)
  <2>1. visited[n] \in NodeIDs(sub) /\ v[n] = visited[n]
    BY <1>1, CopiesOf
  <2>2. outArcs(S, v[n]) = Copies(n) /\ v[n] \in NodeIDs(S)
    BY <1>1, <2>1 DEF Copies
  <2>3. v[n] = s <=> n = p
    BY <1>2, <2>1 DEF SubInv, Numbered
  <2> QED
    BY <1>5, <2>2, <2>3
<1>9. c \notin Known => outArcs(X, v[c]) = <<>>
  BY <1>1, <1>2, <1>3, <1>5
<1>10. \A a \in ArcIDs(sub) : /\ X.arcs[a].target = sub.arcs[a].target
                              /\ X.arcs[a].data = sub.arcs[a].data
  BY <1>1, <1>4, <1>6 DEF GrownFrom
<1> QED
  BY <1>2, <1>4, <1>5, <1>7, <1>8, <1>9, <1>10

Passes(c, S, T) ==
  /\ pc = "for" /\ arc # invalid /\ c = tree.arcs[arc].target
  /\ Widens(S, visited', c)
  /\ sub' = addArc(S, visited[parent], visited'[c], tree.arcs[arc].data)
  /\ IsTree(T, Int) /\ SameGraph(T, tree) /\ T.arcs = tree.arcs
  /\ tree' = takeArc(T, arc) /\ arc' = nextOut(tree, arc)
  /\ root' = root /\ parent' = parent /\ orig' = orig /\ pc' = pc

\* What the two trees are after the pass.
LEMMA PassedTrees ==
  ASSUME SubInv, NEW c, NEW S, NEW T, Passes(c, S, T)
  PROVE  /\ IsTree(tree', Int) /\ Linked(tree') /\ SameGraph(tree', orig)
         /\ NodeIDs(tree') = NodeIDs(tree) /\ ArcIDs(tree') = ArcIDs(tree)
         /\ tree'.nodes = T.nodes
         /\ \A a \in ArcIDs(tree) : a # arc => tree'.arcs[a].data = tree.arcs[a].data
         /\ IsTree(sub', Int) /\ Linked(sub') /\ NodeIDs(sub') = NodeIDs(S)
         /\ \A i \in NodeIDs(S) : sub'.nodes[i].data = S.nodes[i].data
         /\ \A a \in ArcIDs(sub') : sub'.arcs[a].data # Moved
         /\ \A n \in Known : Copies(n)' = IF n = parent THEN Append(Copies(n), Len(sub.arcs) + 1)
                                                        ELSE Copies(n)
         /\ c \notin Known => Copies(c)' = <<>>
         /\ \A a \in ArcIDs(sub) : /\ sub'.arcs[a].target = sub.arcs[a].target
                                   /\ sub'.arcs[a].data = sub.arcs[a].data
         /\ sub'.arcs[Len(sub.arcs) + 1].target = visited'[c]
         /\ sub'.arcs[Len(sub.arcs) + 1].data = tree.arcs[arc].data
<1>1. PICK v, X, Y, d, id : /\ v = visited' /\ X = sub' /\ Y = tree'
                            /\ d = tree.arcs[arc].data /\ id = Len(sub.arcs) + 1
  OBVIOUS
<1>2. /\ pc = "for" /\ arc # invalid /\ c = tree.arcs[arc].target /\ pc # "client"
      /\ Widens(S, v, c) /\ X = addArc(S, visited[parent], v[c], d)
      /\ IsTree(T, Int) /\ SameGraph(T, tree) /\ T.arcs = tree.arcs /\ Y = takeArc(T, arc)
  BY <1>1 DEF Passes
<1>3. parent \in Known /\ arc \in ArcIDs(tree) /\ d \in Int /\ d # Moved
  <2>1. PICK k : k = Len(Copies(parent)) + 1
    OBVIOUS
  <2> QED
    BY <1>1, <1>2, <2>1, ArcPassed
<1>4. /\ IsTree(X, Int) /\ Linked(X) /\ NodeIDs(X) = NodeIDs(S)
      /\ \A i \in NodeIDs(S) : X.nodes[i].data = S.nodes[i].data
      /\ \A a \in ArcIDs(X) : X.arcs[a].data # Moved
      /\ \A n \in Known : outArcs(X, v[n]) = IF n = parent THEN Append(Copies(n), id) ELSE Copies(n)
      /\ c \notin Known => outArcs(X, v[c]) = <<>>
      /\ \A a \in ArcIDs(sub) : /\ X.arcs[a].target = sub.arcs[a].target
                                /\ X.arcs[a].data = sub.arcs[a].data
      /\ X.arcs[id].target = v[c] /\ X.arcs[id].data = d
  <2>1. PICK p : p = parent
    OBVIOUS
  <2>2. p \in Known /\ X = addArc(S, visited[p], v[c], d)
    BY <1>2, <1>3, <2>1
  <2>3. /\ pc # "client" /\ Widens(S, v, c) /\ p \in Known /\ d \in Int /\ d # Moved
        /\ X = addArc(S, visited[p], v[c], d) /\ id = Len(sub.arcs) + 1
    BY <1>1, <1>2, <1>3, <2>2
  <2>4. /\ IsTree(X, Int) /\ Linked(X) /\ NodeIDs(X) = NodeIDs(S)
        /\ \A i \in NodeIDs(S) : X.nodes[i].data = S.nodes[i].data
        /\ \A a \in ArcIDs(X) : X.arcs[a].data # Moved
        /\ \A n \in Known : outArcs(X, v[n]) = IF n = p THEN Append(Copies(n), id) ELSE Copies(n)
        /\ c \notin Known => outArcs(X, v[c]) = <<>>
        /\ \A a \in ArcIDs(sub) : /\ X.arcs[a].target = sub.arcs[a].target
                                  /\ X.arcs[a].data = sub.arcs[a].data
        /\ X.arcs[id].target = v[c] /\ X.arcs[id].data = d
    BY ONLY SubInv, <2>3, CopyGrows
  <2> QED
    BY <2>1, <2>4
<1>5. ArcIDs(T) = ArcIDs(tree) /\ NodeIDs(T) = NodeIDs(tree) /\ SameGraph(T, orig)
  <2>1. SameGraph(tree, orig)
    BY <1>2 DEF SubInv, InCall
  <2> QED
    BY <1>2, <2>1, SameGraphs, SameGraphLinked
<1>6. /\ IsTree(Y, Int) /\ SameGraph(Y, T) /\ Y.nodes = T.nodes
      /\ \A a \in ArcIDs(T) : a # arc => Y.arcs[a].data = T.arcs[a].data
  <2>1. PICK a : a = arc
    OBVIOUS
  <2>2. a \in ArcIDs(T) /\ Y = takeArc(T, a) /\ IsTree(T, Int)
    BY <1>2, <1>3, <1>5, <2>1
  <2>3. /\ IsTree(Y, Int) /\ SameGraph(Y, T) /\ Y.nodes = T.nodes
        /\ \A b \in ArcIDs(T) : b # a => Y.arcs[b].data = T.arcs[b].data
    BY ONLY <2>2, TakeArcWrites
  <2> QED
    BY <2>1, <2>3
<1>7. /\ SameGraph(Y, orig) /\ Linked(Y)
      /\ NodeIDs(Y) = NodeIDs(tree) /\ ArcIDs(Y) = ArcIDs(tree)
  <2>1. SameGraph(Y, orig) /\ Linked(orig)
    BY <1>5, <1>6, SameGraphs DEF SubInv
  <2> QED
    BY <1>5, <1>6, <2>1, SameGraphLinked
<1>8. \A n : Copies(n)' = outArcs(X, v[n])
  BY <1>1 DEF Copies
<1> QED
  BY <1>1, <1>2, <1>4, <1>5, <1>6, <1>7, <1>8

\* What the loop has done after the pass.
LEMMA PassedArc ==
  ASSUME SubInv, NEW c, NEW S, NEW T, Passes(c, S, T), Known' = Known \union {c}
  PROVE  /\ \A n : Outs(n)' = Outs(n)
         /\ CopiesAgree' /\ ArcsLeft' /\ KnownAreReached'
         /\ arc' \in ArcIDs(tree) \union {invalid}
         /\ arc' = IF Len(Copies(parent)') < Len(Outs(parent)')
                   THEN (Outs(parent)')[Len(Copies(parent)') + 1] ELSE invalid
<1>1. PICK k, id : k = Len(Copies(parent)) + 1 /\ id = Len(sub.arcs) + 1
  OBVIOUS
<1>2. /\ pc = "for" /\ arc # invalid /\ c = tree.arcs[arc].target /\ pc # "client"
      /\ arc' = nextOut(tree, arc) /\ root' = root /\ parent' = parent /\ orig' = orig
      /\ \A n \in Known : visited'[n] = visited[n]
      /\ InCall /\ CopiesAgree /\ ArcsLeft /\ KnownAreReached
  BY DEF Passes, Widens, SubInv, PayloadsLeft
<1>3. /\ parent \in Known \ Entries(stack) /\ parent \in NodeIDs(tree)
      /\ k \in 1 .. Len(Outs(parent)) /\ k \in Nat /\ Len(Copies(parent)) = k - 1
      /\ arc = Outs(parent)[k] /\ arc \in ArcIDs(tree)
      /\ c \in NodeIDs(tree) /\ c = orig.arcs[arc].target /\ c \in Reach(orig, root)
      /\ tree.arcs[arc].data = orig.arcs[arc].data
      /\ nextOut(tree, arc) = IF k < Len(Outs(parent)) THEN Outs(parent)[k + 1] ELSE invalid
      /\ nextOut(tree, arc) \in ArcIDs(tree) \union {invalid}
  BY <1>1, <1>2, ArcPassed
<1>4. /\ NodeIDs(tree') = NodeIDs(tree)
      /\ \A a \in ArcIDs(tree) : a # arc => tree'.arcs[a].data = tree.arcs[a].data
      /\ \A n \in Known : Copies(n)' = IF n = parent THEN Append(Copies(n), id) ELSE Copies(n)
      /\ c \notin Known => Copies(c)' = <<>>
      /\ \A a \in ArcIDs(sub) : /\ sub'.arcs[a].target = sub.arcs[a].target
                                /\ sub'.arcs[a].data = sub.arcs[a].data
      /\ sub'.arcs[id].target = visited'[c] /\ sub'.arcs[id].data = tree.arcs[arc].data
  BY <1>1, PassedTrees
<1>5. \A n : Outs(n)' = Outs(n)
  BY <1>2 DEF Outs
<1>6. /\ Copies(parent)' \in Seq(Nat) /\ Len(Copies(parent)') = k
      /\ (Copies(parent)')[k] = id
      /\ \A i \in 1 .. k - 1 : (Copies(parent)')[i] = Copies(parent)[i]
  <2>1. PICK q : q = Copies(parent)
    OBVIOUS
  <2>2. q \in Seq(Nat) /\ Len(q) = k - 1
    <3>1. PICK p : p = parent
      OBVIOUS
    <3>2. Copies(p) \in Seq(Nat)
      BY <1>2, <1>3, <3>1, CopiesOf
    <3> QED
      BY <1>3, <2>1, <3>1, <3>2
  <2>3. Copies(parent)' = Append(q, id)
    BY <1>2, <1>3, <1>4, <2>1
  <2>4. id \in Nat
    BY <1>1, TreeFields DEF SubInv, TypeOK, IsTree
  <2>5. /\ Append(q, id) \in Seq(Nat) /\ Len(Append(q, id)) = k /\ Append(q, id)[k] = id
        /\ \A i \in 1 .. k - 1 : Append(q, id)[i] = q[i]
    BY <1>3, <2>2, <2>4
  <2> QED
    BY <2>1, <2>3, <2>5
<1>7. CopiesAgree'
  <2> SUFFICES ASSUME NEW n \in Known \union {c}
               PROVE  /\ Len(Copies(n)') <= Len(Outs(n))
                      /\ \A i \in 1 .. Len(Copies(n)') :
                           /\ sub'.arcs[(Copies(n)')[i]].target = visited'[orig.arcs[Outs(n)[i]].target]
                           /\ sub'.arcs[(Copies(n)')[i]].data = orig.arcs[Outs(n)[i]].data
    BY <1>2, <1>5 DEF CopiesAgree
  <2>1. Len(Outs(n)) \in Nat
    <3>1. n \in NodeIDs(tree)
      BY <1>3 DEF Known
    <3> QED
      BY <1>2, <3>1, OutsOf
  <2>2. CASE n \notin Known
    <3>1. Copies(n)' = <<>>
      BY <1>4, <2>2
    <3> QED
      BY <2>1, <3>1
  <2>3. ASSUME n \in Known, NEW i \in 1 .. Len(Copies(n))
        PROVE  /\ sub'.arcs[Copies(n)[i]].target = visited'[orig.arcs[Outs(n)[i]].target]
               /\ sub'.arcs[Copies(n)[i]].data = orig.arcs[Outs(n)[i]].data
    <3>1. PICK t : t = orig.arcs[Outs(n)[i]].target
      OBVIOUS
    <3>2. /\ sub.arcs[Copies(n)[i]].target = visited[t]
          /\ sub.arcs[Copies(n)[i]].data = orig.arcs[Outs(n)[i]].data
      BY <1>2, <2>3, <3>1 DEF CopiesAgree
    <3>3. Copies(n)[i] \in ArcIDs(sub) /\ visited[t] \in NodeIDs(sub) /\ Len(Copies(n)) \in Nat
      BY <1>2, <2>3, <3>2, CopiesOf
    <3>4. t \in NodeIDs(tree)
      <4>1. Len(Copies(n)) <= Len(Outs(n))
        BY <1>2, <2>3 DEF CopiesAgree
      <4>2. i \in 1 .. Len(Outs(n)) /\ n \in NodeIDs(tree)
        BY <2>1, <2>3, <3>3, <4>1 DEF Known
      <4> QED
        BY <1>2, <3>1, <4>2, OutsOf
    <3>5. t \in Known
      BY <3>3, <3>4 DEF Known, NodeIDs, invalid
    <3> QED
      BY <1>2, <1>4, <3>1, <3>2, <3>3, <3>5
  <2>4. CASE n \in Known /\ n # parent
    <3>1. Copies(n)' = Copies(n)
      BY <1>4, <2>4
    <3> QED
      BY <1>2, <2>3, <2>4, <3>1 DEF CopiesAgree
  <2>5. CASE n = parent
    <3>1. /\ Len(Copies(n)') = k /\ k <= Len(Outs(n)) /\ (Copies(n)')[k] = id
          /\ \A i \in 1 .. k - 1 : (Copies(n)')[i] = Copies(n)[i]
      BY <1>2, <1>3, <1>6, <2>1, <2>5
    <3>2. ASSUME NEW i \in 1 .. k
          PROVE  /\ sub'.arcs[(Copies(n)')[i]].target = visited'[orig.arcs[Outs(n)[i]].target]
                 /\ sub'.arcs[(Copies(n)')[i]].data = orig.arcs[Outs(n)[i]].data
      <4>1. CASE i = k
        BY <1>3, <1>4, <2>5, <3>1, <4>1
      <4>2. CASE i # k
        <5>1. i \in 1 .. k - 1 /\ i \in 1 .. Len(Copies(n)) /\ n \in Known
          BY <1>3, <2>5, <4>2
        <5>2. (Copies(n)')[i] = Copies(n)[i]
          BY <3>1, <5>1
        <5> QED
          BY <2>3, <5>1, <5>2
      <4> QED
        BY <4>1, <4>2
    <3> QED
      BY <3>1, <3>2
  <2> QED
    BY <2>2, <2>4, <2>5
<1>8. ArcsLeft'
  <2> SUFFICES ASSUME NEW n \in NodeIDs(tree), NEW i \in 1 .. Len(Outs(n)),
                      n \notin Known \union {c} \/ i > Len(Copies(n)')
               PROVE  tree'.arcs[Outs(n)[i]].data = orig.arcs[Outs(n)[i]].data
    BY <1>2, <1>4, <1>5 DEF ArcsLeft
  <2>1. /\ Len(Outs(n)) \in Nat /\ Outs(n)[i] \in ArcIDs(tree)
        /\ orig.arcs[Outs(n)[i]].source = n
        /\ \A j \in 1 .. Len(Outs(n)) : Outs(n)[j] = Outs(n)[i] => j = i
    BY <1>2, OutsOf
  <2>2. n \notin Known \/ i > Len(Copies(n))
    <3>1. CASE n = parent
      <4>1. i > k
        BY <1>2, <1>3, <1>6, <3>1
      <4> QED
        BY <1>3, <2>1, <3>1, <4>1
    <3>2. CASE n # parent /\ n \in Known
      BY <1>4, <3>2
    <3> QED
      BY <3>1, <3>2
  <2>3. tree.arcs[Outs(n)[i]].data = orig.arcs[Outs(n)[i]].data
    BY <1>2, <2>2 DEF ArcsLeft
  <2>4. Outs(n)[i] # arc
    <3> SUFFICES ASSUME Outs(n)[i] = arc PROVE FALSE
      OBVIOUS
    <3>1. orig.arcs[arc].source = parent
      BY <1>2, <1>3, OutsOf
    <3>2. n = parent
      BY <2>1, <3>1
    <3>3. k = i
      BY <1>3, <2>1, <3>2
    <3> QED
      BY <1>2, <1>3, <1>6, <3>2, <3>3
  <2> QED
    BY <1>4, <2>1, <2>3, <2>4
<1>9. KnownAreReached'
  BY <1>2, <1>3 DEF KnownAreReached
<1> QED
  BY <1>2, <1>3, <1>5, <1>6, <1>7, <1>8, <1>9

\* An arc to a node that has its copy.
LEMMA SubLater == SubInv /\ LaterVisit => SubInv'
<1> SUFFICES ASSUME SubInv, LaterVisit PROVE SubInv'
  OBVIOUS
<1>1. PICK c : c = tree.arcs[arc].target
  OBVIOUS
<1>2. /\ pc = "for" /\ arc # invalid /\ visited[c] # invalid
      /\ sub' = addArc(sub, visited[parent], visited[c], tree.arcs[arc].data)
      /\ tree' = takeArc(tree, arc) /\ arc' = nextOut(tree, arc)
      /\ visited' = visited /\ stack' = stack
      /\ root' = root /\ parent' = parent /\ orig' = orig /\ pc' = pc
  BY <1>1 DEF LaterVisit, isNew, Child
<1>3. /\ TypeOK /\ InCall /\ Numbered /\ NodesLeft /\ WorkDone /\ pc # "client"
      /\ Linked(sub) /\ Linked(orig) /\ Unmoved(sub) /\ SameGraph(tree, orig)
      /\ IsTree(tree, Int) /\ IsTree(sub, Int) /\ IsTree(orig, Int)
  BY <1>2 DEF SubInv, PayloadsLeft, InCall, TypeOK
<1>4. parent \in Known \ Entries(stack) /\ parent \in NodeIDs(tree) /\ c \in NodeIDs(tree)
  <2>1. PICK k : k = Len(Copies(parent)) + 1
    OBVIOUS
  <2> QED
    BY <1>1, <1>2, <2>1, ArcPassed
<1>5. c \in Known /\ visited[c] \in NodeIDs(sub)
  BY <1>2, <1>3, <1>4 DEF Known, InCall
<1>6. Passes(c, sub, tree)
  BY <1>1, <1>2, <1>3, <1>4, <1>5, SameGraphs DEF Passes, Widens
<1>7. /\ IsTree(tree', Int) /\ Linked(tree') /\ SameGraph(tree', orig)
      /\ NodeIDs(tree') = NodeIDs(tree) /\ ArcIDs(tree') = ArcIDs(tree)
      /\ tree'.nodes = tree.nodes
      /\ IsTree(sub', Int) /\ Linked(sub') /\ NodeIDs(sub') = NodeIDs(sub)
      /\ \A i \in NodeIDs(sub) : sub'.nodes[i].data = sub.nodes[i].data
      /\ \A a \in ArcIDs(sub') : sub'.arcs[a].data # Moved
      /\ \A n \in Known \ {parent} : Copies(n)' = Copies(n)
  BY <1>6, PassedTrees
<1>8. Known' = Known /\ Known' = Known \union {c}
  BY <1>2, <1>5, <1>7 DEF Known
<1>9. /\ \A n : Outs(n)' = Outs(n)
      /\ CopiesAgree' /\ ArcsLeft' /\ KnownAreReached'
      /\ arc' \in ArcIDs(tree) \union {invalid}
      /\ arc' = IF Len(Copies(parent)') < Len(Outs(parent)')
                THEN (Outs(parent)')[Len(Copies(parent)') + 1] ELSE invalid
  BY <1>6, <1>8, PassedArc
<1>10. TypeOK'
  BY <1>2, <1>3, <1>7, <1>9 DEF TypeOK, Running
<1>11. InCall'
  BY <1>2, <1>3, <1>7, <1>8 DEF InCall
<1>12. Numbered'
  <2>1. \A n \in Known : visited[n] \in NodeIDs(sub)
    BY <1>3 DEF Known, InCall
  <2>2. \A n \in Known : sub'.nodes[visited[n]].data = orig.nodes[n].data
    BY <1>3, <1>7, <2>1 DEF Numbered
  <2> QED
    BY <1>2, <1>3, <1>7, <1>8, <2>2 DEF Numbered
<1>13. NodesLeft'
  BY <1>2, <1>3, <1>7, <1>8 DEF NodesLeft
<1>14. WorkDone'
  BY <1>2, <1>3, <1>4, <1>7, <1>8, <1>9 DEF WorkDone, InCall
<1>15. Unmoved(sub')
  BY <1>3, <1>7 DEF Unmoved
<1> QED
  BY <1>2, <1>3, <1>7, <1>9, <1>10, <1>11, <1>12, <1>13, <1>14, <1>15 DEF SubInv, PayloadsLeft

\* The tree with a node for a child that is met for the first time.
LEMMA NodeGiven ==
  ASSUME SubInv, pc # "client", NEW c \in NodeIDs(tree) \ Known,
         NEW m, m = Len(sub.nodes) + 1, NEW S, S = addNode(sub, tree.nodes[c].data),
         NEW T, T = takeNode(tree, c),
         NEW v, v[c] = m, \A n \in NodeIDs(tree) : n # c => v[n] = visited[n]
  PROVE  /\ Widens(S, v, c)
         /\ IsTree(T, Int) /\ SameGraph(T, tree) /\ T.arcs = tree.arcs
         /\ \A n \in NodeIDs(tree) : n # c => T.nodes[n].data = tree.nodes[n].data
         /\ NodeIDs(S) = NodeIDs(sub) \union {m} /\ m \notin NodeIDs(sub)
         /\ \A n \in NodeIDs(tree) : v[n] # invalid <=> n \in Known \union {c}
         /\ S.nodes[m].data = orig.nodes[c].data /\ orig.nodes[c].data # Moved
         /\ \A i \in NodeIDs(sub) : S.nodes[i].data = sub.nodes[i].data
<1>1. /\ IsTree(tree, Int) /\ IsTree(sub, Int) /\ Linked(sub)
      /\ InCall /\ NodesLeft
  BY DEF SubInv, TypeOK, PayloadsLeft
<1>2. PICK d : d = tree.nodes[c].data
  OBVIOUS
<1>3. d \in Int /\ d = orig.nodes[c].data /\ d # Moved
  <2>1. tree.nodes[c] \in Node(Int)
    BY <1>1, TreeFields DEF IsTree
  <2>2. d = orig.nodes[c].data
    BY <1>1, <1>2 DEF NodesLeft
  <2>3. NodeIDs(tree) = NodeIDs(orig)
    BY <1>1, SameGraphLinked DEF InCall
  <2> QED
    BY <1>1, <1>2, <2>1, <2>2, <2>3 DEF Node, InCall, Unmoved
<1>4. /\ IsTree(S, Int) /\ Linked(S) /\ S.arcs = sub.arcs /\ S.nodes[m] = NewNode(d)
      /\ \A i \in NodeIDs(sub) : S.nodes[i] = sub.nodes[i]
  BY <1>1, <1>2, <1>3, AddNodeKeepsLists
<1>5. /\ NodeIDs(S) = NodeIDs(sub) \union {m} /\ m \notin NodeIDs(sub) /\ m \in Nat \ {0}
      /\ \A i \in NodeIDs(sub) : outArcs(S, i) = outArcs(sub, i)
      /\ outArcs(S, m) = <<>>
  <2>1. S = addNode(sub, d)
    BY <1>2
  <2> QED
    BY ONLY <1>1, <1>3, <2>1, m = Len(sub.nodes) + 1, AddNodeWalks
<1>6. S.nodes[m].data = d
  BY <1>4 DEF NewNode
<1>7. /\ IsTree(T, Int) /\ SameGraph(T, tree) /\ T.arcs = tree.arcs
      /\ \A n \in NodeIDs(tree) : n # c => T.nodes[n].data = tree.nodes[n].data
  BY <1>1, TakeNodeWrites
<1>8. visited \in [NodeIDs(tree) -> NodeIDs(sub) \union {invalid}]
  BY <1>1 DEF InCall
<1>9. \A n \in NodeIDs(tree) : v[n] # invalid <=> n \in Known \union {c}
  BY <1>5, <1>8 DEF Known, invalid
<1>10. Widens(S, v, c)
  BY <1>4, <1>5, <1>8 DEF Widens, Known
<1> QED
  BY <1>3, <1>4, <1>5, <1>6, <1>7, <1>9, <1>10

\* An arc to a node that gets its copy.
LEMMA SubFirst == SubInv /\ FirstVisit => SubInv'
<1> SUFFICES ASSUME SubInv, FirstVisit PROVE SubInv'
  OBVIOUS
<1>1. PICK c, m, S, T : /\ c = tree.arcs[arc].target /\ m = Len(sub.nodes) + 1
                        /\ S = addNode(sub, tree.nodes[c].data) /\ T = takeNode(tree, c)
  OBVIOUS
<1>2. /\ pc = "for" /\ arc # invalid /\ visited[c] = invalid
      /\ sub' = addArc(S, visited[parent], m, tree.arcs[arc].data)
      /\ tree' = takeArc(T, arc) /\ arc' = nextOut(tree, arc)
      /\ visited' = [visited EXCEPT ![c] = m] /\ stack' = Append(stack, c)
      /\ root' = root /\ parent' = parent /\ orig' = orig /\ pc' = pc
  BY <1>1 DEF FirstVisit, isNew, Child, nextNodeID
<1>3. /\ TypeOK /\ InCall /\ Numbered /\ NodesLeft /\ WorkDone /\ pc # "client"
      /\ Linked(orig) /\ IsTree(orig, Int) /\ Unmoved(sub)
  BY <1>2 DEF SubInv, PayloadsLeft, TypeOK
<1>4. parent \in Known \ Entries(stack) /\ parent \in NodeIDs(tree) /\ c \in NodeIDs(tree)
  <2>1. PICK k : k = Len(Copies(parent)) + 1
    OBVIOUS
  <2> QED
    BY <1>1, <1>2, <2>1, ArcPassed
<1>5. c \notin Known
  BY <1>2 DEF Known
<1>6. /\ Widens(S, visited', c)
      /\ IsTree(T, Int) /\ SameGraph(T, tree) /\ T.arcs = tree.arcs
      /\ \A n \in NodeIDs(tree) : n # c => T.nodes[n].data = tree.nodes[n].data
      /\ NodeIDs(S) = NodeIDs(sub) \union {m} /\ m \notin NodeIDs(sub)
      /\ visited' \in [NodeIDs(tree) -> NodeIDs(S) \union {invalid}] /\ visited'[c] = m
      /\ \A n \in NodeIDs(tree) : n # c => visited'[n] = visited[n]
      /\ \A n \in NodeIDs(tree) : visited'[n] # invalid <=> n \in Known \union {c}
      /\ S.nodes[m].data = orig.nodes[c].data /\ orig.nodes[c].data # Moved
      /\ \A i \in NodeIDs(sub) : S.nodes[i].data = sub.nodes[i].data
  <2>1. PICK v : v = visited'
    OBVIOUS
  <2>2. /\ pc # "client" /\ c \in NodeIDs(tree) \ Known
        /\ m = Len(sub.nodes) + 1 /\ S = addNode(sub, tree.nodes[c].data)
        /\ T = takeNode(tree, c)
        /\ v[c] = m /\ \A n \in NodeIDs(tree) : n # c => v[n] = visited[n]
    BY <1>1, <1>2, <1>3, <1>4, <1>5, <2>1 DEF InCall
  <2>3. /\ Widens(S, v, c)
        /\ IsTree(T, Int) /\ SameGraph(T, tree) /\ T.arcs = tree.arcs
        /\ \A n \in NodeIDs(tree) : n # c => T.nodes[n].data = tree.nodes[n].data
        /\ NodeIDs(S) = NodeIDs(sub) \union {m} /\ m \notin NodeIDs(sub)
        /\ \A n \in NodeIDs(tree) : v[n] # invalid <=> n \in Known \union {c}
        /\ S.nodes[m].data = orig.nodes[c].data /\ orig.nodes[c].data # Moved
        /\ \A i \in NodeIDs(sub) : S.nodes[i].data = sub.nodes[i].data
    BY ONLY SubInv, <2>2, NodeGiven
  <2>4. visited' \in [NodeIDs(tree) -> NodeIDs(S) \union {invalid}]
    BY <1>2, <1>3, <1>4, <2>3 DEF InCall
  <2> QED
    BY <2>1, <2>2, <2>3, <2>4
<1>7. Passes(c, S, T)
  BY <1>1, <1>2, <1>6 DEF Passes
<1>8. /\ IsTree(tree', Int) /\ Linked(tree') /\ SameGraph(tree', orig)
      /\ NodeIDs(tree') = NodeIDs(tree) /\ ArcIDs(tree') = ArcIDs(tree)
      /\ tree'.nodes = T.nodes
      /\ IsTree(sub', Int) /\ Linked(sub') /\ NodeIDs(sub') = NodeIDs(S)
      /\ \A i \in NodeIDs(S) : sub'.nodes[i].data = S.nodes[i].data
      /\ \A a \in ArcIDs(sub') : sub'.arcs[a].data # Moved
      /\ \A n \in Known \ {parent} : Copies(n)' = Copies(n)
      /\ Copies(c)' = <<>>
  BY <1>5, <1>7, PassedTrees
<1>9. Known' = Known \union {c}
  BY <1>4, <1>6, <1>8 DEF Known
<1>10. /\ \A n : Outs(n)' = Outs(n)
       /\ CopiesAgree' /\ ArcsLeft' /\ KnownAreReached'
       /\ arc' \in ArcIDs(tree) \union {invalid}
       /\ arc' = IF Len(Copies(parent)') < Len(Outs(parent)')
                 THEN (Outs(parent)')[Len(Copies(parent)') + 1] ELSE invalid
  BY <1>7, <1>9, PassedArc
<1>11. /\ stack' \in Seq(NodeIDs(tree)) /\ NoneTwice(stack')
       /\ Entries(stack') = Entries(stack) \union {c} /\ c \notin Entries(stack)
  <2>1. PICK N : N = NodeIDs(tree)
    OBVIOUS
  <2>2. stack \in Seq(N) /\ c \in N /\ stack' = Append(stack, c)
    BY <1>2, <1>3, <1>4, <2>1 DEF InCall
  <2>3. Extends(stack', stack, c, N)
    BY ONLY <2>2, Pushed
  <2>4. c \notin Entries(stack)
    BY <1>3, <1>5 DEF InCall
  <2> QED
    BY <1>3, <2>1, <2>3, <2>4 DEF Extends, InCall
<1>12. TypeOK'
  <2>1. visited'[parent] # invalid
    BY <1>4, <1>5, <1>6 DEF Known
  <2> QED
    BY <1>2, <1>3, <1>4, <1>6, <1>8, <1>10, <1>11, <2>1 DEF TypeOK, Running, InCall
<1>13. InCall'
  BY <1>2, <1>3, <1>6, <1>8, <1>9, <1>11 DEF InCall
<1>14. Numbered'
  <2>1. \A n \in Known : visited'[n] = visited[n] /\ visited[n] \in NodeIDs(sub)
    BY <1>3, <1>5, <1>6 DEF Known, InCall
  <2>2. visited'[root] = root_node /\ root' = root
    BY <1>2, <1>3, <1>5, <2>1 DEF Numbered, InCall, Known, root_node, invalid
  <2>3. \A n1, n2 \in Known' : visited'[n1] = visited'[n2] => n1 = n2
    BY <1>3, <1>6, <1>9, <2>1 DEF Numbered
  <2>4. \A i \in NodeIDs(sub') : \E n \in Known' : visited'[n] = i
    BY <1>3, <1>6, <1>8, <1>9, <2>1 DEF Numbered
  <2>5. \A n \in Known' : sub'.nodes[visited'[n]].data = orig.nodes[n].data
    BY <1>3, <1>6, <1>8, <1>9, <2>1 DEF Numbered
  <2> QED
    BY <1>2, <2>2, <2>3, <2>4, <2>5 DEF Numbered
<1>15. NodesLeft'
  BY <1>2, <1>3, <1>6, <1>8, <1>9 DEF NodesLeft
<1>16. WorkDone'
  <2>1. /\ parent' = parent /\ pc' = "for" /\ parent # c
        /\ Known' \ Entries(stack') = Known \ Entries(stack)
    BY <1>2, <1>4, <1>5, <1>9, <1>11
  <2>2. \A n \in Entries(stack') : Copies(n)' = <<>>
    BY <1>3, <1>4, <1>8, <1>11 DEF WorkDone, InCall
  <2> QED
    BY <1>2, <1>3, <1>4, <1>8, <1>10, <2>1, <2>2 DEF WorkDone
<1>17. Unmoved(sub')
  <2>1. \A i \in NodeIDs(sub) : sub.nodes[i].data # Moved
    BY <1>3 DEF Unmoved
  <2> QED
    BY <1>6, <1>8, <2>1 DEF Unmoved
<1> QED
  BY <1>2, <1>3, <1>8, <1>10, <1>12, <1>13, <1>14, <1>15, <1>16, <1>17 DEF SubInv, PayloadsLeft

---------------------------------------------------------------------------
\* The end of the for-loop and the end of the call change the place only.
LEMMA SubEnds == SubInv /\ (EndFor \/ Return) => SubInv'
<1> SUFFICES ASSUME SubInv, EndFor \/ Return PROVE SubInv'
  OBVIOUS
<1>1. /\ tree' = tree /\ sub' = sub /\ root' = root /\ visited' = visited /\ stack' = stack
      /\ parent' = parent /\ arc' = arc /\ orig' = orig /\ pc # "client"
      /\ \/ pc = "for" /\ arc = invalid /\ pc' = "while"
         \/ pc = "while" /\ stack = <<>> /\ pc' = "returned"
  BY DEF EndFor, Return, loopVars
<1>2. Known' = Known /\ \A n : Copies(n)' = Copies(n) /\ Outs(n)' = Outs(n)
  BY <1>1 DEF Known, Copies, Outs
<1>3. TypeOK' /\ InCall'
  BY <1>1, <1>2 DEF SubInv, TypeOK, Running, InCall
<1>4. Numbered' /\ KnownAreReached'
  BY <1>1, <1>2 DEF SubInv, Numbered, KnownAreReached
<1>5. PayloadsLeft' /\ CopiesAgree'
  BY <1>1, <1>2 DEF SubInv, PayloadsLeft, NodesLeft, ArcsLeft, CopiesAgree
<1>6. WorkDone'
  <2>1. WorkDone /\ CopiesAgree
    BY <1>1 DEF SubInv
  <2>2. ASSUME pc = "for", arc = invalid PROVE Len(Copies(parent)) = Len(Outs(parent))
    <3>1. PICK n : n = parent
      OBVIOUS
    <3>2. n \in Known /\ n \in NodeIDs(tree) /\ Len(Copies(n)) <= Len(Outs(n))
      BY <2>1, <2>2, <3>1 DEF WorkDone, CopiesAgree, Known
    <3>3. Len(Copies(n)) \in Nat
      BY <1>1, <3>2, CopiesOf
    <3>4. Len(Outs(n)) \in Nat /\ \A i \in 1 .. Len(Outs(n)) : Outs(n)[i] \in ArcIDs(tree)
      BY <1>1, <3>2, OutsOf
    <3>5. SUFFICES ASSUME Len(Copies(n)) < Len(Outs(n)) PROVE FALSE
      BY <3>1, <3>2, <3>3, <3>4
    <3>6. arc = Outs(n)[Len(Copies(n)) + 1] /\ Len(Copies(n)) + 1 \in 1 .. Len(Outs(n))
      BY <2>1, <2>2, <3>1, <3>3, <3>4, <3>5 DEF WorkDone
    <3>7. arc \in ArcIDs(tree)
      BY <3>4, <3>6
    <3> QED
      BY <2>2, <3>7 DEF ArcIDs, invalid
  <2> QED
    BY <1>1, <1>2, <2>1, <2>2 DEF WorkDone
<1>7. Linked(orig') /\ Linked(tree') /\ Linked(sub') /\ Unmoved(sub')
  BY <1>1 DEF SubInv
<1> QED
  BY <1>1, <1>3, <1>4, <1>5, <1>6, <1>7 DEF SubInv

\* The invariant reads nothing but the variables.
LEMMA SubStutters == SubInv /\ UNCHANGED vars => SubInv'
<1> SUFFICES ASSUME SubInv, UNCHANGED vars PROVE SubInv'
  OBVIOUS
<1>1. /\ tree' = tree /\ sub' = sub /\ root' = root /\ visited' = visited /\ stack' = stack
      /\ parent' = parent /\ arc' = arc /\ orig' = orig /\ pc' = pc
  BY DEF vars, loopVars
<1>2. Known' = Known /\ \A n : Copies(n)' = Copies(n) /\ Outs(n)' = Outs(n)
  BY <1>1 DEF Known, Copies, Outs
<1>3. TypeOK' /\ (pc # "client" => InCall')
  BY <1>1, <1>2 DEF SubInv, TypeOK, Running, InCall
<1>4. pc # "client" => Numbered' /\ KnownAreReached'
  BY <1>1, <1>2 DEF SubInv, Numbered, KnownAreReached
<1>5. pc # "client" => PayloadsLeft' /\ CopiesAgree'
  BY <1>1, <1>2 DEF SubInv, PayloadsLeft, NodesLeft, ArcsLeft, CopiesAgree
<1>6. pc # "client" => WorkDone'
  BY <1>1, <1>2 DEF SubInv, WorkDone
<1>7. /\ Linked(orig') /\ Linked(tree') /\ Linked(sub') /\ Unmoved(sub')
      /\ pc = "client" => Unmoved(tree')
  BY <1>1 DEF SubInv
<1> QED
  BY <1>1, <1>3, <1>4, <1>5, <1>6, <1>7 DEF SubInv

\* Every step keeps the invariant.
LEMMA SubStep == SubInv /\ [Next]_vars => SubInv'
BY SubClient, SubCall, SubPop, SubFirst, SubLater, SubEnds, SubStutters
DEF Next, MakeSubTree

\* No step of the client or of makeSubTree breaks the invariant.
THEOREM SubInvariant == Spec => []SubInv
BY SubInit, SubStep, PTL DEF Spec

---------------------------------------------------------------------------
\* The invariant of the loops is part of it.
LEMMA SubLoop == SubInv => LoopInv
<1> SUFFICES ASSUME SubInv PROVE LoopInv
  OBVIOUS
<1>1. VisitedNumbers
  <2> SUFFICES ASSUME Running PROVE VisitedNumbers
    BY DEF VisitedNumbers
  <2>1. Numbered /\ Known = {n \in NodeIDs(tree) : visited[n] # invalid}
    BY DEF Running, SubInv, Known
  <2>2. \A n \in NodeIDs(tree) : \A m \in NodeIDs(tree) :
          visited[n] # invalid /\ visited[m] = visited[n] => m = n
    BY <2>1 DEF Numbered
  <2> QED
    BY <2>1, <2>2 DEF Numbered, VisitedNumbers
<1>2. WorkLeft
  <2> SUFFICES ASSUME pc = "while" PROVE WorkLeft
    BY DEF WorkLeft
  <2>1. InCall /\ WorkDone /\ pc # "client"
    BY DEF SubInv
  <2>2. \A i, j \in 1 .. Len(stack) : stack[i] = stack[j] => i = j
    BY <2>1 DEF InCall, NoneTwice
  <2>3. ASSUME NEW i \in 1 .. Len(stack)
        PROVE  visited[stack[i]] # invalid /\ isLeaf(sub, visited[stack[i]])
    <3>1. PICK n : n = stack[i]
      OBVIOUS
    <3>2. n \in Known /\ Copies(n) = <<>>
      BY <2>1, <3>1 DEF InCall, WorkDone, Entries
    <3>3. outArcNum(sub, visited[n]) = 0
      BY <2>1, <3>2, CopiesOf
    <3> QED
      BY <3>1, <3>2, <3>3 DEF Known, isLeaf, outArcNum
  <2>4. ASSUME NEW n \in NodeIDs(tree), visited[n] # invalid,
               \A i \in 1 .. Len(stack) : stack[i] # n
        PROVE  outArcNum(sub, visited[n]) = outArcNum(orig, n)
    <3>1. n \in Known \ Entries(stack)
      BY <2>4 DEF Known, Entries
    <3>2. Len(Copies(n)) = Len(Outs(n))
      BY <2>1, <3>1 DEF WorkDone
    <3>3. Len(Copies(n)) = outArcNum(sub, visited[n]) /\ Len(Outs(n)) = outArcNum(orig, n)
      BY <2>1, <3>1, CopiesOf, OutsOf
    <3> QED
      BY <3>2, <3>3
  <2> QED
    BY <2>2, <2>3, <2>4 DEF WorkLeft
<1> QED
  BY <1>1, <1>2 DEF SubInv, LoopInv

\* When the call returns, what is known is closed under the arcs.
LEMMA SubResult == SubInv => ResultExact
<1> SUFFICES ASSUME SubInv, pc = "returned" PROVE ResultExact
  BY DEF ResultExact
<1>1. /\ InCall /\ Numbered /\ WorkDone /\ CopiesAgree /\ KnownAreReached /\ pc # "client"
      /\ stack = <<>> /\ Entries(stack) = {}
  BY DEF SubInv, InCall, Entries
<1>2. ArcIDs(tree) = ArcIDs(orig) /\ NodeIDs(tree) = NodeIDs(orig)
  BY <1>1, SameGraphLinked DEF InCall
<1>3. ASSUME NEW n \in Known
      PROVE  /\ Len(Copies(n)) = Len(Outs(n))
             /\ \A i \in 1 .. Len(Outs(n)) :
                  /\ sub.arcs[Copies(n)[i]].target = visited[orig.arcs[Outs(n)[i]].target]
                  /\ sub.arcs[Copies(n)[i]].data = orig.arcs[Outs(n)[i]].data
                  /\ orig.arcs[Outs(n)[i]].target \in Known
  <2>1. Len(Copies(n)) = Len(Outs(n)) /\ n \in NodeIDs(tree)
    BY <1>1 DEF WorkDone, Known
  <2>2. ASSUME NEW i \in 1 .. Len(Outs(n))
        PROVE  /\ sub.arcs[Copies(n)[i]].target = visited[orig.arcs[Outs(n)[i]].target]
               /\ sub.arcs[Copies(n)[i]].data = orig.arcs[Outs(n)[i]].data
               /\ orig.arcs[Outs(n)[i]].target \in Known
    <3>1. PICK t : t = orig.arcs[Outs(n)[i]].target
      OBVIOUS
    <3>2. /\ sub.arcs[Copies(n)[i]].target = visited[t]
          /\ sub.arcs[Copies(n)[i]].data = orig.arcs[Outs(n)[i]].data
      BY <1>1, <2>1, <3>1 DEF CopiesAgree
    <3>3. visited[t] \in NodeIDs(sub)
      BY <1>1, <2>1, <3>2, CopiesOf
    <3>4. t \in NodeIDs(tree)
      BY <1>1, <2>1, <3>1, OutsOf
    <3>5. t \in Known
      BY <3>3, <3>4 DEF Known, NodeIDs, invalid
    <3> QED
      BY <3>1, <3>2, <3>5
  <2> QED
    BY <2>1, <2>2
<1>4. Closed(orig, Known)
  <2> SUFFICES ASSUME NEW a \in ArcIDs(orig), orig.arcs[a].source \in Known
               PROVE  orig.arcs[a].target \in Known
    BY DEF Closed
  <2>1. PICK n : n = orig.arcs[a].source
    OBVIOUS
  <2>2. n \in Known /\ n \in NodeIDs(tree)
    BY <2>1 DEF Known
  <2>3. PICK i \in 1 .. Len(Outs(n)) : Outs(n)[i] = a
    BY <1>1, <2>1, <2>2, OutsOf
  <2> QED
    BY <1>3, <2>2, <2>3
<1>5. Known = Reach(orig, root)
  <2>1. Known \subseteq NodeIDs(orig) /\ root \in Known
    BY <1>1, <1>2 DEF Known, InCall, Numbered, root_node, invalid
  <2>2. Reach(orig, root) \subseteq Known
    BY <1>4, <2>1 DEF Reach
  <2> QED
    BY <1>1, <2>2 DEF KnownAreReached
<1> QED
  BY <1>3, <1>5 DEF ResultExact, Known, Copies, Outs

\* At every step of makeSubTree the lists of both trees are exact, visited numbers
\* the nodes copied so far, and a node that is known but not copied is on the
\* stack, once.
THEOREM SubLoopInv == Spec => []LoopInv
BY SubInvariant, SubLoop, PTL

\* No element of the sub-tree ever gets a payload that was moved out before.
THEOREM SubMovedOnce == Spec => []MovedOnce
<1>1. SubInv => MovedOnce
  BY DEF SubInv, Unmoved, MovedOnce
<1> QED
  BY <1>1, SubInvariant, PTL

\* The tree makeSubTree returns is the part below the new root: the same nodes,
\* and at each the same out-arcs in the same order with the same payloads.
THEOREM SubResultExact == Spec => []ResultExact
BY SubInvariant, SubResult, PTL

===========================================================================
