-------------------------- MODULE HashTreeProofs --------------------------
(***************************************************************************)
(* The transposition table of fsth stays right for trees of any size, any  *)
(* hashes and payloads: exact until makeSubTree is called, and after that  *)
(* it still names nodes that exist, each once.                             *)
(*                                                                         *)
(* The hash table that holds it is, between any two steps of an operation, *)
(* made of whole chains, whatever the hash function, the keys, the jumps   *)
(* and the sizes are, and between any two calls it is the map that the     *)
(* calls so far describe.                                                  *)
(***************************************************************************)
EXTENDS HashTree, TranspositionTable, FlatTreeTheorems

\* The table trans names some of the nodes 1 .. k, each once.
NamesOnce(trans, k) ==
  /\ trans \in [DOMAIN trans -> 1 .. k] /\ DOMAIN trans \subseteq Int
  /\ \A g, h \in DOMAIN trans : trans[g] = trans[h] => g = h

\* It names nodes of T, each once, and has the root.
NamesNodes(trans, T) ==
  NamesOnce(trans, Len(T.nodes)) /\ contains(trans, RootHash) = root_node

Tables == UNION {[S -> Nat] : S \in SUBSET Int}

\* A tree with its table.
Hashed(S) ==
  /\ S \in [tree : TreeValue(Int), trans : Tables]
  /\ IsTree(S.tree, Int) /\ Linked(S.tree) /\ NamesNodes(S.trans, S.tree)

Positions == [hash : Int, data : Int]

\* The table finds every node under the hash it was added with, and nothing else.
FindsEach ==
  /\ \A n \in NodeIDs(tree) : contains(m_trans, added[n].hash) = n
  /\ \A h \in DOMAIN m_trans : \E n \in NodeIDs(tree) : added[n].hash = h

\* No payload is taken for the hash of the root.
PlainPayloads(T) == \A n \in NodeIDs(T) : T.nodes[n].data # RootHash

HashInv ==
  /\ Hashed(This) /\ PlainPayloads(tree)
  /\ added \in Seq(Positions) /\ Len(added) = Len(tree.nodes)
  /\ made \in BOOLEAN
  /\ ~ made => FindsEach /\ PayloadKept

---------------------------------------------------------------------------
(***************************************************************************)
(* The table.                                                              *)
(***************************************************************************)
LEMMA TablesAre == \A trans : trans \in [DOMAIN trans -> Nat] /\ DOMAIN trans \subseteq Int
                                => trans \in Tables
BY DEF Tables

\* What a tree of integers has: ids from 1, the root, ends that exist.
LEMMA NodeIDsOf ==
  ASSUME NEW T, IsTree(T, Int)
  PROVE  /\ Len(T.nodes) \in Nat /\ Len(T.arcs) \in Nat /\ root_node \in NodeIDs(T)
         /\ NodeIDs(T) = 1 .. Len(T.nodes)
         /\ \A n \in NodeIDs(T) : n \in Nat /\ n # invalid /\ T.nodes[n].data \in Int
         /\ \A a \in ArcIDs(T) : T.arcs[a].target \in NodeIDs(T) /\ T.arcs[a].data \in Int
<1>1. PICK D : D = Int
  OBVIOUS
<1>2. T \in TreeValue(D) /\ EndsExist(T)
  BY <1>1 DEF IsTree
<1>3. /\ \A n \in NodeIDs(T) : T.nodes[n] \in Node(D)
      /\ \A a \in ArcIDs(T) : T.arcs[a] \in Arc(D)
      /\ Len(T.nodes) \in Nat /\ Len(T.arcs) \in Nat
  BY <1>2, TreeFields
<1>4. /\ \A n \in NodeIDs(T) : T.nodes[n].data \in D
      /\ \A a \in ArcIDs(T) : T.arcs[a].data \in D
  BY <1>3 DEF Node, Arc
<1> QED
  BY <1>1, <1>2, <1>3, <1>4 DEF EndsExist, NodeIDs, root_node, invalid

\* emplace keeps what a table names, and a hash it does not have gets the node
\* that is added.
LEMMA EmplaceNames ==
  ASSUME NEW k \in Nat, NEW trans, NamesOnce(trans, k), NEW new \in Int
  PROVE  NamesOnce(emplace(trans, new, k + 1), k + 1)
<1>1. PICK U : U = emplace(trans, new, k + 1)
  OBVIOUS
<1>2. /\ DOMAIN U = DOMAIN trans \union {new}
      /\ U = [g \in DOMAIN U |-> IF g \in DOMAIN trans THEN trans[g] ELSE k + 1]
  BY <1>1 DEF emplace
<1>3. \A g \in DOMAIN U : U[g] = IF g \in DOMAIN trans THEN trans[g] ELSE k + 1
  BY <1>2
<1>4. \A g \in DOMAIN trans : trans[g] \in 1 .. k
  BY DEF NamesOnce
<1>5. \A g \in DOMAIN U : U[g] \in 1 .. k + 1
  BY <1>3, <1>4
<1>6. U \in [DOMAIN U -> 1 .. k + 1]
  BY <1>2, <1>5
<1>7. ASSUME NEW g \in DOMAIN U, NEW h \in DOMAIN U, U[g] = U[h] PROVE g = h
  BY <1>2, <1>3, <1>4, <1>7 DEF NamesOnce
<1> QED
  BY <1>1, <1>2, <1>6, <1>7 DEF NamesOnce

\* addNode with a hash.
LEMMA AddHashedKeeps ==
  ASSUME NEW S, Hashed(S), NEW h \in Int, NEW args, payload(args) \in Int,
         NEW U, U = addHashed(S, h, args)
  PROVE  /\ Hashed(U)
         /\ U.tree = addNode(S.tree, payload(args))
         /\ U.trans = emplace(S.trans, h, Len(S.tree.nodes) + 1)
         /\ NodeIDs(U.tree) = NodeIDs(S.tree) \union {Len(S.tree.nodes) + 1}
         /\ Len(S.tree.nodes) \in Nat /\ Len(U.tree.nodes) = Len(S.tree.nodes) + 1
<1>1. PICK T, V, D, d, trans : /\ T = S.tree /\ V = U.tree /\ D = Int /\ d = payload(args)
                               /\ trans = S.trans
  OBVIOUS
<1>2. /\ V = addNode(T, d) /\ U.trans = emplace(trans, h, Len(T.nodes) + 1)
      /\ IsTree(T, D) /\ Linked(T) /\ d \in D
  BY <1>1 DEF addHashed, HashTree, Hashed
<1>3. IsTree(V, D) /\ Linked(V) /\ Len(V.nodes) = Len(T.nodes) + 1
  BY ONLY <1>2, AddNodeKeepsLists
<1>4. PICK k \in Nat : k = Len(T.nodes)
  BY <1>1, <1>2, NodeIDsOf
<1>5. NodeIDs(V) = NodeIDs(T) \union {k + 1}
  BY <1>3, <1>4 DEF NodeIDs
<1>6. NamesOnce(trans, k) /\ contains(trans, RootHash) = root_node
  BY <1>1, <1>4 DEF Hashed, NamesNodes
<1>7. PICK W : W = U.trans
  OBVIOUS
<1>8. W = emplace(trans, h, k + 1)
  BY <1>2, <1>4, <1>7
<1>9. /\ NamesOnce(W, k + 1)
      /\ \A g \in DOMAIN trans : contains(W, g) = contains(trans, g)
  <2>1. NamesOnce(emplace(trans, h, k + 1), k + 1)
    BY <1>6, EmplaceNames
  <2>2. \A g \in DOMAIN trans : contains(W, g) = contains(trans, g)
    BY <1>8 DEF emplace, contains
  <2> QED
    BY <1>8, <2>1, <2>2
<1>10. contains(W, RootHash) = root_node
  <2>1. RootHash \in DOMAIN trans
    BY <1>6 DEF contains, invalid, root_node
  <2> QED
    BY <1>6, <1>9, <2>1
<1>11. NamesNodes(W, V)
  BY <1>3, <1>4, <1>9, <1>10 DEF NamesNodes
<1>12. W \in Tables
  <2>1. 1 .. k + 1 \subseteq Nat
    BY <1>4
  <2>2. W \in [DOMAIN W -> Nat] /\ DOMAIN W \subseteq Int
    BY <1>9, <2>1 DEF NamesOnce
  <2> QED
    BY <2>2, TablesAre
<1>13. U \in [tree : TreeValue(Int), trans : Tables]
  <2>1. V \in TreeValue(Int)
    BY <1>1, <1>3 DEF IsTree
  <2>2. U = [tree |-> V, trans |-> W]
    BY <1>1, <1>7 DEF addHashed, HashTree
  <2> QED
    BY <1>12, <2>1, <2>2
<1>14. Hashed(U)
  BY <1>1, <1>3, <1>7, <1>11, <1>13 DEF Hashed
<1> QED
  BY <1>1, <1>2, <1>3, <1>4, <1>5, <1>14

---------------------------------------------------------------------------
(***************************************************************************)
(* makeSubTree.  While it copies, the new tree has its table, every entry  *)
(* of visited is invalid or a node of the new tree, all of whose nodes are *)
(* entries, and the nodes on the stack have their copy.                    *)
(***************************************************************************)
CopyStates(T) ==
  [sub : [tree : TreeValue(Int), trans : Tables], visited : [NodeIDs(T) -> Nat],
   stack : Seq(NodeIDs(T))]

Copying(T) ==
  {L \in CopyStates(T) :
     /\ Hashed(L.sub)
     /\ \A n \in NodeIDs(T) : L.visited[n] \in NodeIDs(L.sub.tree) \union {invalid}
     /\ \A i \in NodeIDs(L.sub.tree) : \E n \in NodeIDs(T) : L.visited[n] = i
     /\ \A k \in 1 .. Len(L.stack) : L.visited[L.stack[k]] # invalid}

\* The same, for a parent that has its copy.
CopyingFrom(T, parent) == {L \in Copying(T) : L.visited[parent] # invalid}

\* A new tree and its table.
LEMMA NewHashed ==
  ASSUME NEW d \in Int, NEW S, S = NewHashTree(d)
  PROVE  /\ Hashed(S) /\ Len(S.tree.nodes) = 1 /\ S.tree.nodes[1].data = d
         /\ DOMAIN S.trans = {RootHash}
<1>1. PICK D : D = Int
  OBVIOUS
<1>2. S.tree = NewTree(NoArcData, d) /\ NoArcData \in D /\ d \in D
  BY <1>1 DEF NewHashTree, HashTree, NoArcData
<1>3. PICK T : T = S.tree
  OBVIOUS
<1>4. /\ IsTree(T, D) /\ Linked(T) /\ Len(T.nodes) = 1 /\ T.nodes[1].data = d
  BY ONLY <1>2, <1>3, NewTreeLists
<1>5. PICK W : W = S.trans
  OBVIOUS
<1>6. W = [h \in {RootHash} |-> 1] /\ S = [tree |-> T, trans |-> W]
  BY <1>3, <1>5 DEF NewHashTree, HashTree, root_node
<1>7. RootHash \in Int
  BY HashAssumption
<1>9. /\ DOMAIN W = {RootHash} /\ W \in [DOMAIN W -> 1 .. 1] /\ W[RootHash] = 1
      /\ W \in [DOMAIN W -> Nat]
  BY <1>6
<1>10. NamesNodes(W, T)
  BY <1>4, <1>7, <1>9 DEF NamesNodes, NamesOnce, contains, root_node
<1>11. W \in Tables
  BY <1>7, <1>9, TablesAre
<1>12. S \in [tree : TreeValue(Int), trans : Tables]
  BY <1>1, <1>4, <1>6, <1>11 DEF IsTree
<1> QED
  BY <1>1, <1>3, <1>4, <1>5, <1>9, <1>10, <1>12 DEF Hashed

\* It starts with the copy of the new root.
LEMMA BeginsCopy ==
  ASSUME NEW T, IsTree(T, Int), NEW r \in NodeIDs(T)
  PROVE  started(T, r) \in Copying(T)
<1>1. PICK L : L = started(T, r)
  OBVIOUS
<1>2. PICK S : S = NewHashTree(T.nodes[r].data)
  OBVIOUS
<1>3. Hashed(S) /\ NodeIDs(S.tree) = {1}
  <2>1. T.nodes[r].data \in Int
    BY NodeIDsOf
  <2>2. Hashed(S) /\ Len(S.tree.nodes) = 1
    BY <1>2, <2>1, NewHashed
  <2> QED
    BY <2>2 DEF NodeIDs
<1>4. PICK v : v = [n \in NodeIDs(T) |-> IF n = r THEN root_node ELSE invalid]
  OBVIOUS
<1>5. /\ v \in [NodeIDs(T) -> Nat] /\ v[r] = 1 /\ v[r] # invalid
      /\ \A n \in NodeIDs(T) : v[n] \in {1} \union {invalid}
  BY <1>4 DEF root_node, invalid
<1>6. L = [sub |-> S, visited |-> v, stack |-> <<r>>]
  BY <1>1, <1>2, <1>4 DEF started
<1>7. L \in CopyStates(T)
  BY <1>3, <1>5, <1>6 DEF CopyStates, Hashed
<1> QED
  BY <1>1, <1>3, <1>5, <1>6, <1>7 DEF Copying

\* A child that is met has its copy from then on, and what is on the stack keeps it.
LEMMA MeetCopies ==
  ASSUME NEW T, IsTree(T, Int), NEW parent \in NodeIDs(T), NEW child \in NodeIDs(T),
         NEW L \in CopyingFrom(T, parent), NEW M, M = meet(T, L, child)
  PROVE  M \in CopyingFrom(T, parent) /\ M.visited[child] # invalid
<1>1. CASE L.visited[child] # invalid
  BY <1>1 DEF meet
<1>2. CASE L.visited[child] = invalid
  <2>1. /\ L \in CopyStates(T) /\ Hashed(L.sub) /\ L.visited[parent] # invalid
        /\ \A n \in NodeIDs(T) : L.visited[n] \in NodeIDs(L.sub.tree) \union {invalid}
        /\ \A i \in NodeIDs(L.sub.tree) : \E n \in NodeIDs(T) : L.visited[n] = i
        /\ \A k \in 1 .. Len(L.stack) : L.visited[L.stack[k]] # invalid
    BY DEF CopyingFrom, Copying
  <2>2. L.visited \in [NodeIDs(T) -> Nat] /\ L.stack \in Seq(NodeIDs(T))
    BY <2>1 DEF CopyStates
  <2>3. PICK h, S, v, s, j : /\ h = T.nodes[child].data /\ S = addHashed(L.sub, h, <<>>)
                             /\ j = Len(L.sub.tree.nodes) + 1
                             /\ v = [L.visited EXCEPT ![child] = j]
                             /\ s = Append(L.stack, child)
    OBVIOUS
  <2>4. h \in Int /\ payload(<<>>) \in Int
    BY <2>3, NodeIDsOf DEF payload, Unset
  <2>5. /\ Hashed(S) /\ NodeIDs(S.tree) = NodeIDs(L.sub.tree) \union {j} /\ j \in Nat \ {0}
    <3>1. PICK B, none : B = L.sub /\ none = <<>>
      OBVIOUS
    <3>2. /\ Hashed(B) /\ h \in Int /\ payload(none) \in Int /\ S = addHashed(B, h, none)
      BY <2>1, <2>3, <2>4, <3>1
    <3>3. Hashed(S)
      BY <3>2, AddHashedKeeps
    <3>4. /\ NodeIDs(S.tree) = NodeIDs(B.tree) \union {Len(B.tree.nodes) + 1}
          /\ Len(B.tree.nodes) \in Nat
      BY <3>2, AddHashedKeeps
    <3> QED
      BY <2>3, <3>1, <3>3, <3>4
  <2>6. M = [sub |-> S, visited |-> v, stack |-> s]
    BY <1>2, <2>3 DEF meet
  <2>7. /\ v \in [NodeIDs(T) -> Nat] /\ v[child] = j
        /\ \A n \in NodeIDs(T) : n # child => v[n] = L.visited[n]
    BY <2>2, <2>3, <2>5
  <2>8. /\ s \in Seq(NodeIDs(T)) /\ Len(s) = Len(L.stack) + 1 /\ Len(L.stack) \in Nat
        /\ s[Len(L.stack) + 1] = child
        /\ \A k \in 1 .. Len(L.stack) : s[k] = L.stack[k] /\ L.stack[k] \in NodeIDs(T)
    BY <2>2, <2>3
  <2>9. M \in CopyStates(T)
    BY <2>5, <2>6, <2>7, <2>8 DEF CopyStates, Hashed
  <2>10. \A n \in NodeIDs(T) : v[n] \in NodeIDs(S.tree) \union {invalid}
    BY <2>1, <2>5, <2>7
  <2>11. \A i \in NodeIDs(S.tree) : \E n \in NodeIDs(T) : v[n] = i
    <3>1. ASSUME NEW i \in NodeIDs(L.sub.tree) PROVE \E n \in NodeIDs(T) : v[n] = i
      <4>1. PICK n \in NodeIDs(T) : L.visited[n] = i
        BY <2>1
      <4>2. i # invalid
        BY <2>1, NodeIDsOf DEF Hashed
      <4> QED
        BY <1>2, <2>7, <4>1, <4>2
    <3> QED
      BY <2>5, <2>7, <3>1
  <2>12. \A n \in NodeIDs(T) : L.visited[n] # invalid => v[n] # invalid
    BY <2>5, <2>7 DEF invalid
  <2>13. \A k \in 1 .. Len(s) : v[s[k]] # invalid
    <3>1. ASSUME NEW k \in 1 .. Len(L.stack) PROVE v[s[k]] # invalid
      BY <2>1, <2>8, <2>12
    <3>2. v[child] # invalid
      BY <2>5, <2>7 DEF invalid
    <3>3. 1 .. Len(s) = (1 .. Len(L.stack)) \union {Len(L.stack) + 1}
      BY <2>8
    <3> QED
      BY <2>8, <3>1, <3>2, <3>3
  <2>14. v[child] # invalid /\ v[parent] # invalid
    BY <2>1, <2>5, <2>7, <2>12 DEF invalid
  <2> QED
    BY <2>5, <2>6, <2>9, <2>10, <2>11, <2>13, <2>14 DEF CopyingFrom, Copying
<1> QED
  BY <1>1, <1>2

\* An arc of the parent is copied between the copies of its ends.
LEMMA ArcCopied ==
  ASSUME NEW T, IsTree(T, Int), NEW parent \in NodeIDs(T),
         NEW a \in ArcIDs(T), T.arcs[a].source = parent,
         NEW L \in CopyingFrom(T, parent)
  PROVE  copyArc(T, L, a) \in CopyingFrom(T, parent)
<1>1. PICK child, M : child = T.arcs[a].target /\ M = meet(T, L, child)
  OBVIOUS
<1>2. child \in NodeIDs(T) /\ T.arcs[a].data \in Int
  BY <1>1, NodeIDsOf
<1>3. M \in CopyingFrom(T, parent) /\ M.visited[child] # invalid
  BY <1>1, <1>2, MeetCopies
<1>4. /\ M \in CopyStates(T) /\ Hashed(M.sub) /\ M.visited[parent] # invalid
      /\ \A n \in NodeIDs(T) : M.visited[n] \in NodeIDs(M.sub.tree) \union {invalid}
      /\ \A i \in NodeIDs(M.sub.tree) : \E n \in NodeIDs(T) : M.visited[n] = i
      /\ \A k \in 1 .. Len(M.stack) : M.visited[M.stack[k]] # invalid
  BY <1>3 DEF CopyingFrom, Copying
<1>5. PICK O, U, D, s, t, d : /\ O = M.sub.tree /\ D = Int
                              /\ s = M.visited[parent] /\ t = M.visited[child]
                              /\ d = T.arcs[a].data /\ U = addArc(O, s, t, d)
  OBVIOUS
<1>6. IsTree(O, D) /\ Linked(O) /\ s \in NodeIDs(O) /\ t \in NodeIDs(O) /\ d \in D
  BY <1>2, <1>3, <1>4, <1>5 DEF Hashed
<1>7. U = addArc(O, s, t, d)
  BY <1>5
<1>8. IsTree(U, D) /\ Linked(U) /\ Len(U.nodes) = Len(O.nodes)
  BY ONLY <1>6, <1>7, AddArcKeepsLists
<1>9. NodeIDs(U) = NodeIDs(M.sub.tree) /\ U \in TreeValue(Int) /\ IsTree(U, Int)
  BY <1>5, <1>8 DEF NodeIDs, IsTree
<1>10. PICK W : W = M.sub.trans
  OBVIOUS
<1>11. W \in Tables /\ NamesNodes(W, U)
  BY <1>4, <1>5, <1>8, <1>10 DEF Hashed, NamesNodes
<1>12. Hashed([tree |-> U, trans |-> W])
  BY <1>8, <1>9, <1>11 DEF Hashed
<1>13. copyArc(T, L, a) = [sub |-> [tree |-> U, trans |-> W], visited |-> M.visited,
                           stack |-> M.stack]
  <2>1. copyArc(T, L, a) = [M EXCEPT !.sub.tree = U]
    BY <1>1, <1>5 DEF copyArc
  <2> QED
    BY <1>4, <1>10, <2>1 DEF CopyStates
<1>14. copyArc(T, L, a) \in CopyStates(T)
  BY <1>4, <1>9, <1>11, <1>13 DEF CopyStates
<1> QED
  BY <1>4, <1>9, <1>12, <1>13, <1>14 DEF CopyingFrom, Copying

\* The node at the top of the stack has its copy, and is taken off.
LEMMA TopCopies ==
  ASSUME NEW T, NEW L \in Copying(T), L.stack # <<>>,
         NEW parent, parent = L.stack[Len(L.stack)]
  PROVE  /\ parent \in NodeIDs(T)
         /\ [L EXCEPT !.stack = SubSeq(@, 1, Len(@) - 1)] \in CopyingFrom(T, parent)
<1>1. /\ L \in CopyStates(T) /\ Hashed(L.sub)
      /\ \A n \in NodeIDs(T) : L.visited[n] \in NodeIDs(L.sub.tree) \union {invalid}
      /\ \A i \in NodeIDs(L.sub.tree) : \E n \in NodeIDs(T) : L.visited[n] = i
      /\ \A k \in 1 .. Len(L.stack) : L.visited[L.stack[k]] # invalid
  BY DEF Copying
<1>2. L.stack \in Seq(NodeIDs(T))
  BY <1>1 DEF CopyStates
<1>3. PICK m : m = Len(L.stack) - 1
  OBVIOUS
<1>4. m \in Nat /\ Len(L.stack) = m + 1 /\ m + 1 \in 1 .. Len(L.stack)
  BY <1>2, <1>3
<1>5. parent \in NodeIDs(T) /\ L.visited[parent] # invalid
  BY <1>1, <1>2, <1>4
<1>6. PICK q : q = SubSeq(L.stack, 1, m)
  OBVIOUS
<1>7. q \in Seq(NodeIDs(T)) /\ Len(q) = m /\ \A k \in 1 .. m : q[k] = L.stack[k]
  BY <1>2, <1>4, <1>6
<1>8. \A k \in 1 .. Len(q) : L.visited[q[k]] # invalid
  BY <1>1, <1>4, <1>7
<1>9. PICK M : M = [L EXCEPT !.stack = SubSeq(@, 1, Len(@) - 1)]
  OBVIOUS
<1>10. M = [sub |-> L.sub, visited |-> L.visited, stack |-> q]
  <2>1. M = [L EXCEPT !.stack = q]
    BY <1>3, <1>6, <1>9
  <2> QED
    BY <1>1, <2>1 DEF CopyStates
<1>11. M \in CopyStates(T)
  BY <1>1, <1>7, <1>10 DEF CopyStates
<1>12. M \in Copying(T)
  BY <1>1, <1>8, <1>10, <1>11 DEF Copying
<1> QED
  BY <1>5, <1>9, <1>10, <1>12 DEF CopyingFrom

\* A turn of the loop copies the arcs of the parent, one in each pass.
Passes(T, L, parent, pass) ==
  LET out == outArcs(T, parent)
  IN  /\ pass[0] = [L EXCEPT !.stack = SubSeq(@, 1, Len(@) - 1)]
      /\ \A i \in 0 .. Len(out) : pass[i] \in CopyingFrom(T, parent)
      /\ \A i \in 1 .. Len(out) : pass[i] = copyArc(T, pass[i - 1], out[i])
      /\ turn(T, L) = pass[Len(out)]

\* The for-loop of a turn is a well-defined iteration over the out-arcs of its node.
LEMMA TurnPasses ==
  ASSUME NEW T, IsTree(T, Int), Linked(T), NEW L \in Copying(T), L.stack # <<>>
  PROVE  \E pass : Passes(T, L, L.stack[Len(L.stack)], pass)
<1>1. PICK parent : parent = L.stack[Len(L.stack)]
  OBVIOUS
<1>2. PICK v0 : v0 = [L EXCEPT !.stack = SubSeq(@, 1, Len(@) - 1)]
  OBVIOUS
<1>3. PICK V : V = CopyingFrom(T, parent)
  OBVIOUS
<1>4. parent \in NodeIDs(T) /\ v0 \in V
  BY <1>1, <1>2, <1>3, TopCopies
<1>5. PICK out : out = outArcs(T, parent)
  OBVIOUS
<1>6. Len(out) \in Nat /\ \A i \in 1 .. Len(out) : out[i] \in ArcIDs(T) /\ T.arcs[out[i]].source = parent
  <2>1. PICK D : D = Int
    OBVIOUS
  <2>2. IsTree(T, D) /\ Linked(T)
    BY <2>1
  <2> QED
    BY ONLY <1>4, <1>5, <2>2, OutListOf
<1>7. PICK N \in Nat : N = Len(out)
  BY <1>6
<1>8. ASSUME NEW X \in V, NEW i \in 1 .. N PROVE copyArc(T, X, out[i]) \in V
  BY <1>3, <1>4, <1>6, <1>7, ArcCopied
<1>9. PICK F : F = [i \in 1 .. N |-> [X \in V |-> copyArc(T, X, out[i])]]
  OBVIOUS
<1>10. F \in [1 .. N -> [V -> V]]
  BY <1>8, <1>9
<1>11. PICK g : Iterates(g, N, V, v0, F)
  BY <1>4, <1>10, IterationDefined
<1> DEFINE Step(c, i) == IF i = 0 THEN [L EXCEPT !.stack = SubSeq(@, 1, Len(@) - 1)]
                         ELSE copyArc(T, c[i - 1], out[i])
<1>12. ASSUME NEW c, NEW i \in 0 .. N
       PROVE  Step(c, i) = IF i = 0 THEN v0 ELSE copyArc(T, c[i - 1], out[i])
  BY <1>2
<1>13. \A i \in 0 .. N : g[i] = Step(g, i)
  <2>1. ASSUME NEW i \in 1 .. N PROVE g[i] = copyArc(T, g[i - 1], out[i])
    <3>1. g[i - 1] \in V
      BY <1>11 DEF Iterates
    <3> QED
      BY <1>9, <1>11, <3>1 DEF Iterates
  <2>2. \A i \in 0 .. N : i = 0 \/ (i # 0 /\ i \in 1 .. N)
    OBVIOUS
  <2>3. g[0] = v0
    BY <1>11 DEF Iterates
  <2> HIDE DEF Step
  <2> QED
    BY <1>12, <2>1, <2>2, <2>3
<1>14. g = [i \in 0 .. Len(out) |-> Step(g, i)]
  <2> HIDE DEF Step
  <2> QED
    BY <1>7, <1>11, <1>13 DEF Iterates
<1> DEFINE pass == CHOOSE c : c = [i \in 0 .. Len(out) |-> Step(c, i)]
<1>15. pass = [i \in 0 .. Len(out) |-> Step(pass, i)]
  BY <1>14
<1>16. turn(T, L) = pass[N]
  BY <1>1, <1>5, <1>7 DEF turn
<1> HIDE DEF pass
<1>17. \A i \in 0 .. N : pass[i] = Step(pass, i)
  BY <1>7, <1>15
<1>18. pass[0] = v0 /\ \A i \in 1 .. N : pass[i] = copyArc(T, pass[i - 1], out[i])
  <2>1. 0 \in 0 .. N /\ \A i \in 1 .. N : i \in 0 .. N /\ i # 0
    OBVIOUS
  <2> HIDE DEF Step
  <2> QED
    BY <1>12, <1>17, <2>1
<1> DEFINE Good == {i \in 0 .. N : pass[i] \in V}
<1>19. 0 \in Good /\ \A i \in 1 .. N : i - 1 \in Good => i \in Good
  BY <1>4, <1>8, <1>18
<1>20. \A i \in 0 .. N : i \in Good
  <2> HIDE DEF Good
  <2> QED
    BY <1>19, SetInduction
<1>21. \A i \in 0 .. N : pass[i] \in V
  BY <1>20
<1> HIDE DEF Good
<1> QED
  BY <1>1, <1>2, <1>3, <1>5, <1>7, <1>16, <1>18, <1>21 DEF Passes

\* A turn of the while-loop leaves the copy well-formed.
LEMMA TurnCopies ==
  ASSUME NEW T, IsTree(T, Int), Linked(T), NEW L \in Copying(T), L.stack # <<>>
  PROVE  turn(T, L) \in Copying(T)
<1>1. PICK parent, pass, out, N : /\ parent = L.stack[Len(L.stack)] /\ Passes(T, L, parent, pass)
                                  /\ out = outArcs(T, parent) /\ N = Len(out)
  BY TurnPasses
<1>2. parent \in NodeIDs(T)
  BY <1>1, TopCopies
<1>3. N \in Nat
  <2>1. PICK D : D = Int
    OBVIOUS
  <2>2. IsTree(T, D) /\ Linked(T)
    BY <2>1
  <2> QED
    BY ONLY <1>1, <1>2, <2>2, OutListOf
<1> QED
  BY <1>1, <1>3 DEF Passes, CopyingFrom

\* The loop of makeSubTree, turn by turn.
Turns(T, r, loop) ==
  /\ loop[0] = started(T, r)
  /\ \A k \in 0 .. Len(T.nodes) : loop[k] \in Copying(T)
  /\ \A k \in 1 .. Len(T.nodes) :
       loop[k] = IF loop[k - 1].stack = <<>> THEN loop[k - 1] ELSE turn(T, loop[k - 1])
  /\ makeSubTree(T, r) = loop[Len(T.nodes)]

\* The while-loop of makeSubTree is a well-defined iteration of turns.
LEMMA LoopTurns ==
  ASSUME NEW T, IsTree(T, Int), Linked(T), NEW r \in NodeIDs(T)
  PROVE  \E loop : Turns(T, r, loop)
<1>1. PICK V, v0 : V = Copying(T) /\ v0 = started(T, r)
  OBVIOUS
<1>2. v0 \in V
  BY <1>1, BeginsCopy
<1>3. PICK N \in Nat : N = Len(T.nodes)
  BY NodeIDsOf
<1> DEFINE After(X) == IF X.stack = <<>> THEN X ELSE turn(T, X)
<1>4. ASSUME NEW X \in V PROVE After(X) \in V
  BY <1>1, TurnCopies
<1>5. PICK F : F = [i \in 1 .. N |-> [X \in V |-> After(X)]]
  OBVIOUS
<1>6. F \in [1 .. N -> [V -> V]]
  <2> HIDE DEF After
  <2> QED
    BY <1>4, <1>5
<1>7. PICK g : Iterates(g, N, V, v0, F)
  BY <1>2, <1>6, IterationDefined
<1> DEFINE Step(c, k) == IF k = 0 THEN started(T, r)
                         ELSE IF c[k - 1].stack = <<>> THEN c[k - 1]
                         ELSE turn(T, c[k - 1])
<1>8. ASSUME NEW c, NEW k \in 0 .. N
      PROVE  Step(c, k) = IF k = 0 THEN v0 ELSE After(c[k - 1])
  BY <1>1
<1>9. \A k \in 0 .. N : g[k] = Step(g, k)
  <2> HIDE DEF After
  <2>1. ASSUME NEW k \in 1 .. N PROVE g[k] = After(g[k - 1])
    <3>1. g[k - 1] \in V
      BY <1>7 DEF Iterates
    <3> QED
      BY <1>5, <1>7, <3>1 DEF Iterates
  <2>2. \A k \in 0 .. N : k = 0 \/ (k # 0 /\ k \in 1 .. N)
    OBVIOUS
  <2>3. g[0] = v0
    BY <1>7 DEF Iterates
  <2> HIDE DEF Step
  <2> QED
    BY <1>8, <2>1, <2>2, <2>3
<1>10. g = [k \in 0 .. Len(T.nodes) |-> Step(g, k)]
  <2> HIDE DEF Step
  <2> QED
    BY <1>3, <1>7, <1>9 DEF Iterates
<1> DEFINE loop == CHOOSE c : c = [k \in 0 .. Len(T.nodes) |-> Step(c, k)]
<1>11. loop = [k \in 0 .. Len(T.nodes) |-> Step(loop, k)]
  BY <1>10
<1>12. makeSubTree(T, r) = loop[N]
  BY <1>3 DEF makeSubTree
<1> HIDE DEF loop
<1>13. \A k \in 0 .. N : loop[k] = Step(loop, k)
  BY <1>3, <1>11
<1>14. loop[0] = v0 /\ \A k \in 1 .. N : loop[k] = After(loop[k - 1])
  <2>1. 0 \in 0 .. N /\ \A k \in 1 .. N : k \in 0 .. N /\ k # 0
    OBVIOUS
  <2> HIDE DEF Step, After
  <2> QED
    BY <1>8, <1>13, <2>1
<1> DEFINE Good == {k \in 0 .. N : loop[k] \in V}
<1>15. 0 \in Good /\ \A k \in 1 .. N : k - 1 \in Good => k \in Good
  <2> HIDE DEF After
  <2> QED
    BY <1>2, <1>4, <1>14
<1>16. \A k \in 0 .. N : k \in Good
  <2> HIDE DEF Good
  <2> QED
    BY <1>15, SetInduction
<1>17. \A k \in 0 .. N : loop[k] \in V
  BY <1>16
<1> HIDE DEF Good
<1> QED
  BY <1>1, <1>3, <1>12, <1>14, <1>17 DEF Turns

---------------------------------------------------------------------------
(***************************************************************************)
(* What the copy is.  At every turn the nodes that are known have the      *)
(* copies of their first out-arcs in order: none when they are on the      *)
(* stack, all of them when they are finished.  Each turn finishes a node,  *)
(* so that the loop needs no more turns than there are nodes.              *)
(***************************************************************************)
Known(T, L) == {n \in NodeIDs(T) : L.visited[n] # invalid}
Finished(T, L) == Known(T, L) \ Entries(L.stack)

\* The copies of the out-arcs of n.
Copies(L, n) == outArcs(L.sub.tree, L.visited[n])

CopiesAgree(T, L) ==
  \A n \in Known(T, L) :
    /\ Len(Copies(L, n)) <= Len(outArcs(T, n))
    /\ \A i \in 1 .. Len(Copies(L, n)) :
         /\ T.arcs[outArcs(T, n)[i]].target \in Known(T, L)
         /\ L.sub.tree.arcs[Copies(L, n)[i]].target = L.visited[T.arcs[outArcs(T, n)[i]].target]

AllCopied(T, L, S) == \A n \in S : Len(Copies(L, n)) = Len(outArcs(T, n))

\* A table that has the payloads of the nodes K, each at the first of its nodes,
\* in the numbering v.
FirstNamed(T, K, v, trans) ==
  /\ \A n \in K : \E m \in K :
       /\ T.nodes[m].data = T.nodes[n].data
       /\ contains(trans, T.nodes[n].data) = v[m]
       /\ \A k \in K : T.nodes[k].data = T.nodes[n].data => v[m] <= v[k]
  /\ \A h \in DOMAIN trans : h = RootHash \/ \E n \in K : T.nodes[n].data = h

CopyRight(T, r, L) ==
  /\ L.visited[r] = root_node
  /\ \A m, n \in Known(T, L) : L.visited[m] = L.visited[n] => m = n
  /\ NoneTwice(L.stack) /\ \A n \in Entries(L.stack) : Copies(L, n) = <<>>
  /\ CopiesAgree(T, L) /\ Known(T, L) \subseteq Reach(T, r)
  /\ FirstNamed(T, Known(T, L) \ {r}, L.visited, L.sub.trans)
  /\ PlainPayloads(L.sub.tree)

Exact(T, r) == {L \in Copying(T) : CopyRight(T, r, L)}

\* What a copy half-way is made of, field by field.
LEMMA CopyParts ==
  ASSUME NEW T, NEW L \in Copying(T)
  PROVE  /\ IsTree(L.sub.tree, Int) /\ Linked(L.sub.tree)
         /\ L.sub = [tree |-> L.sub.tree, trans |-> L.sub.trans]
         /\ L = [sub |-> L.sub, visited |-> L.visited, stack |-> L.stack]
         /\ L.visited \in [NodeIDs(T) -> NodeIDs(L.sub.tree) \union {invalid}]
         /\ \A n \in Known(T, L) : n \in NodeIDs(T) /\ L.visited[n] \in NodeIDs(L.sub.tree)
         /\ L.stack \in Seq(NodeIDs(T)) /\ Entries(L.stack) \subseteq Known(T, L)
         /\ Len(L.sub.tree.nodes) \in Nat
<1>1. /\ L \in CopyStates(T) /\ Hashed(L.sub)
      /\ \A n \in NodeIDs(T) : L.visited[n] \in NodeIDs(L.sub.tree) \union {invalid}
      /\ \A k \in 1 .. Len(L.stack) : L.visited[L.stack[k]] # invalid
  BY DEF Copying
<1>2. /\ L = [sub |-> L.sub, visited |-> L.visited, stack |-> L.stack]
      /\ L.visited \in [NodeIDs(T) -> Nat] /\ L.stack \in Seq(NodeIDs(T))
      /\ L.sub = [tree |-> L.sub.tree, trans |-> L.sub.trans]
  BY <1>1 DEF CopyStates
<1>3. L.visited \in [NodeIDs(T) -> NodeIDs(L.sub.tree) \union {invalid}]
  <2>1. PICK v, R : v = L.visited /\ R = NodeIDs(L.sub.tree) \union {invalid}
    OBVIOUS
  <2>2. v \in [NodeIDs(T) -> Nat] /\ \A n \in NodeIDs(T) : v[n] \in R
    BY <1>1, <1>2, <2>1
  <2>3. v \in [NodeIDs(T) -> R]
    BY <2>2
  <2> QED
    BY <2>1, <2>3
<1>4. Entries(L.stack) \subseteq Known(T, L)
  BY <1>1, <1>2 DEF Entries, Known
<1>5. IsTree(L.sub.tree, Int) /\ Linked(L.sub.tree)
  BY <1>1 DEF Hashed
<1>6. Len(L.sub.tree.nodes) \in Nat
  BY <1>5, NodeIDsOf
<1> QED
  BY <1>1, <1>2, <1>3, <1>4, <1>5, <1>6 DEF Known

\* The root is copied first; nothing is finished.
LEMMA BeginsRight ==
  ASSUME NEW T, IsTree(T, Int), Linked(T), PlainPayloads(T), NEW r \in NodeIDs(T)
  PROVE  started(T, r) \in Exact(T, r) /\ Finished(T, started(T, r)) = {}
<1>1. PICK L, d, S, O : L = started(T, r) /\ d = T.nodes[r].data /\ S = NewHashTree(d) /\ O = S.tree
  OBVIOUS
<1>2. d \in Int /\ d # RootHash
  BY <1>1, NodeIDsOf DEF PlainPayloads
<1>3. L \in Copying(T)
  BY <1>1, BeginsCopy
<1>4. Len(O.nodes) = 1 /\ O.nodes[1].data = d /\ DOMAIN S.trans = {RootHash}
  BY <1>1, <1>2, NewHashed
<1>5. outArcs(O, root_node) = <<>>
  <2>1. PICK D, none : D = Int /\ none = NoArcData
    OBVIOUS
  <2>2. none \in D /\ d \in D /\ O = NewTree(none, d)
    BY <1>1, <1>2, <2>1 DEF NewHashTree, HashTree, NoArcData
  <2> QED
    BY ONLY <2>2, NewTreeWalks
<1>6. PICK v : v = [n \in NodeIDs(T) |-> IF n = r THEN root_node ELSE invalid]
  OBVIOUS
<1>7. L.sub = S /\ L.visited = v /\ L.stack = <<r>>
  BY <1>1, <1>6 DEF started
<1>8. v[r] = root_node /\ Known(T, L) = {r}
  BY <1>6, <1>7 DEF Known, root_node, invalid
<1>9. Entries(L.stack) = {r} /\ NoneTwice(L.stack)
  BY <1>7 DEF Entries, NoneTwice
<1>10. Copies(L, r) = <<>>
  BY <1>1, <1>5, <1>7, <1>8 DEF Copies
<1>11. CopiesAgree(T, L)
  <2>1. PICK D, w : D = Int /\ w = outArcs(T, r)
    OBVIOUS
  <2>2. IsTree(T, D) /\ Linked(T)
    BY <2>1
  <2>3. Len(w) \in Nat
    BY ONLY <2>1, <2>2, OutListOf
  <2>4. Len(Copies(L, r)) = 0
    BY <1>10
  <2> QED
    BY <1>8, <2>1, <2>3, <2>4 DEF CopiesAgree
<1>12. r \in Reach(T, r)
  BY DEF Reach
<1>13. FirstNamed(T, Known(T, L) \ {r}, L.visited, L.sub.trans)
  BY <1>4, <1>7, <1>8 DEF FirstNamed
<1>14. PlainPayloads(L.sub.tree)
  BY <1>1, <1>2, <1>4, <1>7 DEF PlainPayloads, NodeIDs
<1> QED
  BY <1>1, <1>3, <1>7, <1>8, <1>9, <1>10, <1>11, <1>12, <1>13, <1>14
     DEF Exact, CopyRight, Finished

\* The out-list of a node in values.
LEMMA OutArcsAre ==
  ASSUME NEW T, IsTree(T, Int), Linked(T), NEW n \in NodeIDs(T)
  PROVE  /\ Len(outArcs(T, n)) \in Nat
         /\ \A i \in 1 .. Len(outArcs(T, n)) :
              /\ outArcs(T, n)[i] \in ArcIDs(T) /\ T.arcs[outArcs(T, n)[i]].source = n
              /\ T.arcs[outArcs(T, n)[i]].target \in NodeIDs(T)
         /\ \A a \in ArcIDs(T) : T.arcs[a].source = n
              => \E i \in 1 .. Len(outArcs(T, n)) : outArcs(T, n)[i] = a
<1>1. PICK D, w : D = Int /\ w = outArcs(T, n)
  OBVIOUS
<1>2. IsTree(T, D) /\ Linked(T)
  BY <1>1
<1>3. /\ Len(w) \in Nat
      /\ \A i \in 1 .. Len(w) : w[i] \in ArcIDs(T) /\ T.arcs[w[i]].source = n
      /\ \A a \in ArcIDs(T) : T.arcs[a].source = n => \E i \in 1 .. Len(w) : w[i] = a
  BY ONLY <1>1, <1>2, OutListOf
<1>4. \A a \in ArcIDs(T) : T.arcs[a].target \in NodeIDs(T)
  BY NodeIDsOf
<1> QED
  BY <1>1, <1>3, <1>4

\* The node that is taken off the stack is finished when its arcs are copied.
LEMMA TopTaken ==
  ASSUME NEW T, NEW r, NEW L \in Exact(T, r), L.stack # <<>>,
         NEW parent, parent = L.stack[Len(L.stack)],
         NEW M \in Copying(T), M.sub = L.sub, M.visited = L.visited,
         M.stack = SubSeq(L.stack, 1, Len(L.stack) - 1)
  PROVE  /\ M \in Exact(T, r)
         /\ parent \in Known(T, L) \ Finished(T, L) /\ Copies(M, parent) = <<>>
         /\ Finished(T, M) = Finished(T, L) \union {parent}
         /\ \A n : Copies(M, n) = Copies(L, n)
<1>1. L \in Copying(T) /\ CopyRight(T, r, L)
  BY DEF Exact
<1>2. PICK S, q, s : S = NodeIDs(T) /\ q = L.stack /\ s = SubSeq(q, 1, Len(q) - 1)
  OBVIOUS
<1>3. /\ L = [sub |-> L.sub, visited |-> L.visited, stack |-> q]
      /\ q \in Seq(S) /\ q # <<>> /\ parent = q[Len(q)] /\ Entries(q) \subseteq Known(T, L)
  BY <1>1, <1>2, CopyParts
<1>4. M.sub = L.sub /\ M.visited = L.visited /\ M.stack = s
  BY <1>2
<1>5. Extends(q, s, parent, S)
  BY ONLY <1>2, <1>3, PoppedBack
<1>6. /\ Entries(q) = Entries(s) \union {parent}
      /\ NoneTwice(s) /\ parent \notin Entries(s)
  BY <1>1, <1>2, <1>5 DEF Extends, CopyRight
<1>7. Known(T, M) = Known(T, L) /\ \A n : Copies(M, n) = Copies(L, n)
  BY <1>4 DEF Known, Copies
<1>8. /\ parent \in Known(T, L) \ Finished(T, L)
      /\ Finished(T, M) = Finished(T, L) \union {parent}
  BY <1>2, <1>3, <1>4, <1>6, <1>7 DEF Finished
<1>9. Copies(M, parent) = <<>>
  BY <1>1, <1>2, <1>6, <1>7 DEF CopyRight
<1>10. CopiesAgree(T, M)
  <2>1. CopiesAgree(T, L)
    BY <1>1 DEF CopyRight
  <2> QED
    BY ONLY <2>1, <1>4, <1>7 DEF CopiesAgree
<1>11. CopyRight(T, r, M)
  BY <1>1, <1>2, <1>4, <1>6, <1>7, <1>10 DEF CopyRight
<1> QED
  BY <1>7, <1>8, <1>9, <1>11 DEF Exact

\* A child that gets the next number has its payload entered, unless an earlier
\* one has it.
LEMMA ChildNamed ==
  ASSUME NEW T, NEW K, NEW c, c \notin K, T.nodes[c].data # RootHash,
         NEW k \in Nat, NEW v, NEW w,
         \A n \in K : v[n] \in 1 .. k /\ w[n] = v[n], w[c] = k + 1,
         NEW trans, FirstNamed(T, K, v, trans),
         NEW X, X = emplace(trans, T.nodes[c].data, k + 1)
  PROVE  FirstNamed(T, K \union {c}, w, X)
<1>1. PICK d : d = T.nodes[c].data
  OBVIOUS
<1>2. /\ DOMAIN X = DOMAIN trans \union {d} /\ d # RootHash
      /\ \A g \in DOMAIN trans : contains(X, g) = contains(trans, g)
      /\ d \notin DOMAIN trans => contains(X, d) = k + 1
  BY <1>1 DEF emplace, contains
<1>3. /\ \A n \in K : \E m \in K :
           /\ T.nodes[m].data = T.nodes[n].data
           /\ contains(trans, T.nodes[n].data) = v[m]
           /\ \A i \in K : T.nodes[i].data = T.nodes[n].data => v[m] <= v[i]
      /\ \A h \in DOMAIN trans : h = RootHash \/ \E n \in K : T.nodes[n].data = h
  BY DEF FirstNamed
<1>4. ASSUME NEW n \in K
      PROVE  /\ T.nodes[n].data \in DOMAIN trans
             /\ \E m \in K :
                  /\ T.nodes[m].data = T.nodes[n].data
                  /\ contains(X, T.nodes[n].data) = w[m]
                  /\ \A i \in K \union {c} : T.nodes[i].data = T.nodes[n].data => w[m] <= w[i]
  <2>1. PICK m \in K : /\ T.nodes[m].data = T.nodes[n].data
                       /\ contains(trans, T.nodes[n].data) = v[m]
                       /\ \A i \in K : T.nodes[i].data = T.nodes[n].data => v[m] <= v[i]
    BY <1>3
  <2>2. T.nodes[n].data \in DOMAIN trans
    BY <2>1 DEF contains, invalid
  <2>3. contains(X, T.nodes[n].data) = w[m] /\ w[m] <= w[c]
    BY <1>2, <2>1, <2>2
  <2>4. \A i \in K : T.nodes[i].data = T.nodes[n].data => w[m] <= w[i]
    BY <2>1
  <2> QED
    BY <2>1, <2>2, <2>3, <2>4
<1>5. \E m \in K \union {c} :
        /\ T.nodes[m].data = d /\ contains(X, d) = w[m]
        /\ \A i \in K \union {c} : T.nodes[i].data = d => w[m] <= w[i]
  <2>1. CASE d \in DOMAIN trans
    <3>1. PICK n \in K : T.nodes[n].data = d
      BY <1>2, <1>3, <2>1
    <3> QED
      BY <1>4, <3>1
  <2>2. CASE d \notin DOMAIN trans
    <3>1. \A i \in K : T.nodes[i].data # d
      BY <1>4, <2>2
    <3>2. w[c] <= w[c]
      OBVIOUS
    <3> QED
      BY <1>1, <1>2, <2>2, <3>1, <3>2
  <2> QED
    BY <2>1, <2>2
<1>6. \A h \in DOMAIN X : h = RootHash \/ \E n \in K \union {c} : T.nodes[n].data = h
  BY <1>1, <1>2, <1>3
<1>7. \A n \in K \union {c} : \E m \in K \union {c} :
        /\ T.nodes[m].data = T.nodes[n].data
        /\ contains(X, T.nodes[n].data) = w[m]
        /\ \A i \in K \union {c} : T.nodes[i].data = T.nodes[n].data => w[m] <= w[i]
  BY <1>1, <1>4, <1>5
<1> QED
  BY <1>6, <1>7 DEF FirstNamed

\* What meeting a new child does to the copy: a node and its entry in the table.
LEMMA ChildAdded ==
  ASSUME NEW T, IsTree(T, Int), NEW L \in Copying(T),
         NEW child \in NodeIDs(T), L.visited[child] = invalid,
         NEW M, M = meet(T, L, child),
         NEW O, O = L.sub.tree, NEW j, j = Len(O.nodes) + 1, NEW h, h = T.nodes[child].data
  PROVE  /\ M.sub.trans = emplace(L.sub.trans, h, j)
         /\ M.visited[child] = j /\ \A n \in NodeIDs(T) : n # child => M.visited[n] = L.visited[n]
         /\ M.stack = Append(L.stack, child)
         /\ M.sub.tree.arcs = O.arcs /\ Copies(M, child) = <<>>
         /\ \A n \in Known(T, L) : Copies(M, n) = Copies(L, n)
         /\ PlainPayloads(O) => PlainPayloads(M.sub.tree)
         /\ NodeIDs(O) = 1 .. j - 1 /\ j \in Nat \ {0}
<1>1. /\ IsTree(O, Int) /\ Linked(O)
      /\ L.visited \in [NodeIDs(T) -> NodeIDs(O) \union {invalid}]
      /\ L = [sub |-> L.sub, visited |-> L.visited, stack |-> L.stack]
  BY CopyParts
<1>2. PICK D, d, U : D = Int /\ d = Unset /\ U = addNode(O, d)
  OBVIOUS
<1>3. IsTree(O, D) /\ Linked(O) /\ d \in D /\ U = addNode(O, d) /\ j = Len(O.nodes) + 1
  BY <1>1, <1>2 DEF Unset
<1>4. /\ NodeIDs(U) = NodeIDs(O) \union {j} /\ j \in Nat \ {0} /\ NodeIDs(O) = 1 .. j - 1
      /\ \A i \in NodeIDs(O) : outArcs(U, i) = outArcs(O, i)
      /\ outArcs(U, j) = <<>>
  BY ONLY <1>3, AddNodeWalks
<1>5. /\ U.arcs = O.arcs /\ U.nodes[j] = NewNode(d)
      /\ \A i \in NodeIDs(O) : U.nodes[i] = O.nodes[i]
  BY ONLY <1>3, AddNodeKeepsLists
<1>6. payload(<<>>) = d
  BY <1>2 DEF payload
<1>7. addHashed(L.sub, T.nodes[child].data, <<>>)
        = [tree |-> U, trans |-> emplace(L.sub.trans, T.nodes[child].data, j)]
  BY <1>2, <1>6 DEF addHashed, HashTree
<1>8. M = [sub |-> [tree |-> U, trans |-> emplace(L.sub.trans, T.nodes[child].data, j)],
           visited |-> [L.visited EXCEPT ![child] = j], stack |-> Append(L.stack, child)]
  BY <1>7 DEF meet
<1>9. PlainPayloads(O) => PlainPayloads(U)
  <2>1. U.nodes[j].data # RootHash
    BY <1>2, <1>5, HashAssumption DEF NewNode, Unset
  <2> QED
    BY <1>4, <1>5, <2>1 DEF PlainPayloads
<1>10. /\ M.visited[child] = j
       /\ \A n \in NodeIDs(T) : n # child => M.visited[n] = L.visited[n]
  BY <1>1, <1>8
<1>11. Copies(M, child) = <<>>
  BY <1>4, <1>8, <1>10 DEF Copies
<1>12. ASSUME NEW n \in Known(T, L) PROVE Copies(M, n) = Copies(L, n)
  <2>1. n # child /\ n \in NodeIDs(T) /\ L.visited[n] \in NodeIDs(O)
    BY <1>12, CopyParts DEF Known
  <2> QED
    BY <1>4, <1>8, <1>10, <2>1 DEF Copies
<1>13. /\ M.sub.trans = emplace(L.sub.trans, h, j) /\ M.sub.tree = U
       /\ M.stack = Append(L.stack, child)
  BY <1>8
<1>14. PlainPayloads(O) => PlainPayloads(M.sub.tree)
  BY <1>9, <1>13
<1>15. M.sub.tree.arcs = O.arcs
  BY <1>5, <1>13
<1> QED
  BY ONLY <1>4, <1>10, <1>11, <1>12, <1>13, <1>14, <1>15

\* A child below the new root is met: it is known then, and waits on the stack
\* if it was not.
LEMMA MeetRight ==
  ASSUME NEW T, IsTree(T, Int), Linked(T), PlainPayloads(T), NEW r \in NodeIDs(T),
         NEW L \in Exact(T, r), NEW parent \in Finished(T, L),
         NEW child \in Reach(T, r), NEW M, M = meet(T, L, child)
  PROVE  /\ M \in Exact(T, r) /\ Finished(T, M) = Finished(T, L)
         /\ child \in Known(T, M) /\ Known(T, L) \subseteq Known(T, M)
         /\ M.sub.tree.arcs = L.sub.tree.arcs
         /\ \A n \in Known(T, L) : Copies(M, n) = Copies(L, n) /\ M.visited[n] = L.visited[n]
<1>1. child \in NodeIDs(T) /\ L \in Copying(T) /\ CopyRight(T, r, L)
  BY DEF Reach, Exact
<1>2. CASE L.visited[child] # invalid
  BY <1>1, <1>2 DEF meet, Known
<1>3. CASE L.visited[child] = invalid
  <2>1. PICK O, j, h : O = L.sub.tree /\ j = Len(O.nodes) + 1 /\ h = T.nodes[child].data
    OBVIOUS
  <2>2. /\ M.sub.trans = emplace(L.sub.trans, h, j)
        /\ M.visited[child] = j /\ \A n \in NodeIDs(T) : n # child => M.visited[n] = L.visited[n]
        /\ M.stack = Append(L.stack, child)
        /\ M.sub.tree.arcs = O.arcs /\ Copies(M, child) = <<>>
        /\ \A n \in Known(T, L) : Copies(M, n) = Copies(L, n)
        /\ PlainPayloads(O) => PlainPayloads(M.sub.tree)
        /\ NodeIDs(O) = 1 .. j - 1 /\ j \in Nat \ {0}
    <3>1. /\ IsTree(T, Int) /\ L \in Copying(T) /\ child \in NodeIDs(T) /\ M = meet(T, L, child)
          /\ L.visited[child] = invalid
      BY <1>1, <1>3
    <3>2. /\ M.sub.trans = emplace(L.sub.trans, h, j)
          /\ M.visited[child] = j /\ \A n \in NodeIDs(T) : n # child => M.visited[n] = L.visited[n]
          /\ M.stack = Append(L.stack, child)
          /\ NodeIDs(O) = 1 .. j - 1 /\ j \in Nat \ {0}
      BY ONLY <2>1, <3>1, ChildAdded
    <3>3. /\ M.sub.tree.arcs = O.arcs /\ Copies(M, child) = <<>>
          /\ \A n \in Known(T, L) : Copies(M, n) = Copies(L, n)
          /\ PlainPayloads(O) => PlainPayloads(M.sub.tree)
      BY ONLY <2>1, <3>1, ChildAdded
    <3> QED
      BY ONLY <3>2, <3>3
  <2>3. PICK K, v, w : K = Known(T, L) /\ v = L.visited /\ w = M.visited
    OBVIOUS
  <2>4. /\ child \notin K /\ K \subseteq NodeIDs(T)
        /\ \A n \in K : w[n] = v[n] /\ v[n] \in 1 .. j - 1 /\ n # child
    BY <1>1, <1>3, <2>1, <2>2, <2>3, CopyParts DEF Known
  <2>5. Known(T, M) = K \union {child}
    BY <1>1, <2>2, <2>3, <2>4 DEF Known, invalid
  <2>6. M \in Copying(T)
    <3>1. parent \in NodeIDs(T) /\ L \in CopyingFrom(T, parent)
      BY <1>1 DEF Finished, Known, CopyingFrom
    <3> QED
      BY <1>1, <3>1, MeetCopies DEF CopyingFrom
  <2>7. /\ \A n \in K : Copies(M, n) = Copies(L, n)
        /\ Copies(M, child) = <<>>
    BY <2>2, <2>3
  <2>8. /\ Entries(M.stack) = Entries(L.stack) \union {child} /\ NoneTwice(M.stack)
        /\ Entries(L.stack) \subseteq K
    <3>1. PICK S, q : S = NodeIDs(T) /\ q = L.stack
      OBVIOUS
    <3>2. q \in Seq(S) /\ Entries(q) \subseteq K /\ M.stack = Append(q, child) /\ child \in S
      BY <1>1, <2>2, <2>3, <3>1, CopyParts
    <3>3. Extends(M.stack, q, child, S)
      BY ONLY <3>2, Pushed
    <3> QED
      BY <1>1, <2>4, <3>1, <3>2, <3>3 DEF Extends, CopyRight
  <2>9. Finished(T, M) = Finished(T, L)
    BY <2>3, <2>4, <2>5, <2>8 DEF Finished
  <2>10. /\ v[r] = root_node /\ r \in K
         /\ \A m, n \in K : v[m] = v[n] => m = n
         /\ CopiesAgree(T, L) /\ K \subseteq Reach(T, r)
         /\ \A n \in Entries(L.stack) : Copies(L, n) = <<>>
         /\ FirstNamed(T, K \ {r}, v, L.sub.trans) /\ PlainPayloads(O)
    BY <1>1, <2>1, <2>3 DEF CopyRight, Known, root_node, invalid
  <2>11. CopiesAgree(T, M)
    <3>1. Len(outArcs(T, child)) \in Nat
      BY <1>1, OutArcsAre
    <3>2. Len(Copies(M, child)) = 0
      BY <2>7
    <3>3. ASSUME NEW n \in K
          PROVE  /\ Len(Copies(M, n)) <= Len(outArcs(T, n))
                 /\ \A i \in 1 .. Len(Copies(M, n)) :
                      /\ T.arcs[outArcs(T, n)[i]].target \in K
                      /\ M.sub.tree.arcs[Copies(M, n)[i]].target
                           = w[T.arcs[outArcs(T, n)[i]].target]
      <4>1. /\ Len(Copies(L, n)) <= Len(outArcs(T, n))
            /\ \A i \in 1 .. Len(Copies(L, n)) :
                 /\ T.arcs[outArcs(T, n)[i]].target \in K
                 /\ O.arcs[Copies(L, n)[i]].target = v[T.arcs[outArcs(T, n)[i]].target]
        BY ONLY <3>3, <2>1, <2>3, <2>10 DEF CopiesAgree
      <4> QED
        BY ONLY <3>3, <4>1, <2>2, <2>4, <2>7
    <3> QED
      BY ONLY <3>1, <3>2, <3>3, <2>3, <2>5 DEF CopiesAgree
  <2>12. FirstNamed(T, Known(T, M) \ {r}, w, M.sub.trans)
    <3>1. PICK R : R = K \ {r}
      OBVIOUS
    <3>2. /\ child \notin R /\ h # RootHash /\ j - 1 \in Nat
          /\ \A n \in R : v[n] \in 1 .. j - 1 /\ w[n] = v[n]
          /\ w[child] = (j - 1) + 1 /\ FirstNamed(T, R, v, L.sub.trans)
          /\ M.sub.trans = emplace(L.sub.trans, h, (j - 1) + 1)
      BY <1>1, <2>1, <2>2, <2>3, <2>4, <2>10, <3>1 DEF PlainPayloads
    <3>3. FirstNamed(T, R \union {child}, w, M.sub.trans)
      BY ONLY <2>1, <3>2, ChildNamed
    <3>4. R \union {child} = Known(T, M) \ {r}
      BY <2>4, <2>5, <2>10, <3>1
    <3> QED
      BY <3>3, <3>4
  <2>13. \A m, n \in K \union {child} : w[m] = w[n] => m = n
    BY <2>2, <2>3, <2>4, <2>10
  <2>14. CopyRight(T, r, M)
    BY <2>2, <2>3, <2>4, <2>5, <2>7, <2>8, <2>10, <2>11, <2>12, <2>13 DEF CopyRight
  <2> QED
    BY <2>1, <2>2, <2>3, <2>4, <2>5, <2>6, <2>7, <2>9, <2>14 DEF Exact
<1> QED
  BY <1>2, <1>3

\* The new arc is behind the copies of its source.
LEMMA ArcAppendedTo ==
  ASSUME NEW T, NEW M \in Copying(T), NEW parent \in Known(T, M), NEW child \in Known(T, M),
         \A m, n \in Known(T, M) : M.visited[m] = M.visited[n] => m = n,
         NEW d \in Int, NEW id, id = Len(M.sub.tree.arcs) + 1,
         NEW U, U = addArc(M.sub.tree, M.visited[parent], M.visited[child], d),
         NEW X, X.visited = M.visited, X.sub.tree = U
  PROVE  /\ U.arcs[id].target = M.visited[child]
         /\ \A a \in ArcIDs(M.sub.tree) : U.arcs[a].target = M.sub.tree.arcs[a].target
         /\ Copies(X, parent) = Append(Copies(M, parent), id)
         /\ \A n \in Known(T, M) \ {parent} : Copies(X, n) = Copies(M, n)
         /\ PlainPayloads(M.sub.tree) => PlainPayloads(U)
<1>1. PICK O : O = M.sub.tree
  OBVIOUS
<1>2. /\ IsTree(O, Int) /\ Linked(O)
      /\ \A n \in Known(T, M) : M.visited[n] \in NodeIDs(O)
  BY <1>1, CopyParts
<1>3. PICK D, s, t : D = Int /\ s = M.visited[parent] /\ t = M.visited[child]
  OBVIOUS
<1>4. /\ IsTree(O, D) /\ Linked(O) /\ s \in NodeIDs(O) /\ t \in NodeIDs(O) /\ d \in D
      /\ U = addArc(O, s, t, d) /\ id = Len(O.arcs) + 1
  BY <1>1, <1>2, <1>3
<1>5. /\ NodeIDs(U) = NodeIDs(O)
      /\ \A n \in NodeIDs(O) :
           outArcs(U, n) = IF n = s THEN Append(outArcs(O, n), id) ELSE outArcs(O, n)
  BY ONLY <1>4, AddArcWalks
<1>6. /\ GrownFrom(U, O) /\ U.arcs[id].target = t
      /\ \A n \in NodeIDs(O) : U.nodes[n].data = O.nodes[n].data
  BY ONLY <1>4, AddArcKeepsLists
<1>7. Copies(X, parent) = Append(Copies(M, parent), id)
  <2>1. Copies(X, parent) = outArcs(U, s) /\ Copies(M, parent) = outArcs(O, s)
    BY <1>1, <1>3 DEF Copies
  <2> QED
    BY ONLY <1>4, <1>5, <2>1
<1>8. ASSUME NEW n \in Known(T, M) \ {parent} PROVE Copies(X, n) = Copies(M, n)
  <2>1. M.visited[n] \in NodeIDs(O) /\ M.visited[n] # s
    BY <1>2, <1>3, <1>8
  <2> QED
    BY <1>1, <1>5, <2>1 DEF Copies
<1>9. \A a \in ArcIDs(O) : U.arcs[a].target = O.arcs[a].target
  BY <1>6 DEF GrownFrom
<1>10. PlainPayloads(O) => PlainPayloads(U)
  BY <1>5, <1>6 DEF PlainPayloads
<1> QED
  BY ONLY <1>1, <1>3, <1>6, <1>7, <1>8, <1>9, <1>10

\* A node that r leads to leads on.
LEMMA ReachedNext ==
  ASSUME NEW T, NEW r, NEW a \in ArcIDs(T),
         T.arcs[a].source \in Reach(T, r), T.arcs[a].target \in NodeIDs(T)
  PROVE  T.arcs[a].target \in Reach(T, r)
BY DEF Reach, Closed

\* A pass copies the next out-arc of the parent, and no other.
LEMMA ArcRight ==
  ASSUME NEW T, IsTree(T, Int), Linked(T), PlainPayloads(T), NEW r \in NodeIDs(T),
         NEW L \in Exact(T, r), NEW parent \in Finished(T, L),
         NEW out, out = outArcs(T, parent), NEW k \in 1 .. Len(out),
         Len(Copies(L, parent)) = k - 1, NEW X, X = copyArc(T, L, out[k])
  PROVE  /\ X \in Exact(T, r) /\ Finished(T, X) = Finished(T, L)
         /\ Len(Copies(X, parent)) = k
         /\ \A n \in Finished(T, L) \ {parent} : Copies(X, n) = Copies(L, n)
<1>1. L \in Copying(T) /\ parent \in Known(T, L) /\ parent \in NodeIDs(T)
  BY DEF Exact, Finished, Known
<1>2. PICK a, child, d, M : /\ a = out[k] /\ child = T.arcs[a].target /\ d = T.arcs[a].data
                            /\ M = meet(T, L, child)
  OBVIOUS
<1>3. /\ a \in ArcIDs(T) /\ T.arcs[a].source = parent /\ child \in NodeIDs(T) /\ d \in Int
      /\ Len(out) \in Nat
  <2>1. /\ Len(out) \in Nat
        /\ a \in ArcIDs(T) /\ T.arcs[a].source = parent /\ T.arcs[a].target \in NodeIDs(T)
    BY <1>1, <1>2, OutArcsAre
  <2>2. T.arcs[a].data \in Int
    BY <2>1, NodeIDsOf
  <2> QED
    BY <1>2, <2>1, <2>2
<1>4. child \in Reach(T, r)
  BY <1>1, <1>2, <1>3, ReachedNext DEF Exact, CopyRight
<1>5. /\ M \in Exact(T, r) /\ Finished(T, M) = Finished(T, L)
      /\ child \in Known(T, M) /\ Known(T, L) \subseteq Known(T, M)
      /\ \A n \in Known(T, L) : Copies(M, n) = Copies(L, n)
  BY <1>2, <1>4, MeetRight
<1>6. M \in Copying(T) /\ CopyRight(T, r, M) /\ parent \in Known(T, M)
  BY <1>1, <1>5 DEF Exact
<1>7. PICK O, id, U : /\ O = M.sub.tree /\ id = Len(O.arcs) + 1
                      /\ U = addArc(O, M.visited[parent], M.visited[child], d)
  OBVIOUS
<1>8. /\ X.visited = M.visited /\ X.stack = M.stack /\ X.sub.trans = M.sub.trans
      /\ X.sub.tree = U
  <2>1. X = [M EXCEPT !.sub.tree = U]
    BY <1>2, <1>3, <1>7 DEF copyArc
  <2>2. /\ M.sub = [tree |-> M.sub.tree, trans |-> M.sub.trans]
        /\ M = [sub |-> M.sub, visited |-> M.visited, stack |-> M.stack]
    BY <1>6, CopyParts
  <2> QED
    BY <2>1, <2>2
<1>9. X \in Copying(T)
  <2>1. L \in CopyingFrom(T, parent)
    BY <1>1 DEF CopyingFrom, Known
  <2> QED
    BY <1>1, <1>2, <1>3, <2>1, ArcCopied DEF CopyingFrom
<1>10. \A m, n \in Known(T, M) : M.visited[m] = M.visited[n] => m = n
  BY <1>6 DEF CopyRight
<1>11. PICK K : K = Known(T, M)
  OBVIOUS
<1>12. /\ X.visited = M.visited /\ X.stack = M.stack /\ X.sub.trans = M.sub.trans
       /\ X.sub.tree = U /\ U.arcs[id].target = M.visited[child]
       /\ \A b \in ArcIDs(O) : U.arcs[b].target = O.arcs[b].target
       /\ Copies(X, parent) = Append(Copies(M, parent), id)
       /\ \A n \in K \ {parent} : Copies(X, n) = Copies(M, n)
       /\ PlainPayloads(O) => PlainPayloads(U)
  <2>1. /\ U.arcs[id].target = M.visited[child]
        /\ \A b \in ArcIDs(M.sub.tree) : U.arcs[b].target = M.sub.tree.arcs[b].target
        /\ Copies(X, parent) = Append(Copies(M, parent), id)
        /\ \A n \in Known(T, M) \ {parent} : Copies(X, n) = Copies(M, n)
        /\ PlainPayloads(M.sub.tree) => PlainPayloads(U)
    BY ONLY <1>3, <1>5, <1>6, <1>7, <1>8, <1>10, ArcAppendedTo
  <2> QED
    BY <1>7, <1>8, <1>11, <2>1
<1>13. Known(T, X) = K /\ Finished(T, X) = Finished(T, L)
  BY <1>5, <1>11, <1>12 DEF Known, Finished
<1>14. PICK c : c = Copies(M, parent)
  OBVIOUS
<1>15. /\ \A n \in K : /\ Len(Copies(M, n)) \in Nat
                       /\ \A i \in 1 .. Len(Copies(M, n)) : Copies(M, n)[i] \in ArcIDs(O)
       /\ c \in Seq(Nat)
  <2>1. ASSUME NEW n \in K
        PROVE  /\ Copies(M, n) \in Seq(Nat) /\ Len(Copies(M, n)) \in Nat
               /\ \A i \in 1 .. Len(Copies(M, n)) : Copies(M, n)[i] \in ArcIDs(O)
    <3>1. PICK D, w, m : D = Int /\ m = M.visited[n] /\ w = outArcs(O, m)
      OBVIOUS
    <3>2. IsTree(O, D) /\ Linked(O) /\ m \in NodeIDs(O) /\ w = outArcs(O, m)
      BY <1>6, <1>7, <1>11, <2>1, <3>1, CopyParts
    <3>3. /\ w \in Seq(Nat) /\ Len(w) \in Nat
          /\ \A i \in 1 .. Len(w) : w[i] \in ArcIDs(O)
      BY ONLY <3>2, OutListOf
    <3> QED
      BY <1>7, <3>1, <3>3 DEF Copies
  <2> QED
    BY <1>6, <1>11, <1>14, <2>1
<1>16. /\ Len(c) = k - 1 /\ Copies(X, parent) = Append(c, id)
       /\ Len(Copies(X, parent)) = k /\ Copies(X, parent)[k] = id
       /\ \A i \in 1 .. k - 1 : Copies(X, parent)[i] = c[i]
  <2>1. c \in Seq(Nat) /\ Len(c) = k - 1 /\ k \in Nat
    BY <1>1, <1>3, <1>5, <1>14, <1>15
  <2>2. PICK e : e = Append(c, id)
    OBVIOUS
  <2>3. Len(e) = k /\ e[k] = id /\ \A i \in 1 .. k - 1 : e[i] = c[i]
    BY ONLY <2>1, <2>2
  <2> QED
    BY <1>12, <1>14, <2>1, <2>2, <2>3
<1>17. ASSUME NEW n \in K
       PROVE  /\ Len(Copies(X, n)) <= Len(outArcs(T, n))
              /\ \A i \in 1 .. Len(Copies(X, n)) :
                   /\ T.arcs[outArcs(T, n)[i]].target \in K
                   /\ U.arcs[Copies(X, n)[i]].target = M.visited[T.arcs[outArcs(T, n)[i]].target]
  <2>1. /\ Len(Copies(M, n)) <= Len(outArcs(T, n))
        /\ \A i \in 1 .. Len(Copies(M, n)) :
             /\ T.arcs[outArcs(T, n)[i]].target \in K
             /\ O.arcs[Copies(M, n)[i]].target = M.visited[T.arcs[outArcs(T, n)[i]].target]
    BY <1>6, <1>7, <1>11, <1>17 DEF CopyRight, CopiesAgree
  <2>2. \A i \in 1 .. Len(Copies(M, n)) :
          U.arcs[Copies(M, n)[i]].target = O.arcs[Copies(M, n)[i]].target
    BY <1>12, <1>15
  <2>3. CASE n # parent
    BY <1>12, <2>1, <2>2, <2>3
  <2>4. CASE n = parent
    <3>1. \A i \in 1 .. k : i = k \/ i \in 1 .. Len(c)
      BY <1>3, <1>16
    <3>2. T.arcs[out[k]].target = child /\ child \in K
      BY <1>2, <1>5, <1>11
    <3>3. k <= Len(out)
      BY <1>3
    <3>4. ASSUME NEW i \in 1 .. k
          PROVE  /\ T.arcs[out[i]].target \in K
                 /\ U.arcs[Copies(X, parent)[i]].target = M.visited[T.arcs[out[i]].target]
      <4>1. CASE i = k
        BY <1>12, <1>16, <3>2, <4>1
      <4>2. CASE i \in 1 .. Len(c)
        BY <1>14, <1>16, <2>1, <2>2, <2>4, <4>2
      <4> QED
        BY <3>1, <4>1, <4>2
    <3> QED
      BY <1>16, <2>4, <3>3, <3>4
  <2> QED
    BY <2>3, <2>4
<1>18. CopiesAgree(T, X)
  BY <1>12, <1>13, <1>17 DEF CopiesAgree
<1>19. parent \notin Entries(X.stack) /\ Entries(X.stack) \subseteq K
  BY <1>5, <1>6, <1>11, <1>12, CopyParts DEF Finished
<1>20. CopyRight(T, r, X)
  <2>1. \A n \in Entries(X.stack) : Copies(X, n) = <<>>
    BY <1>6, <1>12, <1>19 DEF CopyRight
  <2>2. /\ M.visited[r] = root_node /\ NoneTwice(M.stack) /\ K \subseteq Reach(T, r)
        /\ FirstNamed(T, K \ {r}, M.visited, M.sub.trans) /\ PlainPayloads(O)
    BY <1>6, <1>7, <1>11 DEF CopyRight
  <2>3. \A m, n \in K : M.visited[m] = M.visited[n] => m = n
    BY <1>10, <1>11
  <2> QED
    BY ONLY <1>12, <1>13, <1>18, <2>1, <2>2, <2>3 DEF CopyRight
<1>21. \A n \in Finished(T, L) \ {parent} : Copies(X, n) = Copies(L, n)
  BY <1>5, <1>11, <1>12 DEF Finished
<1> QED
  BY <1>9, <1>13, <1>16, <1>20, <1>21 DEF Exact

\* A turn finishes one node more, with all of its out-arcs.
LEMMA TurnRight ==
  ASSUME NEW T, IsTree(T, Int), Linked(T), PlainPayloads(T), NEW r \in NodeIDs(T),
         NEW L \in Exact(T, r), L.stack # <<>>, AllCopied(T, L, Finished(T, L)),
         NEW X, X = turn(T, L)
  PROVE  /\ X \in Exact(T, r) /\ AllCopied(T, X, Finished(T, X))
         /\ \E n \in NodeIDs(T) \ Finished(T, L) : Finished(T, X) = Finished(T, L) \union {n}
<1>1. PICK parent, pass, out, N, F, L0 :
        /\ parent = L.stack[Len(L.stack)] /\ Passes(T, L, parent, pass)
        /\ out = outArcs(T, parent) /\ N = Len(out) /\ F = Finished(T, L) \union {parent}
        /\ L0 = [L EXCEPT !.stack = SubSeq(@, 1, Len(@) - 1)]
  BY TurnPasses DEF Exact
<1>2. /\ L0 \in Exact(T, r) /\ Copies(L0, parent) = <<>> /\ Finished(T, L0) = F
      /\ parent \in Known(T, L) \ Finished(T, L)
      /\ \A n : Copies(L0, n) = Copies(L, n)
  <2>1. L \in Copying(T)
    BY DEF Exact
  <2>2. L0 \in Copying(T)
    BY <1>1, <2>1, TopCopies DEF CopyingFrom
  <2>3. L = [sub |-> L.sub, visited |-> L.visited, stack |-> L.stack]
    BY <2>1, CopyParts
  <2>4. /\ L0.sub = L.sub /\ L0.visited = L.visited
        /\ L0.stack = SubSeq(L.stack, 1, Len(L.stack) - 1)
    BY <1>1, <2>3
  <2>5. parent = L.stack[Len(L.stack)]
    BY <1>1
  <2>6. /\ L0 \in Exact(T, r)
        /\ parent \in Known(T, L) \ Finished(T, L) /\ Copies(L0, parent) = <<>>
        /\ Finished(T, L0) = Finished(T, L) \union {parent}
        /\ \A n : Copies(L0, n) = Copies(L, n)
    BY ONLY L \in Exact(T, r), L.stack # <<>>, <2>2, <2>4, <2>5, TopTaken
  <2> QED
    BY <1>1, <2>6
<1>3. /\ pass[0] = L0 /\ pass[N] = X
      /\ \A i \in 1 .. N : pass[i] = copyArc(T, pass[i - 1], out[i])
  BY <1>1 DEF Passes
<1>4. parent \in F /\ parent \in NodeIDs(T)
  BY <1>1, <1>2 DEF Known
<1>5. N \in Nat
  BY <1>1, <1>4, OutArcsAre
<1> DEFINE Good == {i \in 0 .. N :
                      /\ pass[i] \in Exact(T, r) /\ Finished(T, pass[i]) = F
                      /\ Len(Copies(pass[i], parent)) = i
                      /\ \A n \in F \ {parent} : Copies(pass[i], n) = Copies(L, n)}
<1>6. 0 \in Good
  BY <1>2, <1>3, <1>5
<1>7. ASSUME NEW i \in 1 .. N, i - 1 \in Good PROVE i \in Good
  <2>1. PICK Y, Z : Y = pass[i - 1] /\ Z = pass[i]
    OBVIOUS
  <2>2. /\ Y \in Exact(T, r) /\ Finished(T, Y) = F /\ Len(Copies(Y, parent)) = i - 1
        /\ \A n \in F \ {parent} : Copies(Y, n) = Copies(L, n)
    BY <1>7, <2>1
  <2>3. Z = copyArc(T, Y, out[i]) /\ parent \in Finished(T, Y) /\ i \in 1 .. Len(out)
    BY <1>1, <1>3, <1>4, <2>1, <2>2
  <2>4. /\ Z \in Exact(T, r) /\ Finished(T, Z) = Finished(T, Y)
        /\ Len(Copies(Z, parent)) = i
        /\ \A n \in Finished(T, Y) \ {parent} : Copies(Z, n) = Copies(Y, n)
    BY <1>1, <2>2, <2>3, ArcRight
  <2> QED
    BY <2>1, <2>2, <2>4
<1>8. \A i \in 0 .. N : i \in Good
  <2> HIDE DEF Good
  <2> QED
    BY <1>5, <1>6, <1>7, SetInduction
<1>9. /\ X \in Exact(T, r) /\ Finished(T, X) = F
      /\ Len(Copies(X, parent)) = N
      /\ \A n \in F \ {parent} : Copies(X, n) = Copies(L, n)
  BY <1>3, <1>5, <1>8
<1> HIDE DEF Good
<1>10. AllCopied(T, X, F)
  BY <1>1, <1>9 DEF AllCopied
<1> QED
  BY <1>1, <1>2, <1>4, <1>9, <1>10

\* What k turns lead to.
TurnsMade(T, r, L, k) ==
  /\ L \in Exact(T, r) /\ AllCopied(T, L, Finished(T, L))
  /\ L.stack # <<>> => Cardinality(Finished(T, L)) >= k

\* The loop comes to its end with everything finished that is known.
LEMMA LoopRight ==
  ASSUME NEW T, IsTree(T, Int), Linked(T), PlainPayloads(T), NEW r \in NodeIDs(T),
         NEW L, L = makeSubTree(T, r)
  PROVE  L \in Exact(T, r) /\ AllCopied(T, L, Known(T, L))
<1>1. PICK loop : Turns(T, r, loop)
  BY LoopTurns
<1>2. PICK N \in Nat : N = Len(T.nodes) /\ NodeIDs(T) = 1 .. N
  BY NodeIDsOf
<1>3. /\ loop[0] = started(T, r) /\ L = loop[N]
      /\ \A k \in 1 .. N :
           loop[k] = IF loop[k - 1].stack = <<>> THEN loop[k - 1] ELSE turn(T, loop[k - 1])
  BY <1>1, <1>2 DEF Turns
<1>4. IsFiniteSet(NodeIDs(T)) /\ Cardinality(NodeIDs(T)) = N
  BY <1>2, FS_Interval
<1>5. ASSUME NEW Y
      PROVE  /\ Finished(T, Y) \in SUBSET NodeIDs(T) /\ IsFiniteSet(Finished(T, Y))
             /\ Cardinality(Finished(T, Y)) \in Nat
  <2>1. Finished(T, Y) \in SUBSET NodeIDs(T)
    BY DEF Finished, Known
  <2> QED
    BY <1>4, <2>1, FS_Subset, FS_CardinalityType
<1> DEFINE Good == {k \in 0 .. N : TurnsMade(T, r, loop[k], k)}
<1>6. 0 \in Good
  <2>1. loop[0] \in Exact(T, r) /\ Finished(T, loop[0]) = {}
    BY <1>3, BeginsRight
  <2>2. Cardinality(Finished(T, loop[0])) >= 0
    BY <1>5
  <2>3. AllCopied(T, loop[0], Finished(T, loop[0]))
    BY <2>1 DEF AllCopied
  <2>4. TurnsMade(T, r, loop[0], 0)
    BY <2>1, <2>2, <2>3 DEF TurnsMade
  <2> QED
    BY <2>4
<1>7. ASSUME NEW k \in 1 .. N, k - 1 \in Good PROVE k \in Good
  <2>1. PICK Y, Z : Y = loop[k - 1] /\ Z = loop[k]
    OBVIOUS
  <2>2. /\ TurnsMade(T, r, Y, k - 1)
        /\ Z = IF Y.stack = <<>> THEN Y ELSE turn(T, Y)
    BY <1>3, <1>7, <2>1
  <2>3. ASSUME Y.stack = <<>> PROVE TurnsMade(T, r, Z, k)
    BY <2>2, <2>3 DEF TurnsMade
  <2>4. ASSUME Y.stack # <<>> PROVE TurnsMade(T, r, Z, k)
    <3>1. Z = turn(T, Y)
      BY <2>2, <2>4
    <3>2. /\ Z \in Exact(T, r) /\ AllCopied(T, Z, Finished(T, Z))
          /\ \E n \in NodeIDs(T) \ Finished(T, Y) : Finished(T, Z) = Finished(T, Y) \union {n}
      BY <2>2, <2>4, <3>1, TurnRight DEF TurnsMade
    <3>3. PICK F, n : /\ F = Finished(T, Y) /\ n \notin F
                      /\ Finished(T, Z) = F \union {n}
      BY <3>2
    <3>4. Cardinality(F \union {n}) = Cardinality(F) + 1
      BY <1>5, <3>3, FS_AddElement
    <3>5. Cardinality(Finished(T, Z)) >= k
      <4>1. PICK c : c = Cardinality(F)
        OBVIOUS
      <4>2. c \in Nat /\ c >= k - 1
        BY <1>5, <2>2, <2>4, <3>3, <4>1 DEF TurnsMade
      <4>3. Cardinality(Finished(T, Z)) = c + 1
        BY <3>3, <3>4, <4>1
      <4> QED
        BY <4>2, <4>3
    <3> QED
      BY <3>2, <3>5 DEF TurnsMade
  <2>5. TurnsMade(T, r, loop[k], k)
    BY <2>1, <2>3, <2>4
  <2> QED
    BY <2>5
<1>8. \A k \in 0 .. N : k \in Good
  <2> HIDE DEF Good
  <2> QED
    BY <1>6, <1>7, SetInduction
<1>9. /\ L \in Exact(T, r) /\ AllCopied(T, L, Finished(T, L))
      /\ L.stack = <<>> \/ Cardinality(Finished(T, L)) >= N
  BY <1>3, <1>8 DEF TurnsMade
<1> HIDE DEF Good
<1>10. L.stack = <<>>
  <2> SUFFICES ASSUME L.stack # <<>> PROVE FALSE
    OBVIOUS
  <2>1. L \in Copying(T)
    BY <1>9 DEF Exact
  <2>2. PICK q, S : q = L.stack /\ S = NodeIDs(T)
    OBVIOUS
  <2>3. q \in Seq(S) /\ q # <<>> /\ Entries(q) \subseteq S
    BY <2>1, <2>2, CopyParts DEF Known
  <2>6. q[1] \in Entries(q)
    BY <2>3 DEF Entries
  <2>4. Cardinality(Finished(T, L)) <= N /\ (N = Cardinality(Finished(T, L)) => NodeIDs(T) = Finished(T, L))
    BY <1>4, <1>5, FS_Subset
  <2>5. NodeIDs(T) = Finished(T, L)
    BY <1>5, <1>9, <2>4
  <2> QED
    BY <2>2, <2>3, <2>5, <2>6 DEF Finished
<1>11. Finished(T, L) = Known(T, L)
  BY <1>10 DEF Finished, Entries
<1> QED
  BY <1>9, <1>11

---------------------------------------------------------------------------
(***************************************************************************)
(* The client.                                                             *)
(***************************************************************************)
\* A tree and its table become those of the client.
LEMMA Becomes ==
  ASSUME NEW S, Hashed(S), Become(S)
  PROVE  Hashed(This)' /\ S = [tree |-> tree', trans |-> m_trans']
<1>1. S = [tree |-> tree', trans |-> m_trans']
  BY DEF Become, Hashed
<1> QED
  BY <1>1 DEF This, HashTree, Hashed

\* addNode keeps the other nodes.
LEMMA NodesKept ==
  ASSUME NEW T, IsTree(T, Int), Linked(T), NEW d \in Int, NEW U, U = addNode(T, d)
  PROVE  /\ \A n \in NodeIDs(T) : U.nodes[n] = T.nodes[n]
         /\ U.nodes[Len(T.nodes) + 1].data = d
         /\ Len(U.nodes) = Len(T.nodes) + 1
<1>1. PICK D : D = Int
  OBVIOUS
<1>2. IsTree(T, D) /\ Linked(T) /\ d \in D /\ U = addNode(T, d)
  BY <1>1
<1>3. /\ \A n \in NodeIDs(T) : U.nodes[n] = T.nodes[n]
      /\ U.nodes[Len(T.nodes) + 1] = NewNode(d) /\ Len(U.nodes) = Len(T.nodes) + 1
  BY ONLY <1>2, AddNodeKeepsLists
<1> QED
  BY <1>3 DEF NewNode

\* A new tree is found under root_hash, and nothing else is.
LEMMA HashStarts == Init => HashInv
<1> SUFFICES ASSUME Init PROVE HashInv
  OBVIOUS
<1>1. PICK d \in Data : /\ tree = NewHashTree(d).tree /\ m_trans = NewHashTree(d).trans
                        /\ added = << [hash |-> RootHash, data |-> d] >>
  BY DEF Init
<1>2. d \in Int /\ RootHash \in Int
  BY HashAssumption
<1>3. PICK S : S = NewHashTree(d)
  OBVIOUS
<1>4. /\ Hashed(S) /\ Len(tree.nodes) = 1 /\ tree.nodes[1].data = d
      /\ DOMAIN m_trans = {RootHash}
  BY <1>1, <1>2, <1>3, NewHashed
<1>5. S = [tree |-> tree, trans |-> m_trans]
  BY <1>1, <1>3, <1>4 DEF Hashed
<1>6. Hashed(This)
  BY <1>4, <1>5 DEF This, HashTree
<1>7. NodeIDs(tree) = {1} /\ contains(m_trans, RootHash) = 1
  BY <1>4, <1>6 DEF NodeIDs, Hashed, NamesNodes, This, HashTree, root_node
<1>8. PICK p : p = [hash |-> RootHash, data |-> d]
  OBVIOUS
<1>9. p \in Positions /\ p.hash = RootHash /\ p.data = d /\ added = <<p>>
  BY <1>1, <1>2, <1>8 DEF Positions
<1>10. added \in Seq(Positions) /\ Len(added) = 1 /\ added[1] = p
  BY <1>9
<1>11. FindsEach /\ PayloadKept
  BY <1>4, <1>7, <1>9, <1>10 DEF FindsEach, PayloadKept
<1>12. PlainPayloads(tree)
  BY <1>4, <1>7, HashAssumption DEF PlainPayloads
<1> QED
  BY <1>4, <1>6, <1>10, <1>11, <1>12 DEF HashInv, Init

\* A position that is added is found, at its node; the others at theirs.
LEMMA PositionAdded == HashInv /\ AddNode => HashInv'
<1> SUFFICES ASSUME HashInv, AddNode PROVE HashInv'
  OBVIOUS
<1>1. PICK h \in Hashes, d \in Data : /\ contains(m_trans, h) = invalid
                                      /\ Become(addHashed(This, h, <<h, d>>))
                                      /\ added' = Append(added, [hash |-> h, data |-> d])
                                      /\ made' = made
  BY DEF AddNode
<1>2. PICK S, args : S = This /\ args = <<h, d>>
  OBVIOUS
<1>3. /\ Hashed(S) /\ S.tree = tree /\ S.trans = m_trans
      /\ h \in Int /\ d \in Int /\ payload(args) = d
  BY <1>2, HashAssumption DEF HashInv, This, HashTree, payload
<1>4. PICK U : U = addHashed(S, h, args)
  OBVIOUS
<1>5. Hashed(U)
  BY <1>3, <1>4, AddHashedKeeps
<1>6. /\ U.tree = addNode(tree, d) /\ U.trans = emplace(m_trans, h, Len(tree.nodes) + 1)
      /\ IsTree(tree, Int) /\ Linked(tree) /\ Len(tree.nodes) \in Nat
  <2>1. U.tree = addNode(tree, d) /\ U.trans = emplace(m_trans, h, Len(tree.nodes) + 1)
    BY <1>3, <1>4 DEF addHashed, HashTree
  <2>2. IsTree(tree, Int) /\ Linked(tree)
    BY <1>3 DEF Hashed
  <2> QED
    BY <2>1, <2>2, NodeIDsOf
<1>7. Become(U)
  BY <1>1, <1>2, <1>4
<1>8. Hashed(This)' /\ U.tree = tree' /\ U.trans = m_trans'
  BY <1>5, <1>7, Becomes
<1>9. PICK k, p : k = Len(tree.nodes) /\ p = [hash |-> h, data |-> d]
  OBVIOUS
<1>10. /\ \A n \in NodeIDs(tree) : tree'.nodes[n] = tree.nodes[n]
       /\ tree'.nodes[k + 1].data = d /\ Len(tree'.nodes) = k + 1
  <2>1. tree' = addNode(tree, d) /\ d \in Int /\ IsTree(tree, Int) /\ Linked(tree)
    BY <1>3, <1>6, <1>8
  <2>2. /\ \A n \in NodeIDs(tree) : tree'.nodes[n] = tree.nodes[n]
        /\ tree'.nodes[Len(tree.nodes) + 1].data = d
        /\ Len(tree'.nodes) = Len(tree.nodes) + 1
    BY ONLY <2>1, NodesKept
  <2> QED
    BY <1>9, <2>2
<1>11. /\ k \in Nat /\ NodeIDs(tree) = 1 .. k /\ NodeIDs(tree') = 1 .. k \union {k + 1}
       /\ Len(tree'.nodes) = k + 1
  BY <1>6, <1>9, <1>10 DEF NodeIDs
<1>12. /\ added \in Seq(Positions) /\ Len(added) = k /\ p \in Positions
       /\ p.hash = h /\ p.data = d /\ added' = Append(added, p)
  BY <1>1, <1>3, <1>9 DEF HashInv, Positions
<1>13. /\ added' \in Seq(Positions) /\ Len(added') = k + 1 /\ added'[k + 1] = p
       /\ \A n \in 1 .. k : added'[n] = added[n]
  BY <1>11, <1>12
<1>14. /\ DOMAIN m_trans' = DOMAIN m_trans \union {h}
       /\ \A g \in DOMAIN m_trans : contains(m_trans', g) = contains(m_trans, g)
       /\ h \notin DOMAIN m_trans => contains(m_trans', h) = k + 1
  BY <1>6, <1>8, <1>9 DEF emplace, contains
<1>15. h \notin DOMAIN m_trans
  <2>1. \A g \in DOMAIN m_trans : contains(m_trans, g) \in 1 .. k
    BY <1>3, <1>9, <1>11 DEF Hashed, NamesNodes, NamesOnce, contains
  <2> QED
    BY <1>1, <2>1 DEF invalid
<1>16. ASSUME ~ made' PROVE FindsEach' /\ PayloadKept'
  <2>1. FindsEach /\ PayloadKept
    BY <1>1, <1>16 DEF HashInv
  <2>2. ASSUME NEW n \in 1 .. k PROVE contains(m_trans', added'[n].hash) = n
    <3>1. contains(m_trans, added[n].hash) = n /\ n # invalid
      BY <1>11, <2>1 DEF FindsEach, invalid
    <3>2. added[n].hash \in DOMAIN m_trans
      BY <3>1 DEF contains
    <3> QED
      BY <1>13, <1>14, <3>1, <3>2
  <2>3. contains(m_trans', added'[k + 1].hash) = k + 1
    BY <1>12, <1>13, <1>14, <1>15
  <2>4. ASSUME NEW g \in DOMAIN m_trans' PROVE \E n \in NodeIDs(tree') : added'[n].hash = g
    <3>1. CASE g = h
      BY <1>11, <1>12, <1>13, <3>1
    <3>2. CASE g # h
      <4>1. PICK n \in 1 .. k : added[n].hash = g
        BY <1>11, <1>14, <2>1, <3>2 DEF FindsEach
      <4> QED
        BY <1>11, <1>13, <4>1
    <3> QED
      BY <3>1, <3>2
  <2>5. FindsEach'
    BY <1>11, <2>2, <2>3, <2>4 DEF FindsEach
  <2>8. PayloadKept'
    BY <1>11, <1>12, <1>13, <1>10, <2>1 DEF PayloadKept
  <2> QED
    BY <2>5, <2>8
<1>17. PlainPayloads(tree')
  <2>1. PlainPayloads(tree) /\ d # RootHash
    BY HashAssumption DEF HashInv
  <2> QED
    BY <1>10, <1>11, <2>1 DEF PlainPayloads
<1> QED
  BY <1>1, <1>8, <1>11, <1>13, <1>16, <1>17 DEF HashInv

\* Arcs change neither the table nor a payload.
LEMMA ArcAddedHash == HashInv /\ AddArc => HashInv'
<1> SUFFICES ASSUME HashInv, AddArc PROVE HashInv'
  OBVIOUS
<1>1. PICK s \in NodeIDs(tree), h \in Hashes \union {RootHash} :
        /\ contains(m_trans, h) # invalid
        /\ tree' = addArc(tree, s, contains(m_trans, h), NoArcData)
        /\ m_trans' = m_trans /\ added' = added /\ made' = made
  BY DEF AddArc
<1>2. PICK T, V, D, t, d : /\ T = tree /\ V = tree' /\ D = Int
                           /\ t = contains(m_trans, h) /\ d = NoArcData
  OBVIOUS
<1>3. Hashed([tree |-> tree, trans |-> m_trans])
  BY DEF HashInv, This, HashTree
<1>4. /\ IsTree(T, D) /\ Linked(T) /\ NamesNodes(m_trans, T) /\ m_trans \in Tables
      /\ d \in D /\ V = addArc(T, s, t, d) /\ s \in NodeIDs(T)
  BY <1>1, <1>2, <1>3 DEF Hashed, NoArcData
<1>5. t \in NodeIDs(T)
  BY <1>1, <1>2, <1>4 DEF NamesNodes, NamesOnce, contains, NodeIDs
<1>6. /\ IsTree(V, D) /\ Linked(V) /\ Len(V.nodes) = Len(T.nodes)
      /\ \A n \in NodeIDs(T) : V.nodes[n].data = T.nodes[n].data
  BY ONLY <1>4, <1>5, AddArcKeepsLists
<1>7. NodeIDs(tree') = NodeIDs(tree) /\ Len(tree'.nodes) = Len(tree.nodes)
  BY <1>2, <1>6 DEF NodeIDs
<1>8. Hashed([tree |-> V, trans |-> m_trans])
  BY <1>2, <1>4, <1>6 DEF Hashed, IsTree, NamesNodes
<1>9. Hashed(This)'
  BY <1>1, <1>2, <1>8 DEF This, HashTree
<1>10. ASSUME ~ made' PROVE FindsEach' /\ PayloadKept'
  BY <1>1, <1>2, <1>6, <1>7, <1>10 DEF HashInv, FindsEach, PayloadKept
<1>11. PlainPayloads(tree')
  BY <1>2, <1>6, <1>7 DEF HashInv, PlainPayloads
<1> QED
  BY <1>1, <1>7, <1>9, <1>10, <1>11 DEF HashInv

\* The sub-tree has a table of its own, which is not exact.
LEMMA SubTreeTaken == ASSUME NEW r \in NodeIDs(tree), HashInv, MakeSubTree(r) PROVE HashInv'
<1>1. PICK L : L = makeSubTree(tree, r)
  OBVIOUS
<1>2. /\ Become(L.sub) /\ made' = TRUE
      /\ added' = [i \in NodeIDs(L.sub.tree) |->
                     added[CHOOSE n \in NodeIDs(tree) : L.visited[n] = i]]
  BY <1>1 DEF MakeSubTree
<1>3. IsTree(tree, Int) /\ Linked(tree) /\ PlainPayloads(tree)
  BY DEF HashInv, Hashed, This, HashTree
<1>4. L \in Copying(tree) /\ PlainPayloads(L.sub.tree)
  BY <1>1, <1>3, LoopRight DEF Exact, CopyRight
<1>5. /\ Hashed(L.sub)
      /\ \A i \in NodeIDs(L.sub.tree) : \E n \in NodeIDs(tree) : L.visited[n] = i
  BY <1>4 DEF Copying
<1>6. Hashed(This)' /\ L.sub = [tree |-> tree', trans |-> m_trans']
  BY <1>2, <1>5, Becomes
<1>7. NodeIDs(L.sub.tree) = 1 .. Len(tree'.nodes) /\ Len(tree'.nodes) \in Nat
  <2>1. IsTree(tree', Int)
    BY <1>5, <1>6 DEF Hashed
  <2> QED
    BY <1>6, <2>1, NodeIDsOf
<1>8. /\ added \in Seq(Positions) /\ NodeIDs(tree) = 1 .. Len(added)
  BY DEF HashInv, NodeIDs
<1>9. ASSUME NEW i \in NodeIDs(L.sub.tree)
      PROVE  added[CHOOSE n \in NodeIDs(tree) : L.visited[n] = i] \in Positions
  <2>1. (CHOOSE n \in NodeIDs(tree) : L.visited[n] = i) \in NodeIDs(tree)
    BY <1>5
  <2> QED
    BY <1>8, <2>1
<1>10. added' \in Seq(Positions) /\ Len(added') = Len(tree'.nodes)
  <2>1. PICK k \in Nat : k = Len(tree'.nodes)
    BY <1>7
  <2>2. PICK chosen : chosen = [i \in NodeIDs(L.sub.tree) |-> CHOOSE n \in NodeIDs(tree) : L.visited[n] = i]
    OBVIOUS
  <2>3. \A i \in NodeIDs(L.sub.tree) : added[chosen[i]] \in Positions
    BY <1>9, <2>2
  <2>4. added' = [i \in 1 .. k |-> added[chosen[i]]]
    BY <1>2, <1>7, <2>1, <2>2
  <2>5. \A i \in 1 .. k : added[chosen[i]] \in Positions
    BY <1>7, <2>1, <2>3
  <2> QED
    BY ONLY <2>1, <2>4, <2>5
<1>11. PlainPayloads(tree')
  BY <1>4, <1>6
<1> QED
  BY <1>2, <1>6, <1>10, <1>11 DEF HashInv

\* Every step of the client keeps the invariant.
LEMMA HashSteps == HashInv /\ [Next]_vars => HashInv'
<1> SUFFICES ASSUME HashInv, [Next]_vars PROVE HashInv'
  OBVIOUS
<1>1. CASE AddNode
  BY <1>1, PositionAdded
<1>2. CASE AddArc
  BY <1>2, ArcAddedHash
<1>3. ASSUME NEW r \in NodeIDs(tree), MakeSubTree(r) PROVE HashInv'
  BY <1>3, SubTreeTaken
<1>4. CASE UNCHANGED vars
  BY <1>4 DEF vars, HashInv, Hashed, This, HashTree, FindsEach, PayloadKept
<1> QED
  BY <1>1, <1>2, <1>3, <1>4 DEF Next

\* The invariant says what TableExact does.
LEMMA HashMeans == HashInv => TableExact
<1> SUFFICES ASSUME HashInv PROVE TableExact
  OBVIOUS
<1>1. /\ IsTree(tree, Int) /\ NamesNodes(m_trans, tree)
  BY DEF HashInv, Hashed, This, HashTree
<1>2. NodeIDs(tree) = 1 .. Len(tree.nodes) /\ \A n \in NodeIDs(tree) : n # invalid
  BY <1>1, NodeIDsOf
<1>3. TypeOK
  BY <1>1, <1>2 DEF TypeOK, NamesNodes, NamesOnce, HashInv
<1>4. ASSUME FindsEach PROVE OneNodePerHash /\ NonExistingIsInvalid
  BY <1>4 DEF FindsEach, OneNodePerHash, NonExistingIsInvalid, contains
<1> QED
  BY <1>3, <1>4 DEF TableExact, HashInv, FindsEach

\* However many nodes and arcs are added and whatever sub-trees are made, the
\* table names nodes of its tree, each once, and has the root; until the first
\* sub-tree it is exact.
THEOREM TableStaysExact == Spec => []TableExact
<1>1. Spec => []HashInv
  BY HashStarts, HashSteps, PTL DEF Spec
<1> QED
  BY <1>1, HashMeans, PTL

\* What makeSubTree keeps is exact.
LEMMA SubTreeMeans == ASSUME HashInv, NEW r \in NodeIDs(tree), MakeSubTree(r) PROVE KeepsArcs(r)
<1>1. PICK L, kept : L = makeSubTree(tree, r) /\ kept = Reach(tree, r)
  OBVIOUS
<1>2. IsTree(tree, Int) /\ Linked(tree) /\ PlainPayloads(tree)
  BY DEF HashInv, Hashed, This, HashTree
<1>3. L \in Exact(tree, r) /\ AllCopied(tree, L, Known(tree, L))
  BY <1>1, <1>2, LoopRight
<1>4. tree' = L.sub.tree /\ m_trans' = L.sub.trans
  BY <1>1 DEF MakeSubTree, Become
<1>5. PICK K : K = Known(tree, L)
  OBVIOUS
<1>6. ASSUME NEW n \in K
      PROVE  /\ Len(outArcs(tree', L.visited[n])) = Len(outArcs(tree, n))
             /\ \A i \in 1 .. Len(outArcs(tree, n)) :
                  /\ tree.arcs[outArcs(tree, n)[i]].target \in K
                  /\ tree'.arcs[outArcs(tree', L.visited[n])[i]].target
                       = L.visited[tree.arcs[outArcs(tree, n)[i]].target]
  <2>1. /\ Len(Copies(L, n)) = Len(outArcs(tree, n))
        /\ \A i \in 1 .. Len(Copies(L, n)) :
             /\ tree.arcs[outArcs(tree, n)[i]].target \in K
             /\ L.sub.tree.arcs[Copies(L, n)[i]].target
                  = L.visited[tree.arcs[outArcs(tree, n)[i]].target]
    BY <1>3, <1>5, <1>6 DEF AllCopied, Exact, CopyRight, CopiesAgree
  <2>2. Copies(L, n) = outArcs(tree', L.visited[n])
    BY <1>4 DEF Copies
  <2> QED
    BY <1>4, <2>1, <2>2
<1>7. Closed(tree, K)
  <2> SUFFICES ASSUME NEW a \in ArcIDs(tree), tree.arcs[a].source \in K
               PROVE  tree.arcs[a].target \in K
    BY DEF Closed
  <2>1. PICK n : n = tree.arcs[a].source
    OBVIOUS
  <2>2. n \in K /\ n \in NodeIDs(tree)
    BY <1>5, <2>1 DEF Known
  <2>3. PICK i \in 1 .. Len(outArcs(tree, n)) : outArcs(tree, n)[i] = a
    BY <1>2, <2>1, <2>2, OutArcsAre
  <2> QED
    BY <1>6, <2>2, <2>3
<1>8. K = kept
  <2>1. K \subseteq NodeIDs(tree) /\ r \in K /\ K \subseteq kept
    BY <1>1, <1>3, <1>5 DEF Exact, CopyRight, Known, root_node, invalid
  <2> QED
    BY <1>1, <1>7, <2>1 DEF Reach
<1>9. kept = {n \in NodeIDs(tree) : L.visited[n] # invalid}
  BY <1>5, <1>8 DEF Known
<1>10. ASSUME NEW n \in kept \ {r}, NEW same, same = {m \in kept \ {r} : tree.nodes[m].data = tree.nodes[n].data},
             NEW first, first = contains(m_trans', tree.nodes[n].data)
      PROVE  (\E m \in same : L.visited[m] = first) /\ \A m \in same : first <= L.visited[m]
  <2>1. FirstNamed(tree, kept \ {r}, L.visited, m_trans')
    BY <1>3, <1>4, <1>5, <1>8 DEF Exact, CopyRight
  <2> QED
    BY <1>10, <2>1 DEF FirstNamed
<1>11. \A n \in kept \ {r} :
         LET same == {m \in kept \ {r} : tree.nodes[m].data = tree.nodes[n].data}
             first == contains(m_trans', tree.nodes[n].data)
         IN  (\E m \in same : L.visited[m] = first) /\ \A m \in same : first <= L.visited[m]
  BY <1>10
<1>12. \A n \in kept :
         LET old == outArcs(tree, n)
             new == outArcs(tree', L.visited[n])
         IN  /\ Len(new) = Len(old)
             /\ \A i \in 1 .. Len(old) :
                  tree'.arcs[new[i]].target = L.visited[tree.arcs[old[i]].target]
  BY <1>6, <1>8
<1> QED
  BY ONLY <1>1, <1>9, <1>11, <1>12 DEF KeepsArcs

\* Whatever tree the client has grown, the sub-tree it goes on with is what the
\* new root leads to, arc by arc in the old order, and its table leads from each
\* payload to the first node that has it.
THEOREM SubTreesKeepArcs == Spec => SubTreeKeepsArcs
<1>1. HashInv /\ [Next]_vars => [\A r \in NodeIDs(tree) : MakeSubTree(r) => KeepsArcs(r)]_vars
  BY SubTreeMeans
<1>2. Spec => []HashInv
  BY HashStarts, HashSteps, PTL DEF Spec
<1> QED
  BY <1>1, <1>2, PTL DEF Spec, SubTreeKeepsArcs

---------------------------------------------------------------------------
(***************************************************************************)
(* Tables and slots as values.                                             *)
(***************************************************************************)
Jumps == 1 .. Len(jump_distances)
Elements == Keys \X Values

\* Only an element has an item or a next.
SlotTypes ==
  {empty_slot, reserved_slot} \union
  {Slot(kind, jump, e) : kind \in {"direct", "list"}, jump \in {0} \union Jumps, e \in Elements}

BytellTables ==
  {t \in [hasher : [Keys -> 0 .. Words - 1], slots : UNION {[0 .. n - 1 -> SlotTypes] : n \in Nat},
          num_elements : Nat] : TRUE}

Empty(t) == {i \in DOMAIN t.slots : t.slots[i].kind = "empty"}
Reserved(t) == {i \in DOMAIN t.slots : t.slots[i].kind = "reserved"}
Listed(t) == {i \in DOMAIN t.slots : t.slots[i].kind = "list"}
Direct(t) == {i \in DOMAIN t.slots : t.slots[i].kind = "direct"}
Held(t) == {i \in DOMAIN t.slots : t.slots[i].kind \in {"direct", "list"}}
KeyAt(t, i) == KeyOf(t.slots[i].item)

\* A slot.
LEMMA SlotFields ==
  /\ \A kind, jump, e : /\ Slot(kind, jump, e).kind = kind /\ Slot(kind, jump, e).jump = jump
                        /\ Slot(kind, jump, e).item = e
  /\ \A s \in SlotTypes :
       /\ s.kind \in {"empty", "reserved"} => s.jump = 0 /\ s.item = NoItem
       /\ s.kind = "empty" => s = empty_slot
       /\ s.kind = "reserved" => s = reserved_slot
       /\ s.kind \in {"empty", "reserved", "direct", "list"}
       /\ s.kind \in {"direct", "list"} =>
            s.jump \in {0} \union Jumps /\ s.item \in Elements /\ s = Slot(s.kind, s.jump, s.item)
  /\ empty_slot \in SlotTypes /\ reserved_slot \in SlotTypes
  /\ empty_slot.kind = "empty" /\ reserved_slot.kind = "reserved"
  /\ empty_slot.jump = 0 /\ reserved_slot.jump = 0
  /\ \A kind \in {"direct", "list"}, jump \in {0} \union Jumps, e \in Elements :
       Slot(kind, jump, e) \in SlotTypes
<1>1. \A kind, jump, e : /\ Slot(kind, jump, e).kind = kind /\ Slot(kind, jump, e).jump = jump
                         /\ Slot(kind, jump, e).item = e
  BY DEF Slot
<1>2. \A kind \in {"direct", "list"}, jump \in {0} \union Jumps, e \in Elements :
        Slot(kind, jump, e) \in SlotTypes
  BY DEF SlotTypes
<1>3. \A s \in SlotTypes :
        \/ s = empty_slot \/ s = reserved_slot
        \/ \E kind \in {"direct", "list"}, jump \in {0} \union Jumps, e \in Elements :
             s = Slot(kind, jump, e)
  BY DEF SlotTypes
<1>4. /\ empty_slot.kind = "empty" /\ reserved_slot.kind = "reserved"
      /\ empty_slot.jump = 0 /\ reserved_slot.jump = 0
      /\ empty_slot.item = NoItem /\ reserved_slot.item = NoItem
  BY <1>1 DEF empty_slot, reserved_slot
<1>5. empty_slot \in SlotTypes /\ reserved_slot \in SlotTypes
  BY DEF SlotTypes
<1>6. ASSUME NEW s \in SlotTypes
      PROVE  /\ s.kind \in {"empty", "reserved"} => s.jump = 0 /\ s.item = NoItem
             /\ s.kind = "empty" => s = empty_slot
             /\ s.kind = "reserved" => s = reserved_slot
             /\ s.kind \in {"empty", "reserved", "direct", "list"}
             /\ s.kind \in {"direct", "list"} =>
                  s.jump \in {0} \union Jumps /\ s.item \in Elements /\ s = Slot(s.kind, s.jump, s.item)
  BY <1>1, <1>3, <1>4
<1> QED
  BY <1>1, <1>2, <1>4, <1>5, <1>6

\* No element is what a slot without one holds.
LEMMA ElementFields ==
  \A e \in Elements : e # NoItem /\ KeyOf(e) \in Keys /\ e[2] \in Values /\ e = Item(KeyOf(e), e[2])
BY DEF Elements, NoItem, KeyOf, Item

\* A table.
LEMMA TableFields ==
  ASSUME NEW t \in BytellTables
  PROVE  /\ t.hasher \in [Keys -> 0 .. Words - 1] /\ t.num_elements \in Nat
         /\ bucket_count(t) \in Nat /\ DOMAIN t.slots = 0 .. bucket_count(t) - 1
         /\ \A i \in DOMAIN t.slots : t.slots[i] \in SlotTypes
         /\ t = Table(t.hasher, t.slots, t.num_elements)
         /\ IsFiniteSet(DOMAIN t.slots) /\ DOMAIN t.slots \subseteq Nat
<1>1. PICK n \in Nat : t.slots \in [0 .. n - 1 -> SlotTypes]
  BY DEF BytellTables
<1>2. DOMAIN t.slots = 0 .. n - 1 /\ IsFiniteSet(0 .. n - 1) /\ Cardinality(0 .. n - 1) = n
  BY <1>1, FS_Interval
<1>3. bucket_count(t) = n
  BY <1>2 DEF bucket_count
<1> QED
  BY <1>1, <1>2, <1>3 DEF BytellTables, Table

\* A table that is put together has the parts it was put together from.
LEMMA TableMade ==
  ASSUME NEW h \in [Keys -> 0 .. Words - 1], NEW n \in Nat, NEW s \in [0 .. n - 1 -> SlotTypes],
         NEW m \in Nat, NEW t, t = Table(h, s, m)
  PROVE  /\ t \in BytellTables /\ t.hasher = h /\ t.slots = s /\ t.num_elements = m
         /\ bucket_count(t) = n
<1>1. t \in BytellTables /\ t.hasher = h /\ t.slots = s /\ t.num_elements = m
  BY DEF Table, BytellTables
<1>2. Cardinality(0 .. n - 1) = n
  BY FS_Interval
<1> QED
  BY <1>1, <1>2 DEF bucket_count

\* A slot is written.
LEMMA SetFields ==
  ASSUME NEW t \in BytellTables, NEW i \in DOMAIN t.slots, NEW s \in SlotTypes,
         NEW u, u = set(t, i, s)
  PROVE  /\ u \in BytellTables /\ u.hasher = t.hasher /\ u.num_elements = t.num_elements
         /\ DOMAIN u.slots = DOMAIN t.slots /\ bucket_count(u) = bucket_count(t)
         /\ u.slots[i] = s /\ \A j \in DOMAIN t.slots : j # i => u.slots[j] = t.slots[j]
<1>1. PICK n \in Nat : t.slots \in [0 .. n - 1 -> SlotTypes]
  BY DEF BytellTables
<1>2. /\ u.hasher = t.hasher /\ u.num_elements = t.num_elements
      /\ u.slots = [t.slots EXCEPT ![i] = s] /\ u = Table(t.hasher, u.slots, t.num_elements)
  BY DEF BytellTables, set, Table
<1>3. u.slots \in [0 .. n - 1 -> SlotTypes]
  BY <1>1, <1>2
<1>4. u \in BytellTables
  BY <1>2, <1>3 DEF BytellTables, Table
<1> QED
  BY <1>1, <1>2, <1>3, <1>4 DEF bucket_count

\* The next of an element is written.
LEMMA SetNextFields ==
  ASSUME NEW t \in BytellTables, NEW i \in Held(t), NEW jump \in {0} \union Jumps,
         NEW u, u = set_next(t, i, jump)
  PROVE  /\ u \in BytellTables /\ u.hasher = t.hasher /\ u.num_elements = t.num_elements
         /\ DOMAIN u.slots = DOMAIN t.slots /\ bucket_count(u) = bucket_count(t)
         /\ u.slots[i] = Slot(t.slots[i].kind, jump, t.slots[i].item)
         /\ \A j \in DOMAIN t.slots : j # i => u.slots[j] = t.slots[j]
<1>1. i \in DOMAIN t.slots /\ t.slots[i] \in SlotTypes /\ t.slots[i].kind \in {"direct", "list"}
  BY TableFields DEF Held
<1>2. Slot(t.slots[i].kind, jump, t.slots[i].item) \in SlotTypes
  BY <1>1, SlotFields
<1> QED
  BY <1>1, <1>2, SetFields DEF set_next

\* The count of elements is written.
LEMMA CountFields ==
  ASSUME NEW t \in BytellTables, NEW m \in Nat, NEW u, u = [t EXCEPT !.num_elements = m]
  PROVE  /\ u \in BytellTables /\ u.hasher = t.hasher /\ u.num_elements = m
         /\ u.slots = t.slots /\ bucket_count(u) = bucket_count(t)
BY DEF BytellTables, bucket_count


(***************************************************************************)
(* Where an element goes.                                                  *)
(***************************************************************************)
\* The home of a key is a slot.
LEMMA IndexInRange ==
  ASSUME NEW t \in BytellTables, DOMAIN t.slots # {}, NEW k \in Keys
  PROVE  index_for_hash(t, k) \in DOMAIN t.slots
<1>1. PICK n \in Nat : n = bucket_count(t) /\ DOMAIN t.slots = 0 .. n - 1
  BY TableFields
<1>2. PICK h \in 0 .. Words - 1 : h = t.hasher[k]
  BY TableFields
<1>3. n >= 1 /\ Words \in Nat \ {0}
  BY <1>1, TableAssumption
<1>4. ASSUME NEW m \in Nat, NEW W \in Nat \ {0}, NEW a \in 0 .. W - 1, m >= 1
      PROVE  (a * m) \div W \in 0 .. m - 1
  <2>1. PICK q : q = (a * m) \div W
    OBVIOUS
  <2>2. a * m \in Nat /\ q \in Int /\ W * q <= a * m /\ a * m < W * (q + 1)
    BY <2>1
  <2>3. a * m < W * m
    BY <1>4
  <2>4. q < m
    BY <2>2, <2>3
  <2>5. q >= 0
    BY <2>2
  <2> QED
    BY <2>1, <2>2, <2>4, <2>5
<1>5. index_for_hash(t, k) = (h * n) \div Words
  BY <1>1, <1>2 DEF index_for_hash
<1> QED
  BY <1>1, <1>2, <1>3, <1>4, <1>5

\* A jump leads to a slot.
LEMMA JumpInRange ==
  ASSUME NEW t \in BytellTables, NEW i \in DOMAIN t.slots, NEW jump \in {0} \union Jumps
  PROVE  jumpTo(t, i, jump) \in DOMAIN t.slots
<1>1. PICK n \in Nat : n = bucket_count(t) /\ DOMAIN t.slots = 0 .. n - 1
  BY TableFields
<1>2. distance(jump) \in Nat
  BY TableAssumption DEF distance, Jumps
<1>3. i \in Nat /\ n >= 1
  BY <1>1
<1> QED
  BY <1>1, <1>2, <1>3 DEF jumpTo, keep_in_range

\* Tables of one hasher and one size agree on where a key and a jump lead.
Same(t, u) ==
  /\ u.hasher = t.hasher /\ DOMAIN u.slots = DOMAIN t.slots
  /\ bucket_count(u) = bucket_count(t)

\* Tables of one hasher and size have the same homes and the same jumps.
LEMMA SameShape ==
  ASSUME NEW t, NEW u, Same(t, u)
  PROVE  /\ \A k : index_for_hash(u, k) = index_for_hash(t, k)
         /\ \A i, jump : jumpTo(u, i, jump) = jumpTo(t, i, jump)
BY DEF Same, index_for_hash, jumpTo, keep_in_range

(***************************************************************************)
(* The chains.                                                             *)
(***************************************************************************)
Followed(t) == {i \in DOMAIN t.slots : has_next(t, i)}

\* d numbers the elements of each chain: a direct hit is an element at home and
\* has number 0; every jump leads to a list entry of the same home, with the next
\* number; and there is just one to every list entry, but none to the loose ones.
Ranked(t, d, loose) ==
  /\ d \in [DOMAIN t.slots -> Nat]
  /\ \A i \in Direct(t) : find_direct_hit(t, i) = i /\ d[i] = 0
  /\ \A i \in Followed(t) :
       /\ next(t, i) \in Listed(t) \ loose
       /\ find_direct_hit(t, next(t, i)) = find_direct_hit(t, i)
       /\ d[next(t, i)] = d[i] + 1
  /\ \A i \in Listed(t) \ loose : \E j \in Followed(t) : next(t, j) = i
  /\ \A i, j \in Followed(t) : next(t, i) = next(t, j) => i = j

\* What is linked is an element, and so is what has a home.
LEMMA FollowedHeld ==
  ASSUME NEW t \in BytellTables
  PROVE  /\ Followed(t) \subseteq Held(t) /\ Held(t) = Listed(t) \union Direct(t)
         /\ Listed(t) \intersect Direct(t) = {}
         /\ DOMAIN t.slots = Held(t) \union Empty(t) \union Reserved(t)
         /\ Held(t) \intersect (Empty(t) \union Reserved(t)) = {}
         /\ \A i \in Held(t) :
              /\ i \in DOMAIN t.slots /\ t.slots[i].item \in Elements
              /\ KeyAt(t, i) \in Keys /\ t.slots[i].jump \in {0} \union Jumps
              /\ next(t, i) \in DOMAIN t.slots
              /\ find_direct_hit(t, i) = index_for_hash(t, KeyAt(t, i))
              /\ find_direct_hit(t, i) \in DOMAIN t.slots
<1>1. \A i \in DOMAIN t.slots : t.slots[i] \in SlotTypes
  BY TableFields
<1>2. Followed(t) \subseteq Held(t)
  BY <1>1, SlotFields DEF Followed, has_next, Held
<1>3. /\ Held(t) = Listed(t) \union Direct(t) /\ Listed(t) \intersect Direct(t) = {}
      /\ Held(t) \intersect (Empty(t) \union Reserved(t)) = {}
  BY DEF Held, Listed, Direct, Empty, Reserved
<1>4. DOMAIN t.slots = Held(t) \union Empty(t) \union Reserved(t)
  BY <1>1, SlotFields DEF Held, Empty, Reserved
<1>5. ASSUME NEW i \in Held(t)
      PROVE  /\ i \in DOMAIN t.slots /\ t.slots[i].item \in Elements
             /\ KeyAt(t, i) \in Keys /\ t.slots[i].jump \in {0} \union Jumps
             /\ next(t, i) \in DOMAIN t.slots
             /\ find_direct_hit(t, i) = index_for_hash(t, KeyAt(t, i))
             /\ find_direct_hit(t, i) \in DOMAIN t.slots
  <2>1. /\ i \in DOMAIN t.slots /\ t.slots[i].item \in Elements
        /\ t.slots[i].jump \in {0} \union Jumps
    BY <1>1, SlotFields DEF Held
  <2>2. KeyAt(t, i) \in Keys
    BY <2>1, ElementFields DEF KeyAt
  <2>3. next(t, i) \in DOMAIN t.slots
    BY <2>1, JumpInRange DEF next
  <2>4. find_direct_hit(t, i) = index_for_hash(t, KeyAt(t, i))
    BY DEF find_direct_hit, KeyAt
  <2> QED
    BY <2>1, <2>2, <2>3, <2>4, IndexInRange
<1> QED
  BY <1>2, <1>3, <1>4, <1>5

\* A direct hit is placed at its home, which holds no element.
LEMMA RankedDirect ==
  ASSUME NEW t \in BytellTables, NEW u \in BytellTables, Same(t, u), NEW d, Ranked(t, d, {}),
         NEW i \in DOMAIN t.slots, i \notin Held(t),
         NEW e \in Elements, index_for_hash(t, KeyOf(e)) = i,
         u.slots[i] = Slot("direct", 0, e), \A j \in DOMAIN t.slots : j # i => u.slots[j] = t.slots[j]
  PROVE  Ranked(u, [d EXCEPT ![i] = 0], {})
<1>1. PICK f : f = [d EXCEPT ![i] = 0]
  OBVIOUS
<1>2. f \in [DOMAIN u.slots -> Nat] /\ f[i] = 0 /\ \A j \in DOMAIN t.slots : j # i => f[j] = d[j]
  BY <1>1 DEF Ranked, Same
<1>3. /\ u.slots[i].kind = "direct" /\ ~ has_next(u, i)
      /\ find_direct_hit(u, i) = i
  BY SlotFields, SameShape DEF has_next, find_direct_hit
<1>4. /\ Followed(u) = Followed(t) /\ Listed(u) = Listed(t) /\ Direct(u) = Direct(t) \union {i}
      /\ i \notin Followed(t) /\ i \notin Listed(t)
  BY <1>3, FollowedHeld DEF Followed, Listed, Direct, Held, Same, has_next
<1>5. \A j \in Held(t) : /\ next(u, j) = next(t, j) /\ find_direct_hit(u, j) = find_direct_hit(t, j)
                         /\ f[j] = d[j] /\ j # i
  BY <1>2, FollowedHeld, SameShape DEF next, find_direct_hit
<1>6. Ranked(u, f, {})
  BY <1>2, <1>3, <1>4, <1>5, FollowedHeld DEF Ranked
<1> QED
  BY <1>1, <1>6

\* A list entry is placed behind an element that has no next.
LEMMA RankedAppend ==
  ASSUME NEW t \in BytellTables, NEW u \in BytellTables, Same(t, u),
         NEW loose, NEW d, Ranked(t, d, loose),
         NEW above \in Held(t), ~ has_next(t, above), NEW jump \in Jumps,
         NEW i \in DOMAIN t.slots, jumpTo(t, above, jump) = i, i \notin Held(t), i \notin loose,
         NEW e \in Elements, index_for_hash(t, KeyOf(e)) = find_direct_hit(t, above),
         u.slots[i] = Slot("list", 0, e),
         u.slots[above] = Slot(t.slots[above].kind, jump, t.slots[above].item),
         \A j \in DOMAIN t.slots : j # i /\ j # above => u.slots[j] = t.slots[j]
  PROVE  Ranked(u, [d EXCEPT ![i] = d[above] + 1], loose)
<1>1. PICK f : f = [d EXCEPT ![i] = d[above] + 1]
  OBVIOUS
<1>2. above \in DOMAIN t.slots /\ above # i /\ jump # 0
  BY FollowedHeld DEF Jumps
<1>3. /\ f \in [DOMAIN u.slots -> Nat] /\ f[i] = d[above] + 1
      /\ \A j \in DOMAIN t.slots : j # i => f[j] = d[j]
  BY <1>1, <1>2 DEF Ranked, Same
<1>4. /\ u.slots[i].kind = "list" /\ u.slots[i].jump = 0 /\ u.slots[i].item = e
      /\ u.slots[above].kind = t.slots[above].kind /\ u.slots[above].item = t.slots[above].item
      /\ u.slots[above].jump = jump
  BY SlotFields
<1>5. /\ ~ has_next(u, i) /\ has_next(u, above) /\ next(u, above) = i
      /\ find_direct_hit(u, i) = find_direct_hit(t, above)
      /\ find_direct_hit(u, above) = find_direct_hit(t, above)
  BY <1>2, <1>4, SameShape DEF has_next, find_direct_hit, next
<1>6. /\ Followed(u) = Followed(t) \union {above} /\ Listed(u) = Listed(t) \union {i}
      /\ Direct(u) = Direct(t) /\ i \notin Followed(t) /\ i \notin Listed(t) /\ above \notin Followed(t)
  BY <1>2, <1>4, <1>5, FollowedHeld DEF Followed, Listed, Direct, Held, Same, has_next
<1>7. \A j \in Held(t) : /\ find_direct_hit(u, j) = find_direct_hit(t, j) /\ f[j] = d[j] /\ j # i
                         /\ j # above => next(u, j) = next(t, j)
  BY <1>3, <1>5, FollowedHeld, SameShape DEF next, find_direct_hit
<1>8. \A j \in Followed(t) : next(u, j) = next(t, j) /\ next(t, j) # i /\ j # above /\ j \in Held(t)
                           /\ next(t, j) \in Held(t)
  BY <1>6, <1>7, FollowedHeld DEF Ranked
<1>9. Ranked(u, f, loose)
  <2>1. \A j \in Direct(u) : find_direct_hit(u, j) = j /\ f[j] = 0
    BY <1>6, <1>7, FollowedHeld DEF Ranked
  <2>2. \A j \in Followed(u) : /\ next(u, j) \in Listed(u) \ loose
                             /\ find_direct_hit(u, next(u, j)) = find_direct_hit(u, j)
                             /\ f[next(u, j)] = f[j] + 1
    <3>1. ASSUME NEW j \in Followed(t)
          PROVE  /\ next(u, j) \in Listed(u) \ loose
                 /\ find_direct_hit(u, next(u, j)) = find_direct_hit(u, j)
                 /\ f[next(u, j)] = f[j] + 1
      BY <1>6, <1>7, <1>8 DEF Ranked
    <3>2. f[above] = d[above]
      BY <1>2, <1>3
    <3> QED
      BY <1>3, <1>5, <1>6, <3>1, <3>2
  <2>3. \A j \in Listed(u) \ loose : \E k \in Followed(u) : next(u, k) = j
    BY <1>5, <1>6, <1>8 DEF Ranked
  <2>4. \A j, k \in Followed(u) : next(u, j) = next(u, k) => j = k
    BY <1>5, <1>6, <1>8 DEF Ranked
  <2> QED
    BY <1>3, <2>1, <2>2, <2>3, <2>4 DEF Ranked
<1> QED
  BY <1>1, <1>9

\* A jump is taken away: the entry that it led to is loose.
LEMMA RankedCut ==
  ASSUME NEW t \in BytellTables, NEW u \in BytellTables, Same(t, u),
         NEW loose, NEW d, Ranked(t, d, loose), NEW above \in Followed(t),
         u.slots[above] = Slot(t.slots[above].kind, 0, t.slots[above].item),
         \A j \in DOMAIN t.slots : j # above => u.slots[j] = t.slots[j]
  PROVE  Ranked(u, d, loose \union {next(t, above)})
<1>1. above \in Held(t) /\ above \in DOMAIN t.slots
  BY FollowedHeld
<1>2. /\ u.slots[above].kind = t.slots[above].kind /\ u.slots[above].item = t.slots[above].item
      /\ ~ has_next(u, above)
  BY SlotFields DEF has_next
<1>3. /\ Followed(u) = Followed(t) \ {above} /\ Listed(u) = Listed(t) /\ Direct(u) = Direct(t)
  BY <1>1, <1>2 DEF Followed, Listed, Direct, Same, has_next
<1>4. \A j \in Held(t) : /\ find_direct_hit(u, j) = find_direct_hit(t, j)
                         /\ j # above => next(u, j) = next(t, j)
  BY <1>2, FollowedHeld, SameShape DEF next, find_direct_hit
<1>5. \A j \in Followed(t) : /\ j # above => next(t, j) # next(t, above) /\ next(u, j) = next(t, j)
                           /\ j \in Held(t) /\ next(t, j) \in Held(t)
  BY <1>4, FollowedHeld DEF Ranked
<1>6. d \in [DOMAIN u.slots -> Nat]
  BY DEF Ranked, Same
<1>7. \A j \in Direct(u) : find_direct_hit(u, j) = j /\ d[j] = 0
  BY <1>3, <1>4, FollowedHeld DEF Ranked
<1>8. \A j \in Followed(u) : /\ next(u, j) \in Listed(u) \ (loose \union {next(t, above)})
                           /\ find_direct_hit(u, next(u, j)) = find_direct_hit(u, j)
                           /\ d[next(u, j)] = d[j] + 1
  BY <1>3, <1>4, <1>5 DEF Ranked
<1>9. \A j \in Listed(u) \ (loose \union {next(t, above)}) : \E k \in Followed(u) : next(u, k) = j
  BY <1>3, <1>5 DEF Ranked
<1>10. \A j, k \in Followed(u) : next(u, j) = next(u, k) => j = k
  BY <1>3, <1>5 DEF Ranked
<1> QED
  BY <1>6, <1>7, <1>8, <1>9, <1>10 DEF Ranked

\* An element that no jump leads to is taken away: its next is loose.
LEMMA RankedRemove ==
  ASSUME NEW t \in BytellTables, NEW u \in BytellTables, Same(t, u),
         NEW loose, NEW d, Ranked(t, d, loose), NEW x \in Held(t), x \in loose \/ x \in Direct(t),
         u.slots[x] \in {empty_slot, reserved_slot},
         \A j \in DOMAIN t.slots : j # x => u.slots[j] = t.slots[j]
  PROVE  Ranked(u, d, (loose \ {x}) \union (IF has_next(t, x) THEN {next(t, x)} ELSE {}))
<1> DEFINE left == (loose \ {x}) \union (IF has_next(t, x) THEN {next(t, x)} ELSE {})
<1>1. x \in DOMAIN t.slots
  BY FollowedHeld
<1>2. u.slots[x].kind \notin {"direct", "list"} /\ ~ has_next(u, x)
  BY SlotFields DEF has_next
<1>3. /\ Followed(u) = Followed(t) \ {x} /\ Listed(u) = Listed(t) \ {x} /\ Direct(u) = Direct(t) \ {x}
  BY <1>1, <1>2 DEF Followed, Listed, Direct, Same, has_next
<1>4. \A j \in Held(t) : j # x => /\ find_direct_hit(u, j) = find_direct_hit(t, j)
                                  /\ next(u, j) = next(t, j)
  BY FollowedHeld, SameShape DEF next, find_direct_hit
<1>5. \A j \in Followed(t) : /\ next(t, j) # x
                           /\ j \in Held(t) /\ next(t, j) \in Held(t)
  BY FollowedHeld DEF Ranked
<1>6. d \in [DOMAIN u.slots -> Nat]
  BY DEF Ranked, Same
<1>7. \A j \in Direct(u) : find_direct_hit(u, j) = j /\ d[j] = 0
  BY <1>3, <1>4, FollowedHeld DEF Ranked
<1>8. \A j \in Followed(u) : next(t, j) \notin left
  <2>1. \A j \in Followed(u) : next(t, j) \notin loose
    BY <1>3 DEF Ranked
  <2>2. has_next(t, x) => x \in Followed(t)
    BY <1>1 DEF Followed
  <2>3. \A j \in Followed(u) : has_next(t, x) => next(t, j) # next(t, x)
    BY <1>3, <2>2 DEF Ranked
  <2> QED
    BY <2>1, <2>3
<1>9. \A j \in Followed(u) : /\ next(u, j) \in Listed(u) \ left
                           /\ find_direct_hit(u, next(u, j)) = find_direct_hit(u, j)
                           /\ d[next(u, j)] = d[j] + 1
  BY <1>3, <1>4, <1>5, <1>8 DEF Ranked
<1>10. \A j \in Listed(u) \ left : \E k \in Followed(u) : next(u, k) = j
  <2> SUFFICES ASSUME NEW j \in Listed(u) \ left PROVE \E k \in Followed(u) : next(u, k) = j
    OBVIOUS
  <2>1. j # x /\ j \in Listed(t) \ loose
    BY <1>3
  <2>2. PICK k \in Followed(t) : next(t, k) = j
    BY <2>1 DEF Ranked
  <2>3. k # x
    BY <2>2 DEF Followed
  <2> QED
    BY <1>3, <1>4, <1>5, <2>2, <2>3
<1>11. \A j, k \in Followed(u) : next(u, j) = next(u, k) => j = k
  BY <1>3, <1>4, <1>5 DEF Ranked
<1> HIDE DEF left
<1>12. Ranked(u, d, left)
  BY <1>6, <1>7, <1>9, <1>10, <1>11 DEF Ranked
<1> QED
  BY <1>12 DEF left

\* An element is replaced by one of the same home.
LEMMA RankedReplace ==
  ASSUME NEW t \in BytellTables, NEW u \in BytellTables, Same(t, u),
         NEW loose, NEW d, Ranked(t, d, loose), NEW x \in Held(t), NEW e \in Elements,
         index_for_hash(t, KeyOf(e)) = find_direct_hit(t, x),
         u.slots[x] = Slot(t.slots[x].kind, t.slots[x].jump, e),
         \A j \in DOMAIN t.slots : j # x => u.slots[j] = t.slots[j]
  PROVE  Ranked(u, d, loose)
<1>1. x \in DOMAIN t.slots
  BY FollowedHeld
<1>2. /\ u.slots[x].kind = t.slots[x].kind /\ u.slots[x].jump = t.slots[x].jump
      /\ u.slots[x].item = e
  BY SlotFields
<1>3. Followed(u) = Followed(t) /\ Listed(u) = Listed(t) /\ Direct(u) = Direct(t)
  BY <1>1, <1>2 DEF Followed, Listed, Direct, Same, has_next
<1>4. \A j \in DOMAIN t.slots : /\ find_direct_hit(u, j) = find_direct_hit(t, j)
                                /\ next(u, j) = next(t, j)
  BY <1>2, SameShape DEF next, find_direct_hit
<1>5. \A j \in DOMAIN t.slots : j \in Followed(t) => next(t, j) \in DOMAIN t.slots
  BY FollowedHeld
<1>6. Followed(t) \subseteq DOMAIN t.slots /\ Direct(t) \subseteq DOMAIN t.slots
  BY DEF Followed, Direct
<1>7. d \in [DOMAIN u.slots -> Nat]
  BY DEF Ranked, Same
<1> QED
  BY <1>3, <1>4, <1>5, <1>6, <1>7 DEF Ranked

(***************************************************************************)
(* Least and largest numbers, and powers of two.                           *)
(***************************************************************************)
LEMMA MinIsLeast ==
  ASSUME NEW S \in SUBSET Nat, S # {}
  PROVE  Min(S) \in S /\ \A k \in S : Min(S) <= k
<1>1. PICK m \in S : \A k \in S : m <= k
  BY Least
<1>2. Min(S) \in S /\ \A k \in S : Min(S) <= k
  BY <1>1 DEF Min
<1> QED
  BY <1>2

\* Max of a bounded set is its largest element.
LEMMA MaxIsLargest ==
  ASSUME NEW S \in SUBSET Nat, S # {}, NEW n \in Nat, \A k \in S : k <= n
  PROVE  Max(S) \in S /\ \A k \in S : Max(S) >= k
<1> DEFINE T == {n - k : k \in S}
<1>1. T \in SUBSET Nat /\ T # {}
  <2>1. \A k \in S : n - k \in Nat
    OBVIOUS
  <2> QED
    BY <2>1
<1>2. PICK m \in T : \A k \in T : m <= k
  <2> HIDE DEF T
  <2> QED
    BY <1>1, Least
<1>3. PICK x \in S : m = n - x
  BY <1>2
<1>4. \A k \in S : x >= k
  <2> SUFFICES ASSUME NEW k \in S PROVE x >= k
    OBVIOUS
  <2>1. n - k \in T
    OBVIOUS
  <2>2. n - x <= n - k
    BY <1>2, <1>3, <2>1
  <2> QED
    BY <2>2
<1>5. Max(S) \in S /\ \A k \in S : Max(S) >= k
  BY <1>3, <1>4 DEF Max
<1> QED
  BY <1>5

\* The larger of two numbers.
LEMMA MaxOfTwo ==
  ASSUME NEW a \in Nat, NEW b \in Nat
  PROVE  Max({a, b}) \in Nat /\ Max({a, b}) \in {a, b} /\ Max({a, b}) >= a /\ Max({a, b}) >= b
<1>1. {a, b} \in SUBSET Nat /\ {a, b} # {} /\ \A k \in {a, b} : k <= a + b
  OBVIOUS
<1>2. Max({a, b}) \in {a, b} /\ \A k \in {a, b} : Max({a, b}) >= k
  BY <1>1, MaxIsLargest
<1> QED
  BY <1>2

\* The recursion of power, unfolded.
LEMMA PowerUnfolds ==
  ASSUME NEW N \in Nat
  PROVE  \E g \in [0 .. N -> Nat] :
           /\ g[0] = 1 /\ \A i \in 1 .. N : g[i] = 2 * g[i - 1]
           /\ \A e \in 0 .. N : power(e) = g[e]
<1>1. PICK F : F = [i \in 1 .. N |-> [v \in Nat |-> 2 * v]]
  OBVIOUS
<1>2. F \in [1 .. N -> [Nat -> Nat]]
  BY <1>1
<1>3. PICK g : Iterates(g, N, Nat, 1, F)
  BY <1>2, IterationDefined
<1>4. g \in [0 .. N -> Nat] /\ g[0] = 1 /\ \A i \in 1 .. N : g[i] = F[i][g[i - 1]]
  BY <1>3 DEF Iterates
<1>5. \A i \in 1 .. N : g[i] = 2 * g[i - 1]
  <2> SUFFICES ASSUME NEW i \in 1 .. N PROVE g[i] = 2 * g[i - 1]
    OBVIOUS
  <2>1. i - 1 \in 0 .. N
    OBVIOUS
  <2>2. g[i - 1] \in Nat
    BY <1>4, <2>1
  <2> QED
    BY <1>1, <1>4, <2>2
<1>6. ASSUME NEW e \in 0 .. N PROVE power(e) = g[e]
  <2> DEFINE R(f) == [i \in 0 .. e |-> IF i = 0 THEN 1 ELSE 2 * f[i - 1]]
             sel == CHOOSE f : f = R(f)
             h == [i \in 0 .. e |-> g[i]]
  <2>1. h = R(h)
    <3>1. ASSUME NEW i \in 0 .. e PROVE h[i] = R(h)[i]
      <4>1. CASE i = 0
        BY <1>4, <4>1
      <4>2. CASE i # 0
        <5>1. i \in 1 .. N /\ i - 1 \in 0 .. e
          BY <4>2
        <5> QED
          BY <1>5, <4>2, <5>1
      <4> QED
        BY <4>1, <4>2
    <3>2. R(h) = [i \in 0 .. e |-> R(h)[i]] /\ h = [i \in 0 .. e |-> h[i]]
      OBVIOUS
    <3> HIDE DEF R, h
    <3> QED
      BY <3>1, <3>2
  <2>2. sel = R(sel)
    <3> HIDE DEF R, h
    <3> QED
      BY <2>1
  <2>3. power(e) = sel[e]
    BY DEF power
  <2>4. sel[0] = 1 /\ \A i \in 1 .. e : sel[i] = 2 * sel[i - 1]
    <3> HIDE DEF sel
    <3>1. \A i \in 0 .. e : sel[i] = R(sel)[i]
      BY <2>2
    <3>2. \A i \in 1 .. e : i \in 0 .. e /\ i # 0
      OBVIOUS
    <3> QED
      BY <3>1, <3>2
  <2> DEFINE Agree == {i \in 0 .. e : sel[i] = g[i]}
  <2>5. 0 \in Agree
    <3> HIDE DEF sel
    <3> QED
      BY <1>4, <2>4
  <2>6. \A i \in 1 .. e : i - 1 \in Agree => i \in Agree
    <3> HIDE DEF sel
    <3> QED
      BY <1>5, <2>4
  <2>7. e \in Agree
    <3> HIDE DEF Agree
    <3> QED
      BY <2>5, <2>6, SetInduction
  <2> QED
    BY <2>3, <2>7
<1> QED
  BY <1>4, <1>5, <1>6

\* A power of two is larger than its exponent.
LEMMA PowerLarge ==
  ASSUME NEW e \in Nat
  PROVE  power(e) \in Nat /\ power(e) >= e + 1
<1>1. PICK g \in [0 .. e -> Nat] : /\ g[0] = 1 /\ \A i \in 1 .. e : g[i] = 2 * g[i - 1]
                                   /\ \A i \in 0 .. e : power(i) = g[i]
  BY PowerUnfolds
<1> DEFINE Good == {i \in 0 .. e : g[i] >= i + 1}
<1>2. 0 \in Good
  BY <1>1
<1>3. ASSUME NEW i \in 1 .. e, i - 1 \in Good PROVE i \in Good
  <2>1. g[i - 1] \in Nat /\ g[i - 1] >= i /\ g[i] = 2 * g[i - 1]
    BY <1>1, <1>3
  <2> QED
    BY <2>1
<1>4. e \in Good
  <2>1. \A i \in 1 .. e : i - 1 \in Good => i \in Good
    BY <1>3
  <2> HIDE DEF Good
  <2>2. \A i \in 0 .. e : i \in Good
    BY <1>2, <2>1, SetInduction
  <2> QED
    BY <2>2
<1> QED
  BY <1>1, <1>4

\* The number of slots that is asked for is rounded up to a power of two.
LEMMA SizeOver ==
  ASSUME NEW n \in Nat \ {0}, NEW size, size = next_size_over(n)
  PROVE  /\ size \in Nat \ {0} /\ size >= n
         /\ \E e \in 1 .. size : size = power(e)
<1> DEFINE S == {e \in 1 .. n : power(e) >= n}
<1>1. S \in SUBSET Nat /\ S # {}
  <2>1. n \in 1 .. n /\ power(n) >= n
    BY PowerLarge
  <2> QED
    BY <2>1
<1>2. PICK m \in S : \A k \in S : m <= k
  <2> HIDE DEF S
  <2> QED
    BY <1>1, Least
<1>3. m \in 1 .. n /\ power(m) >= n /\ \A i \in 1 .. m - 1 : power(i) < n
  <2>1. m \in 1 .. n /\ power(m) >= n
    BY <1>2
  <2>2. ASSUME NEW i \in 1 .. m - 1 PROVE power(i) < n
    <3>1. i \in 1 .. n /\ i < m
      BY <2>1
    <3>2. i \notin S
      BY <1>2, <2>1, <3>1
    <3>3. power(i) \in Nat /\ ~ (power(i) >= n)
      BY <3>1, <3>2, PowerLarge
    <3> QED
      BY <3>3
  <2> QED
    BY <2>1, <2>2
<1> DEFINE E == CHOOSE e \in 1 .. n : power(e) >= n /\ \A i \in 1 .. e - 1 : power(i) < n
<1>4. E \in 1 .. n /\ power(E) >= n
  BY <1>3
<1>5. size = power(E)
  BY DEF next_size_over
<1> HIDE DEF E
<1>6. power(E) \in Nat /\ power(E) >= E + 1
  BY <1>4, PowerLarge
<1> QED
  BY <1>4, <1>5, <1>6

(***************************************************************************)
(* The walk along a chain.                                                 *)
(***************************************************************************)
LEMMA NextInRange ==
  ASSUME NEW t \in BytellTables, NEW i \in DOMAIN t.slots
  PROVE  next(t, i) \in DOMAIN t.slots
<1>1. t.slots[i] \in SlotTypes
  BY TableFields
<1>2. t.slots[i].jump \in {0} \union Jumps
  BY <1>1, SlotFields
<1> QED
  BY <1>2, JumpInRange DEF next

\* chain ( i ) starts at i, follows the jumps, and ends: there are not enough slots
\* to go on for ever with higher and higher numbers.
LEMMA ChainWalks ==
  ASSUME NEW t \in BytellTables, NEW loose, NEW d, Ranked(t, d, loose), NEW i \in Held(t),
         NEW c, c = chain(t, i)
  PROVE  /\ Len(c) \in Nat \ {0} /\ DOMAIN c = 1 .. Len(c) /\ c # <<>> /\ c[1] = i
         /\ \A p \in 1 .. Len(c) :
              /\ c[p] \in Held(t) /\ d[c[p]] = d[i] + p - 1
              /\ find_direct_hit(t, c[p]) = find_direct_hit(t, i)
              /\ has_next(t, c[p]) <=> p < Len(c)
              /\ p < Len(c) => next(t, c[p]) = c[p + 1]
<1>1. PICK N \in Nat : N = bucket_count(t) /\ DOMAIN t.slots = 0 .. N - 1
  BY TableFields
<1>2. PICK V : V = DOMAIN t.slots
  OBVIOUS
<1>3. PICK F : F = [n \in 1 .. N |-> [v \in V |-> next(t, v)]]
  OBVIOUS
<1>4. F \in [1 .. N -> [V -> V]] /\ i \in V
  BY <1>2, <1>3, NextInRange, FollowedHeld
<1>5. PICK g : Iterates(g, N, V, i, F)
  BY <1>1, <1>4, IterationDefined
<1>6. /\ g \in [0 .. N -> V] /\ g[0] = i
      /\ \A n \in 1 .. N : g[n] = next(t, g[n - 1])
  <2>1. g \in [0 .. N -> V] /\ g[0] = i /\ \A n \in 1 .. N : g[n] = F[n][g[n - 1]]
    BY <1>5 DEF Iterates
  <2>2. \A n \in 1 .. N : n - 1 \in 0 .. N
    BY <1>1
  <2> QED
    BY <1>3, <2>1, <2>2
<1> DEFINE R(f) == [n \in 0 .. bucket_count(t) |-> IF n = 0 THEN i ELSE next(t, f[n - 1])]
           walk == CHOOSE f : f = R(f)
<1>7. walk = R(walk)
  <2>1. g = R(g)
    <3>1. \A n \in 0 .. N : n = 0 \/ n \in 1 .. N
      BY <1>1
    <3>2. \A n \in 0 .. N : g[n] = R(g)[n]
      BY <1>1, <1>6, <3>1
    <3>3. R(g) = [n \in 0 .. N |-> R(g)[n]] /\ g = [n \in 0 .. N |-> g[n]]
      BY <1>1, <1>6
    <3> HIDE DEF R
    <3> QED
      BY <3>2, <3>3
  <2> HIDE DEF R
  <2> QED
    BY <2>1
<1>8. /\ DOMAIN walk = 0 .. N /\ walk[0] = i
      /\ \A n \in 1 .. N : walk[n] = next(t, walk[n - 1])
  <2> HIDE DEF walk
  <2>1. DOMAIN walk = 0 .. N /\ \A n \in 0 .. N : walk[n] = R(walk)[n]
    BY <1>1, <1>7
  <2>2. \A n \in 1 .. N : n \in 0 .. N /\ n # 0
    BY <1>1
  <2>3. 0 \in 0 .. N
    BY <1>1
  <2> QED
    BY <1>1, <2>1, <2>2, <2>3
<1> DEFINE end == CHOOSE n \in DOMAIN walk :
                    ~ has_next(t, walk[n]) /\ \A m \in 0 .. n - 1 : has_next(t, walk[m])
<1>9. c = [p \in 1 .. end + 1 |-> walk[p - 1]]
  BY DEF chain
<1> HIDE DEF walk
\* As far as there are jumps, what is reached is an element with the next number.
<1> DEFINE Numbered(n) == /\ walk[n] \in Held(t) /\ d[walk[n]] = d[i] + n
                          /\ find_direct_hit(t, walk[n]) = find_direct_hit(t, i)
<1>10. d \in [DOMAIN t.slots -> Nat] /\ d[i] \in Nat
  BY FollowedHeld DEF Ranked
<1>11. ASSUME NEW n \in 0 .. N, \A m \in 0 .. n - 1 : has_next(t, walk[m])
       PROVE  \A m \in 0 .. n : Numbered(m)
  <2> DEFINE Good == {m \in 0 .. n : Numbered(m)}
  <2>1. 0 \in Good
    BY <1>8, <1>10
  <2>2. ASSUME NEW m \in 1 .. n, m - 1 \in Good PROVE m \in Good
    <3>1. m - 1 \in 0 .. n - 1 /\ m \in 1 .. N
      OBVIOUS
    <3>2. Numbered(m - 1) /\ has_next(t, walk[m - 1]) /\ walk[m] = next(t, walk[m - 1])
      BY <1>8, <1>11, <2>2, <3>1
    <3>3. walk[m - 1] \in Followed(t)
      BY <3>2, FollowedHeld DEF Followed
    <3>4. walk[m] \in Listed(t) /\ d[walk[m]] = d[walk[m - 1]] + 1
          /\ find_direct_hit(t, walk[m]) = find_direct_hit(t, walk[m - 1])
      BY <3>2, <3>3 DEF Ranked
    <3>5. d[walk[m]] = d[i] + m
      BY <1>10, <3>2, <3>4
    <3> QED
      BY <3>2, <3>4, <3>5, FollowedHeld
  <2>3. \A m \in 1 .. n : m - 1 \in Good => m \in Good
    BY <2>2
  <2>4. \A m \in 0 .. n : m \in Good
    <3> HIDE DEF Good
    <3> QED
      BY <2>1, <2>3, SetInduction
  <2> QED
    BY <2>4
<1>12. \E n \in 0 .. N : ~ has_next(t, walk[n])
  <2> SUFFICES ASSUME \A n \in 0 .. N : has_next(t, walk[n]) PROVE FALSE
    OBVIOUS
  <2>1. \A m \in 0 .. N : Numbered(m)
    <3>1. N \in 0 .. N /\ \A m \in 0 .. N - 1 : m \in 0 .. N
      BY <1>1
    <3> QED
      BY <1>11, <3>1
  <2>2. walk \in [0 .. N -> 0 .. N - 1]
    <3>1. \A m \in 0 .. N : walk[m] \in 0 .. N - 1
      BY <1>1, <2>1, FollowedHeld
    <3>2. walk = [m \in 0 .. N |-> walk[m]]
      BY <1>1, <1>7
    <3> QED
      BY <3>1, <3>2
  <2>3. /\ IsFiniteSet(0 .. N) /\ IsFiniteSet(0 .. N - 1)
        /\ Cardinality(0 .. N - 1) < Cardinality(0 .. N)
    <3>1. \A m \in Nat : IsFiniteSet(0 .. m) /\ Cardinality(0 .. m) = m + 1
      BY FS_Interval
    <3>2. \A m \in Nat : IsFiniteSet(0 .. m - 1) /\ Cardinality(0 .. m - 1) = m
      BY FS_Interval
    <3> QED
      BY <1>1, <3>1, <3>2
  <2>4. PICK m, n \in 0 .. N : m # n /\ walk[m] = walk[n]
    BY <2>2, <2>3, FS_PigeonHole
  <2>5. d[i] + m = d[i] + n
    BY <2>1, <2>4
  <2> QED
    BY <1>10, <2>4, <2>5
<1>13. \E n \in DOMAIN walk : ~ has_next(t, walk[n]) /\ \A m \in 0 .. n - 1 : has_next(t, walk[m])
  <2> DEFINE S == {n \in 0 .. N : ~ has_next(t, walk[n])}
  <2>1. S \in SUBSET Nat /\ S # {}
    BY <1>12
  <2>2. PICK n \in S : \A m \in S : n <= m
    <3> HIDE DEF S
    <3> QED
      BY <2>1, Least
  <2>3. n \in DOMAIN walk /\ ~ has_next(t, walk[n])
    BY <1>8, <2>2
  <2>4. ASSUME NEW m \in 0 .. n - 1 PROVE has_next(t, walk[m])
    <3>1. m \in 0 .. N /\ m < n
      BY <2>2, <2>4
    <3> QED
      BY <2>2, <3>1
  <2> QED
    BY <2>3, <2>4
<1>14. end \in 0 .. N /\ ~ has_next(t, walk[end]) /\ \A m \in 0 .. end - 1 : has_next(t, walk[m])
  BY <1>8, <1>13
<1> HIDE DEF end
<1>15. \A m \in 0 .. end : Numbered(m)
  BY <1>11, <1>14
<1>16. DOMAIN c = 1 .. end + 1 /\ Len(c) = end + 1 /\ \A p \in 1 .. end + 1 : c[p] = walk[p - 1]
  <2>1. end + 1 \in Nat
    BY <1>14
  <2>2. c \in Seq({walk[p - 1] : p \in 1 .. end + 1})
    BY <1>9, <2>1
  <2> QED
    BY <1>9, <2>1, <2>2
<1>17. ASSUME NEW p \in 1 .. Len(c)
       PROVE  /\ c[p] \in Held(t) /\ d[c[p]] = d[i] + p - 1
              /\ find_direct_hit(t, c[p]) = find_direct_hit(t, i)
              /\ has_next(t, c[p]) <=> p < Len(c)
              /\ p < Len(c) => next(t, c[p]) = c[p + 1]
  <2>1. p - 1 \in 0 .. end /\ p \in Nat /\ c[p] = walk[p - 1] /\ d[i] + (p - 1) = d[i] + p - 1
    BY <1>10, <1>14, <1>16
  <2>2. Numbered(p - 1)
    BY <1>15, <2>1
  <2>3. has_next(t, c[p]) <=> p < Len(c)
    BY <1>14, <1>16, <2>1
  <2>4. ASSUME p < Len(c) PROVE next(t, c[p]) = c[p + 1]
    <3>1. p \in 1 .. N /\ p + 1 \in 1 .. end + 1 /\ (p + 1) - 1 = p
      BY <1>14, <1>16, <2>1, <2>4
    <3> QED
      BY <1>8, <1>16, <2>1, <3>1
  <2> QED
    BY <2>1, <2>2, <2>3, <2>4
<1>18. Len(c) \in Nat \ {0} /\ DOMAIN c = 1 .. Len(c) /\ c # <<>> /\ c[1] = i
  BY <1>8, <1>14, <1>16
<1> QED
  BY <1>17, <1>18

\* Every element is in the chain of its home, at the position of its number.
LEMMA ChainHasAll ==
  ASSUME NEW t \in BytellTables, NEW d, Ranked(t, d, {}), NEW x \in Held(t)
  PROVE  /\ find_direct_hit(t, x) \in Direct(t)
         /\ d[x] + 1 \in 1 .. Len(chain(t, find_direct_hit(t, x)))
         /\ chain(t, find_direct_hit(t, x))[d[x] + 1] = x
<1> DEFINE Placed(j) == /\ find_direct_hit(t, j) \in Direct(t)
                        /\ d[j] + 1 \in 1 .. Len(chain(t, find_direct_hit(t, j)))
                        /\ chain(t, find_direct_hit(t, j))[d[j] + 1] = j
           Good == {n \in 0 .. d[x] : \A j \in Held(t) : d[j] = n => Placed(j)}
<1>1. d \in [DOMAIN t.slots -> Nat] /\ \A j \in Held(t) : d[j] \in Nat
  BY FollowedHeld DEF Ranked
<1>2. ASSUME NEW j \in Direct(t) PROVE Placed(j)
  <2>1. j \in Held(t) /\ find_direct_hit(t, j) = j /\ d[j] = 0
    BY FollowedHeld DEF Ranked
  <2>2. PICK c : c = chain(t, j)
    OBVIOUS
  <2>3. Len(c) \in Nat \ {0} /\ c[1] = j
    BY <2>1, <2>2, ChainWalks
  <2> QED
    BY <2>1, <2>2, <2>3
<1>3. \A j \in Held(t) : j \notin Direct(t) => \E k \in Followed(t) : next(t, k) = j
  BY FollowedHeld DEF Ranked
<1>4. 0 \in Good
  <2> SUFFICES ASSUME NEW j \in Held(t), d[j] = 0, j \notin Direct(t) PROVE FALSE
    BY <1>1, <1>2
  <2>1. PICK k \in Followed(t) : next(t, k) = j
    BY <1>3
  <2>2. k \in Held(t) /\ d[j] = d[k] + 1
    BY <2>1, FollowedHeld DEF Ranked
  <2> QED
    BY <1>1, <2>2
<1>5. ASSUME NEW n \in 1 .. d[x], n - 1 \in Good PROVE n \in Good
  <2> SUFFICES ASSUME NEW j \in Held(t), d[j] = n PROVE Placed(j)
    BY <1>1
  <2>1. j \notin Direct(t)
    BY DEF Ranked
  <2>2. PICK k \in Followed(t) : next(t, k) = j
    BY <1>3, <2>1
  <2>3. /\ k \in Held(t) /\ d[j] = d[k] + 1
        /\ find_direct_hit(t, j) = find_direct_hit(t, k)
    BY <2>2, FollowedHeld DEF Ranked
  <2>4. d[k] = n - 1 /\ d[k] + 1 = n
    BY <1>1, <2>3
  <2>5. Placed(k)
    BY <1>5, <2>3, <2>4
  <2>6. PICK h \in Direct(t) : h = find_direct_hit(t, k)
    BY <2>5
  <2>7. PICK c : c = chain(t, h)
    OBVIOUS
  <2>8. n \in 1 .. Len(c) /\ c[n] = k
    BY <2>4, <2>5, <2>6, <2>7
  <2>9. h \in Held(t)
    BY FollowedHeld
  <2>10. /\ Len(c) \in Nat /\ has_next(t, c[n]) <=> n < Len(c)
         /\ n < Len(c) => next(t, c[n]) = c[n + 1]
    BY <2>7, <2>8, <2>9, ChainWalks
  <2>11. n < Len(c) /\ c[n + 1] = j
    BY <2>2, <2>8, <2>10 DEF Followed
  <2>12. d[j] + 1 \in 1 .. Len(c) /\ c[d[j] + 1] = j
    BY <2>8, <2>10, <2>11
  <2> QED
    BY <2>3, <2>6, <2>7, <2>12
<1>6. d[x] \in Good
  <2>1. \A n \in 1 .. d[x] : n - 1 \in Good => n \in Good
    BY <1>5
  <2>2. d[x] \in Nat
    BY <1>1
  <2> HIDE DEF Good
  <2>3. \A n \in 0 .. d[x] : n \in Good
    BY <1>4, <2>1, <2>2, SetInduction
  <2> QED
    BY <2>2, <2>3
<1> QED
  BY <1>6

\* No two elements have one key.
KeysOnce(t) == \A i, j \in Held(t) : KeyAt(t, i) = KeyAt(t, j) => i = j

\* find goes through the one chain that may have the key.
LEMMA FindRight ==
  ASSUME NEW t \in BytellTables, NEW d, Ranked(t, d, {}), KeysOnce(t), NEW k \in Keys
  PROVE  /\ (\A i \in Held(t) : KeyAt(t, i) # k) <=> find(t, k) = End
         /\ \A i \in Held(t) : KeyAt(t, i) = k => find(t, k) = i
<1> DEFINE home_k == index_for_hash(t, k)
           c == chainOf(t, k)
           hits == {p \in 1 .. Len(c) : KeyOf(t.slots[c[p]].item) = k}
<1>1. find(t, k) = IF hits = {} THEN End ELSE c[Min(hits)]
  BY DEF find
<1>2. c = IF DOMAIN t.slots # {} /\ t.slots[home_k].kind = "direct" THEN chain(t, home_k) ELSE <<>>
  BY DEF chainOf
<1>3. ASSUME NEW i \in Held(t), KeyAt(t, i) = k PROVE hits # {}
  <2>1. home_k = find_direct_hit(t, i) /\ DOMAIN t.slots # {}
    BY <1>3, FollowedHeld
  <2>2. /\ find_direct_hit(t, i) \in Direct(t)
        /\ d[i] + 1 \in 1 .. Len(chain(t, find_direct_hit(t, i)))
        /\ chain(t, find_direct_hit(t, i))[d[i] + 1] = i
    BY ChainHasAll
  <2>3. c = chain(t, home_k)
    BY <1>2, <2>1, <2>2 DEF Direct
  <2>4. d[i] + 1 \in 1 .. Len(c) /\ c[d[i] + 1] = i
    BY <2>1, <2>2, <2>3
  <2> HIDE DEF c, home_k
  <2> QED
    BY <1>3, <2>4 DEF KeyAt
<1>4. ASSUME hits # {}
      PROVE  c[Min(hits)] \in Held(t) /\ KeyAt(t, c[Min(hits)]) = k
  <2>1. DOMAIN t.slots # {} /\ t.slots[home_k].kind = "direct" /\ c = chain(t, home_k)
    <3>1. Len(<<>>) = 0
      OBVIOUS
    <3> QED
      BY <1>2, <1>4, <3>1
  <2>2. home_k \in Held(t)
    BY <2>1, IndexInRange DEF Held
  <2>3. Len(c) \in Nat /\ \A p \in 1 .. Len(c) : c[p] \in Held(t)
    BY <2>1, <2>2, ChainWalks
  <2> HIDE DEF c
  <2>4. hits \in SUBSET Nat
    BY <2>3
  <2>5. Min(hits) \in hits
    BY <1>4, <2>4, MinIsLeast
  <2> QED
    BY <2>3, <2>5 DEF KeyAt
<1> HIDE DEF hits, c, home_k
<1>5. \A i \in Held(t) : i # End
  BY FollowedHeld, TableFields DEF End
<1>6. (\A i \in Held(t) : KeyAt(t, i) # k) <=> hits = {}
  BY <1>3, <1>4
<1>7. \A i \in Held(t) : KeyAt(t, i) = k => find(t, k) = i
  <2> SUFFICES ASSUME NEW i \in Held(t), KeyAt(t, i) = k PROVE find(t, k) = i
    OBVIOUS
  <2>1. hits # {}
    BY <1>3
  <2> QED
    BY <1>1, <1>4, <2>1 DEF KeysOnce
<1> QED
  BY <1>1, <1>4, <1>5, <1>6, <1>7

\* find_parent_block finds the element whose jump leads to a list entry.
LEMMA ParentRight ==
  ASSUME NEW t \in BytellTables, NEW d, Ranked(t, d, {}), NEW i \in Listed(t),
         NEW j, j = find_parent_block(t, i)
  PROVE  j \in Followed(t) /\ next(t, j) = i
<1> DEFINE c == chain(t, find_direct_hit(t, i))
<1>1. PICK k \in Followed(t) : next(t, k) = i
  BY DEF Ranked
<1>2. k \in Held(t) /\ find_direct_hit(t, i) = find_direct_hit(t, k)
  BY <1>1, FollowedHeld DEF Ranked
<1>3. d[k] + 1 \in 1 .. Len(c) /\ c[d[k] + 1] = k /\ find_direct_hit(t, i) \in Direct(t)
  BY <1>2, ChainHasAll
<1>4. \A p \in 1 .. Len(c) : c[p] \in Held(t)
  BY <1>3, FollowedHeld, ChainWalks
<1>5. j = c[CHOOSE p \in 1 .. Len(c) : has_next(t, c[p]) /\ next(t, c[p]) = i]
  BY DEF find_parent_block
<1> HIDE DEF c
<1>6. \E p \in 1 .. Len(c) : has_next(t, c[p]) /\ next(t, c[p]) = i
  BY <1>1, <1>3 DEF Followed
<1>7. PICK p \in 1 .. Len(c) : j = c[p] /\ has_next(t, c[p]) /\ next(t, c[p]) = i
  BY <1>5, <1>6
<1> QED
  BY <1>4, <1>7, FollowedHeld DEF Followed

\* depth_in_chain counts from the direct hit.
LEMMA DepthRight ==
  ASSUME NEW t \in BytellTables, NEW d, Ranked(t, d, {}), NEW i \in Held(t)
  PROVE  depth_in_chain(t, i) = d[i] + 1
<1> DEFINE h == find_direct_hit(t, i)
           c == chain(t, h)
<1>1. h \in Direct(t) /\ d[i] + 1 \in 1 .. Len(c) /\ c[d[i] + 1] = i
  BY ChainHasAll
<1>2. h \in Held(t) /\ d[h] = 0
  BY <1>1, FollowedHeld DEF Ranked
<1>3. Len(c) \in Nat /\ \A p \in 1 .. Len(c) : d[c[p]] = d[h] + p - 1
  BY <1>2, ChainWalks
<1>4. depth_in_chain(t, i) = CHOOSE p \in 1 .. Len(c) : c[p] = i
  BY DEF depth_in_chain
<1> HIDE DEF c, h
<1>5. PICK p \in 1 .. Len(c) : depth_in_chain(t, i) = p /\ c[p] = i
  BY <1>1, <1>4
<1>6. p \in Nat /\ d[i] = p - 1
  BY <1>2, <1>3, <1>5
<1> QED
  BY <1>5, <1>6

\* The last element of a chain.
LEMMA LastOfChain ==
  ASSUME NEW t \in BytellTables, NEW loose, NEW d, Ranked(t, d, loose), NEW i \in Held(t),
         NEW x, x = last(chain(t, i))
  PROVE  /\ x \in Held(t) /\ ~ has_next(t, x) /\ find_direct_hit(t, x) = find_direct_hit(t, i)
         /\ ~ has_next(t, i) => x = i
         /\ has_next(t, i) =>
              /\ d[i] < d[x] /\ x \in Listed(t)
              /\ chain(t, i)[Len(chain(t, i)) - 1] \in Followed(t)
              /\ next(t, chain(t, i)[Len(chain(t, i)) - 1]) = x
<1>1. PICK c : c = chain(t, i)
  OBVIOUS
<1>2. /\ Len(c) \in Nat \ {0} /\ c[1] = i
      /\ \A p \in 1 .. Len(c) :
           /\ c[p] \in Held(t) /\ d[c[p]] = d[i] + p - 1
           /\ find_direct_hit(t, c[p]) = find_direct_hit(t, i)
           /\ has_next(t, c[p]) <=> p < Len(c)
           /\ p < Len(c) => next(t, c[p]) = c[p + 1]
  BY <1>1, ChainWalks
<1>3. x = c[Len(c)]
  BY <1>1 DEF last
<1>4. Len(c) \in 1 .. Len(c) /\ 1 \in 1 .. Len(c)
  BY <1>2
<1>5. x \in Held(t) /\ ~ has_next(t, x) /\ find_direct_hit(t, x) = find_direct_hit(t, i)
  BY <1>2, <1>3, <1>4
<1>6. ~ has_next(t, i) => x = i
  BY <1>2, <1>3, <1>4
<1>7. ASSUME has_next(t, i)
      PROVE  /\ d[i] < d[x] /\ x \in Listed(t)
             /\ c[Len(c) - 1] \in Followed(t) /\ next(t, c[Len(c) - 1]) = x
  <2>1. 1 < Len(c)
    BY <1>2, <1>4, <1>7
  <2>2. Len(c) - 1 \in 1 .. Len(c) /\ (Len(c) - 1) + 1 = Len(c) /\ Len(c) - 1 < Len(c)
    BY <1>2, <2>1
  <2>3. c[Len(c) - 1] \in Held(t) /\ has_next(t, c[Len(c) - 1]) /\ next(t, c[Len(c) - 1]) = c[Len(c)]
    BY <1>2, <2>2
  <2>4. c[Len(c) - 1] \in Followed(t)
    BY <2>3, FollowedHeld DEF Followed
  <2>5. d[i] \in Nat
    BY FollowedHeld DEF Ranked
  <2>6. d[x] = d[i] + Len(c) - 1
    BY <1>2, <1>3, <1>4
  <2> QED
    BY <1>2, <1>3, <2>1, <2>3, <2>4, <2>5, <2>6 DEF Ranked
<1> QED
  BY <1>1, <1>5, <1>6, <1>7

(***************************************************************************)
(* What a table holds.                                                     *)
(***************************************************************************)
Stored(t) == {t.slots[i].item : i \in Held(t)}

Sized(t) == DOMAIN t.slots = {} \/ \E e \in 1 .. bucket_count(t) : bucket_count(t) = power(e)

Counted(t) ==
  t.num_elements = Cardinality(Held(t)) /\ 16 * t.num_elements <= 15 * bucket_count(t)

Filled(t) == t \in BytellTables /\ Sized(t) /\ Counted(t) /\ KeysOnce(t)

\* A table that no operation is changing.
Sound(t) == Filled(t) /\ Reserved(t) = {} /\ \E d : Ranked(t, d, {})

\* What is held is a finite number of slots.
LEMMA HeldFinite ==
  ASSUME NEW t \in BytellTables
  PROVE  IsFiniteSet(Held(t)) /\ Cardinality(Held(t)) \in Nat
<1>1. Held(t) \in SUBSET (DOMAIN t.slots) /\ IsFiniteSet(DOMAIN t.slots)
  BY TableFields DEF Held
<1> QED
  BY <1>1, FS_Subset, FS_CardinalityType

\* A table of the same size is of a right size, too.
LEMMA SameSized ==
  ASSUME NEW t, NEW u, Same(t, u), Sized(t)
  PROVE  Sized(u)
BY DEF Same, Sized

\* The chains do not depend on the count of elements.
LEMMA CountKeeps ==
  ASSUME NEW t, NEW u, u.hasher = t.hasher, u.slots = t.slots
  PROVE  /\ Same(t, u) /\ Held(u) = Held(t) /\ Reserved(u) = Reserved(t) /\ Empty(u) = Empty(t)
         /\ Stored(u) = Stored(t)
         /\ \A d, loose : Ranked(t, d, loose) => Ranked(u, d, loose)
<1>1. Same(t, u)
  BY DEF Same, bucket_count
<1>2. /\ Held(u) = Held(t) /\ Reserved(u) = Reserved(t) /\ Empty(u) = Empty(t)
      /\ Stored(u) = Stored(t) /\ Direct(u) = Direct(t) /\ Listed(u) = Listed(t)
      /\ Followed(u) = Followed(t)
  BY DEF Held, Reserved, Empty, Stored, Direct, Listed, Followed, has_next
<1>3. \A i : find_direct_hit(u, i) = find_direct_hit(t, i) /\ next(u, i) = next(t, i)
  BY <1>1, SameShape DEF find_direct_hit, next
<1> QED
  BY <1>1, <1>2, <1>3 DEF Ranked

\* An element with a new key is added.
LEMMA ElementAdded ==
  ASSUME NEW t, Filled(t), NEW u \in BytellTables, Same(t, u), ~ is_full(t),
         NEW i \in DOMAIN t.slots, i \notin Held(t), Held(u) = Held(t) \union {i},
         NEW e \in Elements, u.slots[i].item = e, \A j \in Held(t) : KeyAt(t, j) # KeyOf(e),
         \A j \in Held(t) : u.slots[j].item = t.slots[j].item,
         u.num_elements = t.num_elements + 1
  PROVE  Filled(u) /\ Stored(u) = Stored(t) \union {e}
<1>1. t \in BytellTables /\ Counted(t) /\ KeysOnce(t) /\ Sized(t)
  BY DEF Filled
<1>2. Cardinality(Held(u)) = Cardinality(Held(t)) + 1
  BY <1>1, HeldFinite, FS_AddElement
<1>3. 16 * (t.num_elements + 1) <= 15 * bucket_count(t)
  BY <1>1, TableFields DEF is_full
<1>4. Counted(u)
  BY <1>1, <1>2, <1>3 DEF Counted, Same
<1>5. KeysOnce(u)
  BY <1>1 DEF KeysOnce, KeyAt
<1>6. Stored(u) = Stored(t) \union {e}
  BY DEF Stored
<1> QED
  BY <1>1, <1>4, <1>5, <1>6, SameSized DEF Filled

\* The element at i is taken away and the slot x is given up, whose element, if
\* it is another one, goes to i.
LEMMA ElementRemoved ==
  ASSUME NEW t, Filled(t), NEW u \in BytellTables, Same(t, u),
         NEW i \in Held(t), NEW x \in Held(t), Held(u) = Held(t) \ {x},
         x # i => u.slots[i].item = t.slots[x].item,
         \A j \in Held(t) : j # x /\ j # i => u.slots[j].item = t.slots[j].item,
         u.num_elements = t.num_elements - 1
  PROVE  Filled(u) /\ Stored(u) = Stored(t) \ {t.slots[i].item}
<1>1. t \in BytellTables /\ Counted(t) /\ KeysOnce(t) /\ Sized(t)
  BY DEF Filled
<1>2. Cardinality(Held(u)) = Cardinality(Held(t)) - 1
  BY <1>1, HeldFinite, FS_RemoveElement
<1>3. Counted(u)
  BY <1>1, <1>2, TableFields DEF Counted, Same
<1>4. KeysOnce(u)
  BY <1>1 DEF KeysOnce, KeyAt
<1>5. \A j, k \in Held(t) : t.slots[j].item = t.slots[k].item => j = k
  BY <1>1 DEF KeysOnce, KeyAt
<1>6. Stored(u) = Stored(t) \ {t.slots[i].item}
  <2>1. ASSUME NEW e \in Stored(u) PROVE e \in Stored(t) \ {t.slots[i].item}
    BY <1>5 DEF Stored
  <2>2. ASSUME NEW e \in Stored(t) \ {t.slots[i].item} PROVE e \in Stored(u)
    <3>1. PICK j \in Held(t) : e = t.slots[j].item /\ j # i
      BY DEF Stored
    <3>2. CASE j # x
      BY <3>1, <3>2 DEF Stored
    <3>3. CASE j = x
      BY <3>1, <3>3 DEF Stored
    <3> QED
      BY <3>2, <3>3
  <2> QED
    BY <2>1, <2>2
<1> QED
  BY <1>1, <1>3, <1>4, <1>6, SameSized DEF Filled

\* The element of one slot goes to another.
LEMMA ElementMoved ==
  ASSUME NEW t, Filled(t), NEW u \in BytellTables, Same(t, u),
         NEW i \in Held(t), NEW x \in DOMAIN t.slots, x \notin Held(t),
         Held(u) = (Held(t) \ {i}) \union {x}, u.slots[x].item = t.slots[i].item,
         \A j \in Held(t) : j # i => u.slots[j].item = t.slots[j].item,
         u.num_elements = t.num_elements
  PROVE  Filled(u) /\ Stored(u) = Stored(t)
<1>1. t \in BytellTables /\ Counted(t) /\ KeysOnce(t) /\ Sized(t)
  BY DEF Filled
<1>2. Cardinality(Held(u)) = Cardinality(Held(t))
  <2>1. IsFiniteSet(Held(t)) /\ Cardinality(Held(t)) \in Nat
    BY <1>1, HeldFinite
  <2>2. IsFiniteSet(Held(t) \ {i}) /\ Cardinality(Held(t) \ {i}) = Cardinality(Held(t)) - 1
    BY <2>1, FS_RemoveElement
  <2>3. Cardinality((Held(t) \ {i}) \union {x}) = Cardinality(Held(t) \ {i}) + 1
    BY <2>2, FS_AddElement
  <2> QED
    BY <2>1, <2>2, <2>3
<1>3. Counted(u)
  BY <1>1, <1>2 DEF Counted, Same
<1>4. KeysOnce(u)
  BY <1>1 DEF KeysOnce, KeyAt
<1>5. Stored(u) = Stored(t)
  BY DEF Stored
<1> QED
  BY <1>1, <1>3, <1>4, <1>5, SameSized DEF Filled

(***************************************************************************)
(* Erasure.                                                                *)
(***************************************************************************)
\* The last entry of a chain is cut off.
LEMMA CutRight ==
  ASSUME NEW t \in BytellTables, NEW d, Ranked(t, d, {}),
         NEW above \in Followed(t), NEW x, next(t, above) = x, ~ has_next(t, x),
         NEW u, u = cut(t, x, above)
  PROVE  /\ u \in BytellTables /\ Same(t, u) /\ u.num_elements = t.num_elements
         /\ Ranked(u, d, {}) /\ x \in Held(t) /\ above # x /\ u.slots[x] = empty_slot
         /\ u.slots[above] = Slot(t.slots[above].kind, 0, t.slots[above].item)
         /\ \A j \in DOMAIN t.slots : j # x /\ j # above => u.slots[j] = t.slots[j]
<1>1. /\ above \in Held(t) /\ above \in DOMAIN t.slots
      /\ x \in Listed(t) /\ x \in Held(t) /\ x \in DOMAIN t.slots
  BY FollowedHeld DEF Ranked
<1>2. above # x
  BY DEF Followed
<1>3. PICK v : v = set_next(t, above, 0)
  OBVIOUS
<1>4. /\ v \in BytellTables /\ Same(t, v)
      /\ v.slots[above] = Slot(t.slots[above].kind, 0, t.slots[above].item)
      /\ \A j \in DOMAIN t.slots : j # above => v.slots[j] = t.slots[j]
  BY <1>1, <1>3, SetNextFields DEF Same
<1>5. Ranked(v, d, {x})
  BY <1>4, RankedCut
<1>6. PICK w : w = set(t, x, empty_slot)
  OBVIOUS
<1>7. /\ w \in BytellTables /\ Same(t, w) /\ w.num_elements = t.num_elements
      /\ w.slots[x] = empty_slot
      /\ \A j \in DOMAIN t.slots : j # x => w.slots[j] = t.slots[j]
  BY <1>1, <1>6, SetFields, SlotFields DEF Same
<1>8. above \in Held(w) /\ u = set_next(w, above, 0)
  BY <1>1, <1>2, <1>6, <1>7 DEF Held, cut, Same
<1>9. /\ u \in BytellTables /\ Same(t, u) /\ u.num_elements = t.num_elements
      /\ u.slots[above] = Slot(t.slots[above].kind, 0, t.slots[above].item)
      /\ \A j \in DOMAIN t.slots : j # above => u.slots[j] = w.slots[j]
  BY <1>1, <1>2, <1>7, <1>8, SetNextFields DEF Same
<1>10. x \in Held(v) /\ ~ has_next(v, x)
  BY <1>1, <1>2, <1>4 DEF Held, has_next, Same
<1>11. /\ Same(v, u) /\ u.slots[x] = empty_slot
       /\ \A j \in DOMAIN v.slots : j # x => u.slots[j] = v.slots[j]
  BY <1>1, <1>2, <1>4, <1>7, <1>9 DEF Same
<1>12. Ranked(u, d, ({x} \ {x}) \union {})
  BY <1>4, <1>5, <1>9, <1>10, <1>11, RankedRemove
<1> QED
  BY <1>1, <1>2, <1>7, <1>9, <1>12

\* The slot x was given up, for the element at i: it is i itself, or farther from
\* the direct hit.
GaveUp(t, i, u, x) ==
  /\ Held(u) = Held(t) \ {x}
  /\ x # i => /\ u.slots[i].item = t.slots[x].item /\ u.slots[i].kind # "empty"
              /\ depth_in_chain(t, i) \in Nat /\ depth_in_chain(t, x) \in Nat
              /\ depth_in_chain(t, x) > depth_in_chain(t, i)
  /\ x = i => u.slots[i].kind = "empty"
  /\ \A j \in Held(t) : j # x /\ j # i => u.slots[j].item = t.slots[j].item

\* erase takes the element at i away and keeps the table sound.
LEMMA EraseRight ==
  ASSUME NEW t, Sound(t), NEW i \in Held(t), NEW u, u = erase(t, i)
  PROVE  /\ Sound(u) /\ Same(t, u) /\ Stored(u) = Stored(t) \ {t.slots[i].item}
         /\ \E x \in Held(t) : GaveUp(t, i, u, x)
<1>1. t \in BytellTables /\ Filled(t) /\ Reserved(t) = {}
  BY DEF Sound, Filled
<1>2. PICK d : Ranked(t, d, {})
  BY DEF Sound
<1>3. PICK c : c = chain(t, i)
  OBVIOUS
<1>4. PICK x : x = last(c)
  OBVIOUS
<1>5. /\ x \in Held(t) /\ ~ has_next(t, x) /\ find_direct_hit(t, x) = find_direct_hit(t, i)
      /\ ~ has_next(t, i) => x = i
      /\ has_next(t, i) => /\ d[i] < d[x] /\ x \in Listed(t)
                           /\ c[Len(c) - 1] \in Followed(t) /\ next(t, c[Len(c) - 1]) = x
  BY <1>1, <1>2, <1>3, <1>4, LastOfChain
<1>6. i \in DOMAIN t.slots /\ x \in DOMAIN t.slots /\ t.slots[i].kind \in {"direct", "list"}
  BY <1>1, <1>5, FollowedHeld DEF Held
<1> DEFINE rest == IF has_next(t, i)
              THEN cut(set(t, i, Slot(t.slots[i].kind, t.slots[i].jump, t.slots[last(c)].item)),
                       last(c), c[Len(c) - 1])
              ELSE IF t.slots[i].kind = "direct" THEN set(t, i, empty_slot)
              ELSE cut(t, i, find_parent_block(t, i))
           Right(r) ==
             /\ r \in BytellTables /\ Same(t, r) /\ r.num_elements = t.num_elements
             /\ Ranked(r, d, {}) /\ Held(r) = Held(t) \ {x} /\ Reserved(r) = {}
             /\ x # i => r.slots[i].item = t.slots[x].item /\ r.slots[i].kind # "empty"
             /\ r.slots[x].kind = "empty"
             /\ \A j \in Held(t) : j # x /\ j # i => r.slots[j].item = t.slots[j].item
<1>7. u = [rest EXCEPT !.num_elements = @ - 1]
  BY <1>3 DEF erase
\* The last element of the chain takes the place of the one at i.
<1>8. ASSUME has_next(t, i) PROVE Right(rest)
  <2>1. PICK w : w = set(t, i, Slot(t.slots[i].kind, t.slots[i].jump, t.slots[x].item))
    OBVIOUS
  <2>2. /\ t.slots[x].item \in Elements /\ t.slots[i].jump \in {0} \union Jumps
        /\ index_for_hash(t, KeyOf(t.slots[x].item)) = find_direct_hit(t, i)
    BY <1>1, <1>5, FollowedHeld DEF KeyAt
  <2>3. Slot(t.slots[i].kind, t.slots[i].jump, t.slots[x].item) \in SlotTypes
    BY <1>6, <2>2, SlotFields
  <2>4. /\ w \in BytellTables /\ Same(t, w) /\ w.num_elements = t.num_elements
        /\ w.slots[i] = Slot(t.slots[i].kind, t.slots[i].jump, t.slots[x].item)
        /\ \A j \in DOMAIN t.slots : j # i => w.slots[j] = t.slots[j]
    BY <1>1, <1>6, <2>1, <2>3, SetFields DEF Same
  <2>5. Ranked(w, d, {})
    BY <1>1, <1>2, <2>2, <2>4, RankedReplace
  <2>6. /\ w.slots[i].kind = t.slots[i].kind /\ w.slots[i].jump = t.slots[i].jump
        /\ w.slots[i].item = t.slots[x].item
    BY <2>4, SlotFields
  <2>7. PICK above : above = c[Len(c) - 1]
    OBVIOUS
  <2>8. above \in Followed(t) /\ next(t, above) = x
    BY <1>5, <1>8, <2>7
  <2>9. above \in Followed(w) /\ next(w, above) = x /\ ~ has_next(w, x)
    <3>1. \A j \in DOMAIN t.slots : w.slots[j].jump = t.slots[j].jump
      BY <2>4, <2>6
    <3> QED
      BY <1>5, <1>6, <2>4, <2>8, <3>1, SameShape DEF Followed, next, has_next, Same
  <2>10. rest = cut(w, x, above)
    BY <1>4, <1>8, <2>1, <2>7
  <2> HIDE DEF rest
  <2>11. PICK r : r = rest
    OBVIOUS
  <2>12. /\ r \in BytellTables /\ Same(w, r) /\ r.num_elements = w.num_elements
         /\ Ranked(r, d, {}) /\ above # x /\ r.slots[x] = empty_slot
         /\ r.slots[above] = Slot(w.slots[above].kind, 0, w.slots[above].item)
         /\ \A j \in DOMAIN w.slots : j # x /\ j # above => r.slots[j] = w.slots[j]
    BY <2>4, <2>5, <2>9, <2>10, <2>11, CutRight
  <2>13. r.slots[above].kind = w.slots[above].kind /\ r.slots[above].item = w.slots[above].item
    BY <2>12, SlotFields
  <2>14. \A j \in DOMAIN t.slots : j # x => /\ r.slots[j].kind = t.slots[j].kind
                                            /\ r.slots[j].item = w.slots[j].item
    BY <2>4, <2>6, <2>12, <2>13 DEF Same
  <2>15. x # i
    BY <1>5, <1>8
  <2>16. Held(r) = Held(t) \ {x} /\ Reserved(r) = {} /\ Same(t, r) /\ r.slots[x].kind = "empty"
    BY <1>1, <1>6, <2>4, <2>12, <2>14, SlotFields DEF Held, Reserved, Same
  <2>17. r.slots[i].item = t.slots[x].item /\ r.slots[i].kind # "empty"
    BY <1>6, <2>6, <2>14, <2>15
  <2>18. \A j \in Held(t) : j # x /\ j # i => r.slots[j].item = t.slots[j].item
    BY <2>4, <2>14 DEF Held
  <2>19. Right(r)
    BY <2>4, <2>12, <2>16, <2>17, <2>18
  <2> HIDE DEF Right
  <2> QED
    BY <2>11, <2>19
\* The slot of a chain of one element.
<1>9. ASSUME ~ has_next(t, i), t.slots[i].kind = "direct" PROVE Right(rest)
  <2>1. PICK r : r = set(t, i, empty_slot)
    OBVIOUS
  <2>2. rest = r
    BY <1>9, <2>1
  <2> HIDE DEF rest
  <2>3. /\ r \in BytellTables /\ Same(t, r) /\ r.num_elements = t.num_elements
        /\ r.slots[i] = empty_slot
        /\ \A j \in DOMAIN t.slots : j # i => r.slots[j] = t.slots[j]
    BY <1>1, <1>6, <2>1, SetFields, SlotFields DEF Same
  <2>4. i \in Direct(t) /\ x = i
    BY <1>5, <1>6, <1>9 DEF Direct
  <2>5. Ranked(r, d, ({} \ {i}) \union {})
    BY <1>1, <1>2, <1>9, <2>3, <2>4, RankedRemove
  <2>6. Held(r) = Held(t) \ {x} /\ Reserved(r) = {} /\ r.slots[x].kind = "empty"
    BY <1>1, <1>6, <2>3, <2>4, SlotFields DEF Held, Reserved, Same
  <2>7. \A j \in Held(t) : j # x /\ j # i => r.slots[j].item = t.slots[j].item
    BY <2>3 DEF Held
  <2>8. Right(r)
    BY <2>3, <2>4, <2>5, <2>6, <2>7
  <2> HIDE DEF Right
  <2> QED
    BY <2>2, <2>8
\* The end of a chain.
<1>10. ASSUME ~ has_next(t, i), t.slots[i].kind # "direct" PROVE Right(rest)
  <2>1. PICK above : above = find_parent_block(t, i)
    OBVIOUS
  <2>2. i \in Listed(t)
    BY <1>6, <1>10 DEF Listed
  <2>3. above \in Followed(t) /\ next(t, above) = i
    BY <1>1, <1>2, <2>1, <2>2, ParentRight
  <2>4. PICK r : r = cut(t, i, above)
    OBVIOUS
  <2>5. rest = r
    BY <1>10, <2>1, <2>4
  <2> HIDE DEF rest
  <2>6. /\ r \in BytellTables /\ Same(t, r) /\ r.num_elements = t.num_elements
        /\ Ranked(r, d, {}) /\ above # i /\ r.slots[i] = empty_slot
        /\ r.slots[above] = Slot(t.slots[above].kind, 0, t.slots[above].item)
        /\ \A j \in DOMAIN t.slots : j # i /\ j # above => r.slots[j] = t.slots[j]
    BY <1>1, <1>2, <1>10, <2>3, <2>4, CutRight
  <2>7. r.slots[above].kind = t.slots[above].kind /\ r.slots[above].item = t.slots[above].item
    BY <2>6, SlotFields
  <2>8. \A j \in DOMAIN t.slots : j # i => /\ r.slots[j].kind = t.slots[j].kind
                                           /\ r.slots[j].item = t.slots[j].item
    BY <2>6, <2>7
  <2>9. x = i
    BY <1>5, <1>10
  <2>10. Held(r) = Held(t) \ {x} /\ Reserved(r) = {} /\ r.slots[x].kind = "empty"
    BY <1>1, <1>6, <2>6, <2>8, <2>9, SlotFields DEF Held, Reserved, Same
  <2>11. \A j \in Held(t) : j # x /\ j # i => r.slots[j].item = t.slots[j].item
    BY <2>8 DEF Held
  <2>12. Right(r)
    BY <2>6, <2>9, <2>10, <2>11
  <2> HIDE DEF Right
  <2> QED
    BY <2>5, <2>12
<1>11. Right(rest)
  <2> HIDE DEF Right, rest
  <2> QED
    BY <1>8, <1>9, <1>10
<1> HIDE DEF rest
<1>12. PICK r : r = rest /\ Right(r)
  BY <1>11
<1>13. t.num_elements \in Nat /\ t.num_elements - 1 \in Nat
  <2>1. t.num_elements = Cardinality(Held(t)) /\ IsFiniteSet(Held(t)) /\ t.num_elements \in Nat
    BY <1>1, HeldFinite, TableFields DEF Filled, Counted
  <2>2. Cardinality(Held(t)) # 0
    BY <2>1, FS_EmptySet
  <2> QED
    BY <2>1, <2>2
<1>14. u = [r EXCEPT !.num_elements = t.num_elements - 1]
  BY <1>7, <1>12
<1>15. /\ u \in BytellTables /\ u.hasher = r.hasher /\ u.slots = r.slots
       /\ u.num_elements = t.num_elements - 1
  BY <1>12, <1>13, <1>14, CountFields
<1>16. Held(u) = Held(r) /\ Reserved(u) = {} /\ Ranked(u, d, {}) /\ Same(r, u)
  BY <1>12, <1>15, CountKeeps
<1>17. Same(t, u)
  BY <1>12, <1>16 DEF Same
<1>18. Filled(u) /\ Stored(u) = Stored(t) \ {t.slots[i].item}
  BY <1>1, <1>5, <1>12, <1>15, <1>16, <1>17, ElementRemoved
<1>19. x # i => d[i] < d[x]
  BY <1>5
<1>20. /\ depth_in_chain(t, i) = d[i] + 1 /\ depth_in_chain(t, x) = d[x] + 1
       /\ d[i] \in Nat /\ d[x] \in Nat
  BY <1>1, <1>2, <1>5, <1>6, DepthRight DEF Ranked
<1>21. x # i => /\ depth_in_chain(t, i) \in Nat /\ depth_in_chain(t, x) \in Nat
                /\ depth_in_chain(t, x) > depth_in_chain(t, i)
  BY <1>19, <1>20
<1>22. /\ Held(u) = Held(t) \ {x}
       /\ x # i => u.slots[i].item = t.slots[x].item /\ u.slots[i].kind # "empty"
       /\ x = i => u.slots[i].kind = "empty"
       /\ \A j \in Held(t) : j # x /\ j # i => u.slots[j].item = t.slots[j].item
  BY <1>12, <1>15, <1>16
<1>23. GaveUp(t, i, u, x)
  BY <1>21, <1>22 DEF GaveUp
<1> QED
  BY <1>5, <1>16, <1>17, <1>18, <1>23 DEF Sound

(***************************************************************************)
(* Growth.                                                                 *)
(***************************************************************************)
\* rehash finds every element of the old slots, once, however broken the chains.
LEMMA ItemsHold ==
  ASSUME NEW t \in BytellTables, KeysOnce(t), NEW w, w = items(t)
  PROVE  w \in Seq(Elements) /\ Entries(w) = Stored(t) /\ NoneTwice(w)
<1>1. PICK N \in Nat : N = bucket_count(t) /\ DOMAIN t.slots = 0 .. N - 1
  BY TableFields
<1>2. PICK V : V = Seq(Elements)
  OBVIOUS
<1>3. PICK it_at : it_at = [n \in 1 .. N |-> t.slots[n - 1].item]
  OBVIOUS
<1>4. ASSUME NEW n \in 1 .. N
      PROVE  /\ it_at[n] = t.slots[n - 1].item /\ n - 1 \in DOMAIN t.slots
             /\ n - 1 \in Held(t) => it_at[n] \in Elements /\ it_at[n] # NoItem
             /\ n - 1 \notin Held(t) => it_at[n] = NoItem
  <2>1. n - 1 \in DOMAIN t.slots /\ it_at[n] = t.slots[n - 1].item
    BY <1>1, <1>3
  <2>2. t.slots[n - 1] \in SlotTypes
    BY <2>1, TableFields
  <2> QED
    BY <2>1, <2>2, SlotFields, ElementFields DEF Held
<1>5. PICK F : F = [n \in 1 .. N |-> [v \in V |-> IF it_at[n] = NoItem THEN v ELSE Append(v, it_at[n])]]
  OBVIOUS
<1>6. F \in [1 .. N -> [V -> V]] /\ <<>> \in V
  <2>1. ASSUME NEW n \in 1 .. N, NEW v \in V
        PROVE  (IF it_at[n] = NoItem THEN v ELSE Append(v, it_at[n])) \in V
    <3>1. it_at[n] # NoItem => it_at[n] \in Elements
      BY <1>4
    <3> QED
      BY <1>2, <3>1
  <2> QED
    BY <1>2, <1>5, <2>1
<1>7. PICK g : Iterates(g, N, V, <<>>, F)
  BY <1>1, <1>6, IterationDefined
<1>8. /\ g \in [0 .. N -> V] /\ g[0] = <<>>
      /\ \A n \in 1 .. N : g[n - 1] \in V
           /\ g[n] = IF it_at[n] = NoItem THEN g[n - 1] ELSE Append(g[n - 1], it_at[n])
  <2>1. g \in [0 .. N -> V] /\ g[0] = <<>> /\ \A n \in 1 .. N : g[n] = F[n][g[n - 1]]
    BY <1>7 DEF Iterates
  <2>2. \A n \in 1 .. N : n - 1 \in 0 .. N
    BY <1>1
  <2>3. \A n \in 1 .. N : g[n - 1] \in V
    BY <2>1, <2>2
  <2> QED
    BY <1>5, <2>1, <2>3
<1>9. w = g[N]
  <2> DEFINE R(f) == [n \in 0 .. bucket_count(t) |->
                        IF n = 0 THEN <<>>
                        ELSE IF t.slots[n - 1].item = NoItem THEN f[n - 1]
                        ELSE Append(f[n - 1], t.slots[n - 1].item)]
             found == CHOOSE f : f = R(f)
  <2>1. g = R(g)
    <3>1. \A n \in 0 .. N : n = 0 \/ n \in 1 .. N
      BY <1>1
    <3>2. \A n \in 0 .. N : g[n] = R(g)[n]
      BY <1>1, <1>4, <1>8, <3>1
    <3>3. R(g) = [n \in 0 .. N |-> R(g)[n]] /\ g = [n \in 0 .. N |-> g[n]]
      BY <1>1, <1>8
    <3> HIDE DEF R
    <3> QED
      BY <3>2, <3>3
  <2>2. found = R(found)
    <3> HIDE DEF R
    <3> QED
      BY <2>1
  <2>3. w = found[N]
    BY <1>1 DEF items
  <2>4. ASSUME NEW n \in 0 .. N
        PROVE  found[n] = IF n = 0 THEN <<>> ELSE IF it_at[n] = NoItem THEN found[n - 1]
                          ELSE Append(found[n - 1], it_at[n])
    <3> HIDE DEF found
    <3>1. found[n] = R(found)[n]
      BY <2>2
    <3>2. n # 0 => n \in 1 .. N
      BY <1>1
    <3> QED
      BY <1>1, <1>4, <3>1, <3>2
  <2> HIDE DEF found
  <2> DEFINE Agree == {n \in 0 .. N : found[n] = g[n]}
  <2>5. 0 \in Agree
    BY <1>1, <1>8, <2>4
  <2>6. \A n \in 1 .. N : n - 1 \in Agree => n \in Agree
    <3>1. \A n \in 1 .. N : n \in 0 .. N /\ n # 0
      BY <1>1
    <3> QED
      BY <1>8, <2>4, <3>1
  <2>7. N \in Agree
    <3> HIDE DEF Agree
    <3>1. \A n \in 0 .. N : n \in Agree
      BY <2>5, <2>6, SetInduction
    <3>2. N \in 0 .. N
      OBVIOUS
    <3> QED
      BY <3>1, <3>2
  <2> QED
    BY <2>3, <2>7
<1> DEFINE Part(v, n) == /\ v \in Seq(Elements) /\ NoneTwice(v)
                         /\ Entries(v) = {t.slots[i].item : i \in {j \in Held(t) : j < n}}
           Good == {n \in 0 .. N : Part(g[n], n)}
<1>10. \A i \in Held(t) : i \in 0 .. N - 1
  BY <1>1, FollowedHeld
<1>11. 0 \in Good
  <2>1. {j \in Held(t) : j < 0} = {}
    BY <1>1, <1>10
  <2>2. PICK v : v = <<>>
    OBVIOUS
  <2>3. Entries(v) = {} /\ NoneTwice(v) /\ v \in Seq(Elements)
    BY <2>2 DEF Entries, NoneTwice
  <2>4. Part(v, 0)
    BY <2>1, <2>3
  <2>5. g[0] = v /\ 0 \in 0 .. N
    BY <1>8, <2>2
  <2> HIDE DEF Part
  <2> QED
    BY <2>4, <2>5
<1>12. ASSUME NEW n \in 1 .. N, n - 1 \in Good PROVE n \in Good
  <2>1. PICK v : v = g[n - 1]
    OBVIOUS
  <2>2. Part(v, n - 1) /\ n \in 0 .. N
    BY <1>1, <1>12, <2>1
  <2>3. CASE n - 1 \notin Held(t)
    <3>1. g[n] = v
      BY <1>4, <1>8, <2>1, <2>3
    <3>2. {j \in Held(t) : j < n} = {j \in Held(t) : j < n - 1}
      BY <1>10, <2>3
    <3> QED
      BY <2>2, <3>1, <3>2
  <2>4. CASE n - 1 \in Held(t)
    <3>1. PICK x \in Elements : x = it_at[n] /\ x = t.slots[n - 1].item /\ x # NoItem
      BY <1>4, <2>4
    <3>2. PICK q : q = Append(v, x)
      OBVIOUS
    <3>3. g[n] = q
      BY <1>8, <2>1, <3>1, <3>2
    <3>4. Extends(q, v, x, Elements)
      BY <2>2, <3>2, Pushed
    <3>5. {j \in Held(t) : j < n} = {j \in Held(t) : j < n - 1} \union {n - 1}
      BY <1>10, <2>4
    <3>6. x \notin Entries(v)
      <4>1. SUFFICES ASSUME NEW j \in Held(t), j < n - 1, x = t.slots[j].item PROVE FALSE
        BY <2>2
      <4>2. KeyAt(t, j) = KeyAt(t, n - 1)
        BY <3>1, <4>1 DEF KeyAt
      <4> QED
        BY <2>4, <4>1, <4>2 DEF KeysOnce
    <3>7. q \in Seq(Elements) /\ NoneTwice(q) /\ Entries(q) = Entries(v) \union {x}
      BY <2>2, <3>4, <3>6 DEF Extends
    <3>8. Part(q, n)
      BY <2>2, <3>1, <3>5, <3>7
    <3> HIDE DEF Part
    <3> QED
      BY <2>2, <3>3, <3>8
  <2> QED
    BY <2>3, <2>4
<1>13. N \in Good
  <2>1. \A n \in 1 .. N : n - 1 \in Good => n \in Good
    BY <1>12
  <2> HIDE DEF Good
  <2>2. \A n \in 0 .. N : n \in Good
    BY <1>11, <2>1, SetInduction
  <2>3. N \in 0 .. N
    OBVIOUS
  <2> QED
    BY <2>2, <2>3
<1>14. {j \in Held(t) : j < N} = Held(t)
  BY <1>1, <1>10
<1> QED
  BY <1>9, <1>13, <1>14 DEF Stored

\* Reverse keeps the entries of a sequence.
LEMMA ReverseHolds ==
  ASSUME NEW S, NEW w \in Seq(S), NEW v, v = Reverse(w)
  PROVE  /\ v \in Seq(S) /\ Entries(v) = Entries(w) /\ (NoneTwice(w) => NoneTwice(v))
<1>1. PICK n \in Nat : n = Len(w)
  OBVIOUS
<1>2. v = [i \in 1 .. n |-> w[(n - i) + 1]]
  BY <1>1 DEF Reverse
<1>3. \A i \in 1 .. n : (n - i) + 1 \in 1 .. n /\ (n - ((n - i) + 1)) + 1 = i
  BY <1>1
<1>4. \A i \in 1 .. n : w[i] \in S
  BY <1>1
<1>5. v \in Seq(S) /\ Len(v) = n
  BY <1>1, <1>2, <1>3, <1>4
<1>6. \A i \in 1 .. n : v[i] = w[(n - i) + 1] /\ w[i] = v[(n - i) + 1]
  BY <1>2, <1>3
<1>7. Entries(v) = Entries(w)
  <2>1. ASSUME NEW x \in Entries(v) PROVE x \in Entries(w)
    <3>1. PICK i \in 1 .. n : x = v[i]
      BY <1>5 DEF Entries
    <3> QED
      BY <1>1, <1>3, <1>6, <3>1 DEF Entries
  <2>2. ASSUME NEW x \in Entries(w) PROVE x \in Entries(v)
    <3>1. PICK i \in 1 .. n : x = w[i]
      BY <1>1 DEF Entries
    <3> QED
      BY <1>3, <1>5, <1>6, <3>1 DEF Entries
  <2> QED
    BY <2>1, <2>2
<1>8. NoneTwice(w) => NoneTwice(v)
  <2> SUFFICES ASSUME NoneTwice(w), NEW i \in 1 .. n, NEW j \in 1 .. n, i # j
               PROVE  v[i] # v[j]
    BY <1>5 DEF NoneTwice
  <2>1. (n - i) + 1 # (n - j) + 1
    BY <1>1
  <2> QED
    BY <1>1, <1>3, <1>6, <2>1 DEF NoneTwice
<1> QED
  BY <1>5, <1>7, <1>8

\* A table that holds nothing.
LEMMA NothingHeld ==
  ASSUME NEW t \in BytellTables, Sized(t), t.num_elements = 0,
         \A i \in DOMAIN t.slots : t.slots[i] = empty_slot
  PROVE  Sound(t) /\ Held(t) = {} /\ Stored(t) = {}
<1>1. /\ Held(t) = {} /\ Reserved(t) = {} /\ Direct(t) = {} /\ Listed(t) = {} /\ Followed(t) = {}
  BY SlotFields DEF Held, Reserved, Direct, Listed, Followed, has_next
<1>2. Counted(t)
  BY <1>1, FS_EmptySet, TableFields DEF Counted
<1>3. KeysOnce(t)
  BY <1>1 DEF KeysOnce
<1>4. Ranked(t, [i \in DOMAIN t.slots |-> 0], {})
  BY <1>1 DEF Ranked
<1> QED
  BY <1>1, <1>2, <1>3, <1>4 DEF Sound, Filled, Stored

\* A table without slots is sound and holds nothing.
LEMMA EmptyTableSound ==
  ASSUME NEW h \in [Keys -> 0 .. Words - 1], NEW t, t = EmptyTable(h)
  PROVE  /\ Sound(t) /\ Held(t) = {} /\ Stored(t) = {} /\ t.hasher = h
         /\ t \in BytellTables /\ bucket_count(t) = 0 /\ t.num_elements = 0
<1>1. PICK n \in Nat : n = 0
  OBVIOUS
<1>2. 0 .. n - 1 = {}
  BY <1>1
<1>3. NoSlots \in [0 .. n - 1 -> SlotTypes] /\ DOMAIN NoSlots = {}
  BY <1>2 DEF NoSlots
<1>4. t = Table(h, NoSlots, n)
  BY <1>1 DEF EmptyTable
<1>5. t \in BytellTables /\ t.hasher = h /\ t.slots = NoSlots /\ t.num_elements = 0 /\ bucket_count(t) = 0
  <2>1. PICK s \in [0 .. n - 1 -> SlotTypes] : s = NoSlots
    BY <1>3
  <2>2. /\ t \in BytellTables /\ t.hasher = h /\ t.slots = s /\ t.num_elements = n
        /\ bucket_count(t) = n
    BY <1>4, <2>1, TableMade
  <2> QED
    BY <1>1, <2>1, <2>2
<1> QED
  BY <1>3, <1>5, NothingHeld DEF Sized

\* clear ( ) leaves a sound table of the same size that holds nothing.
LEMMA ClearRight ==
  ASSUME NEW t, Sound(t), NEW u, u = clear(t)
  PROVE  Sound(u) /\ Same(t, u) /\ Held(u) = {} /\ Stored(u) = {}
<1>1. t \in BytellTables /\ Sized(t)
  BY DEF Sound, Filled
<1>2. PICK s : s = [i \in DOMAIN t.slots |-> empty_slot]
  OBVIOUS
<1>3. t = Table(t.hasher, t.slots, t.num_elements)
  BY <1>1, TableFields
<1>4. u = Table(t.hasher, s, 0)
  BY <1>2, <1>3 DEF clear, Table
<1>5. s \in [0 .. bucket_count(t) - 1 -> SlotTypes] /\ bucket_count(t) \in Nat
  BY <1>1, <1>2, TableFields, SlotFields
<1>6. /\ u \in BytellTables /\ u.hasher = t.hasher /\ u.slots = s /\ u.num_elements = 0
      /\ bucket_count(u) = bucket_count(t)
  <2>1. t.hasher \in [Keys -> 0 .. Words - 1] /\ 0 \in Nat
    BY <1>1, TableFields
  <2>2. PICK h \in [Keys -> 0 .. Words - 1], n \in Nat : h = t.hasher /\ n = bucket_count(t)
    BY <1>5, <2>1
  <2>3. s \in [0 .. n - 1 -> SlotTypes] /\ u = Table(h, s, 0)
    BY <1>4, <1>5, <2>2
  <2> QED
    BY <2>1, <2>2, <2>3, TableMade
<1>7. Same(t, u)
  BY <1>2, <1>6 DEF Same
<1> QED
  BY <1>1, <1>2, <1>6, <1>7, NothingHeld, SameSized

\* The slots are new ones, and the elements of the old ones are to be emplaced.
Fresh(r, t) ==
  /\ Sound(r.table) /\ r.table.hasher = t.hasher /\ Held(r.table) = {} /\ Stored(r.table) = {}
  /\ r.todo \in Seq(Elements) /\ Entries(r.todo) = Stored(t) /\ NoneTwice(r.todo)

\* No buckets are needed for no elements only.
LEMMA BucketsForReserve ==
  ASSUME NEW n \in Nat
  PROVE  num_buckets_for_reserve(n) \in Nat /\ (num_buckets_for_reserve(n) = 0 => n = 0)
BY DEF num_buckets_for_reserve

\* rehash ( ) does nothing, or makes an empty larger table and has all the elements
\* to be emplaced in it.
LEMMA RehashRight ==
  ASSUME NEW t \in BytellTables, Counted(t), KeysOnce(t), NEW n \in Nat, NEW r, r = rehash(t, n)
  PROVE  /\ r = Rest(t, <<>>) \/ Fresh(r, t)
         /\ n > bucket_count(t) => Fresh(r, t)
<1>1. PICK m : m = Max({n, num_buckets_for_reserve(t.num_elements)})
  OBVIOUS
<1>2. t.num_elements \in Nat /\ bucket_count(t) \in Nat /\ t.hasher \in [Keys -> 0 .. Words - 1]
  BY TableFields
<1>3. /\ m \in Nat /\ m >= n /\ num_buckets_for_reserve(t.num_elements) <= m
      /\ num_buckets_for_reserve(t.num_elements) \in Nat
  BY <1>1, <1>2, BucketsForReserve, MaxOfTwo
<1>4. \A u, w : Rest(u, w).table = u /\ Rest(u, w).todo = w
  BY DEF Rest
<1>5. CASE m = 0
  <2>1. t.num_elements = 0 /\ n = 0
    BY <1>2, <1>3, <1>5, BucketsForReserve
  <2>2. r = Rest(EmptyTable(t.hasher), <<>>)
    BY <1>1, <1>5 DEF rehash
  <2>3. Held(t) = {}
    BY <2>1, HeldFinite, FS_EmptySet DEF Counted
  <2>4. Stored(t) = {} /\ Entries(<<>>) = {} /\ NoneTwice(<<>>) /\ <<>> \in Seq(Elements)
    BY <2>3 DEF Stored, Entries, NoneTwice
  <2>5. PICK u : u = EmptyTable(t.hasher)
    OBVIOUS
  <2>6. Sound(u) /\ u.hasher = t.hasher /\ Held(u) = {} /\ Stored(u) = {}
    BY <1>2, <2>5, EmptyTableSound
  <2>7. r.table = u /\ r.todo = <<>>
    BY <1>4, <2>2, <2>5
  <2>8. Fresh(r, t)
    BY <2>4, <2>6, <2>7 DEF Fresh
  <2> QED
    BY <2>8
<1>6. CASE m # 0
  <2>1. PICK size : size = next_size_over(m)
    OBVIOUS
  <2>2. /\ size \in Nat \ {0} /\ size >= m /\ \E e \in 1 .. size : size = power(e)
    BY <1>3, <1>6, <2>1, SizeOver
  <2>3. CASE size = bucket_count(t)
    <3>1. r = Rest(t, <<>>)
      BY <1>1, <1>6, <2>1, <2>3 DEF rehash
    <3> QED
      BY <1>2, <1>3, <2>2, <2>3, <3>1
  <2>4. CASE size # bucket_count(t)
    <3>1. r = Rest(NewTable(t.hasher, size), items(t))
      BY <1>1, <1>6, <2>1, <2>4 DEF rehash
    <3>2. PICK s : s = [i \in 0 .. size - 1 |-> empty_slot]
      OBVIOUS
    <3>3. s \in [0 .. size - 1 -> SlotTypes]
      BY <3>2, SlotFields
    <3>4. PICK u : u = Table(t.hasher, s, 0)
      OBVIOUS
    <3>5. r.table = u /\ r.todo = items(t)
      BY <1>4, <3>1, <3>2, <3>4 DEF NewTable
    <3>6. /\ u \in BytellTables /\ u.hasher = t.hasher /\ u.slots = s /\ u.num_elements = 0
          /\ bucket_count(u) = size
      BY <1>2, <2>2, <3>3, <3>4, TableMade
    <3>7. Sized(u) /\ \A i \in DOMAIN u.slots : u.slots[i] = empty_slot
      BY <2>2, <3>2, <3>6 DEF Sized
    <3> QED
      BY <3>5, <3>6, <3>7, NothingHeld, ItemsHold DEF Fresh
  <2> QED
    BY <2>3, <2>4
<1> QED
  BY <1>5, <1>6

\* grow never finds that the table has the right size already.
LEMMA GrowRight ==
  ASSUME NEW t \in BytellTables, Counted(t), KeysOnce(t)
  PROVE  Fresh(grow(t), t)
<1>1. bucket_count(t) \in Nat /\ MinBuckets \in Nat \ {0} /\ 2 * bucket_count(t) \in Nat
  BY TableFields, TableAssumption
<1>2. PICK n : n = Max({MinBuckets, 2 * bucket_count(t)})
  OBVIOUS
<1>3. n \in Nat /\ n >= MinBuckets /\ n >= 2 * bucket_count(t)
  BY <1>1, <1>2, MaxOfTwo
<1>4. n > bucket_count(t)
  BY <1>1, <1>3
<1> QED
  BY <1>2, <1>3, <1>4, RehashRight DEF grow

(***************************************************************************)
(* Emplacement.                                                            *)
(***************************************************************************)
\* A free index is a jump to an empty slot.
LEMMA FreeRight ==
  ASSUME NEW t \in BytellTables, NEW i \in DOMAIN t.slots, NEW f, f = find_free_index(t, i), f # 0
  PROVE  /\ f \in Jumps /\ f \in {0} \union Jumps /\ jumpTo(t, i, f) \in Empty(t)
         /\ jumpTo(t, i, f) \in DOMAIN t.slots /\ jumpTo(t, i, f) \notin Held(t)
<1> DEFINE S == {j \in DOMAIN jump_distances : t.slots[jumpTo(t, i, j)].kind = "empty"}
<1>1. DOMAIN jump_distances = Jumps /\ S \in SUBSET Nat
  BY TableAssumption DEF Jumps
<1>2. f = IF S = {} THEN 0 ELSE Min(S)
  BY DEF find_free_index
<1> HIDE DEF S
<1>3. f \in S
  BY <1>1, <1>2, MinIsLeast
<1>4. f \in Jumps /\ t.slots[jumpTo(t, i, f)].kind = "empty"
  BY <1>1, <1>3 DEF S
<1>5. jumpTo(t, i, f) \in DOMAIN t.slots
  BY <1>4, JumpInRange
<1> QED
  BY <1>4, <1>5 DEF Empty, Held

\* A direct hit is placed.
LEMMA PlaceRight ==
  ASSUME NEW t, Filled(t), NEW d, Ranked(t, d, {}), ~ is_full(t),
         NEW e \in Elements, \A j \in Held(t) : KeyAt(t, j) # KeyOf(e),
         NEW h \in DOMAIN t.slots, h = index_for_hash(t, KeyOf(e)), h \notin Held(t),
         Reserved(t) \subseteq {h},
         NEW u, u = [set(t, h, Slot("direct", 0, e)) EXCEPT !.num_elements = @ + 1]
  PROVE  Sound(u) /\ Same(t, u) /\ Stored(u) = Stored(t) \union {e}
<1>1. t \in BytellTables /\ t.num_elements + 1 \in Nat
  BY TableFields DEF Filled
<1>2. PICK v : v = set(t, h, Slot("direct", 0, e))
  OBVIOUS
<1>3. Slot("direct", 0, e) \in SlotTypes
  BY SlotFields
<1>4. /\ v \in BytellTables /\ Same(t, v) /\ v.num_elements = t.num_elements
      /\ v.slots[h] = Slot("direct", 0, e)
      /\ \A j \in DOMAIN t.slots : j # h => v.slots[j] = t.slots[j]
  BY <1>1, <1>2, <1>3, SetFields DEF Same
<1>5. PICK f : Ranked(v, f, {})
  BY <1>1, <1>4, RankedDirect
<1>6. /\ u \in BytellTables /\ u.hasher = v.hasher /\ u.slots = v.slots
      /\ u.num_elements = t.num_elements + 1
  BY <1>1, <1>2, <1>4, CountFields
<1>7. Same(v, u) /\ Ranked(u, f, {})
  <2>1. u.hasher = v.hasher /\ u.slots = v.slots
    BY <1>6
  <2>2. Same(v, u) /\ \A g, loose : Ranked(v, g, loose) => Ranked(u, g, loose)
    BY ONLY <2>1, CountKeeps
  <2> QED
    BY <1>5, <2>2
<1>8. Same(t, u)
  BY <1>4, <1>7 DEF Same
<1>9. u.slots[h].kind = "direct" /\ u.slots[h].item = e
  BY <1>4, <1>6, SlotFields
<1>10. Held(u) = Held(t) \union {h} /\ Reserved(u) = {}
  BY <1>4, <1>6, <1>8, <1>9 DEF Held, Reserved, Same
<1>11. \A j \in Held(t) : u.slots[j].item = t.slots[j].item
  BY <1>1, <1>4, <1>6, FollowedHeld
<1>12. Filled(u) /\ Stored(u) = Stored(t) \union {e}
  <2>1. u.slots[h].item = e /\ Held(u) = Held(t) \union {h} /\ u \in BytellTables
    BY <1>6, <1>9, <1>10
  <2>2. u.num_elements = t.num_elements + 1
    BY <1>6
  <2>3. PICK i \in DOMAIN t.slots, w \in BytellTables : i = h /\ w = u
    BY <1>6
  <2>4. /\ Same(t, w) /\ i \notin Held(t) /\ Held(w) = Held(t) \union {i} /\ w.slots[i].item = e
        /\ \A j \in Held(t) : w.slots[j].item = t.slots[j].item
        /\ w.num_elements = t.num_elements + 1
    BY <1>8, <1>11, <2>1, <2>2, <2>3
  <2>5. Filled(w) /\ Stored(w) = Stored(t) \union {e}
    BY <2>4, ElementAdded
  <2> QED
    BY <2>3, <2>5
<1> QED
  BY <1>7, <1>8, <1>10, <1>12 DEF Sound

\* A list entry is placed behind the last element of its chain.
LEMMA AppendRight ==
  ASSUME NEW t, Sound(t), ~ is_full(t), NEW e \in Elements, \A j \in Held(t) : KeyAt(t, j) # KeyOf(e),
         NEW above \in Held(t), ~ has_next(t, above),
         find_direct_hit(t, above) = index_for_hash(t, KeyOf(e)),
         NEW jump \in Jumps, NEW i \in Empty(t), i = jumpTo(t, above, jump),
         NEW u, u = set_next([set(t, i, Slot("list", 0, e)) EXCEPT !.num_elements = @ + 1], above, jump)
  PROVE  Sound(u) /\ Same(t, u) /\ Stored(u) = Stored(t) \union {e}
<1>1. t \in BytellTables /\ t.num_elements + 1 \in Nat /\ Filled(t) /\ Reserved(t) = {}
  BY TableFields DEF Filled, Sound
<1>2. PICK d : Ranked(t, d, {})
  BY DEF Sound
<1>3. /\ above \in DOMAIN t.slots /\ i \in DOMAIN t.slots /\ i \notin Held(t) /\ i # above
      /\ t.slots[above].item \in Elements /\ t.slots[above].kind \in {"direct", "list"}
  BY <1>1, FollowedHeld DEF Held, Empty
<1>4. PICK v : v = set(t, i, Slot("list", 0, e))
  OBVIOUS
<1>5. Slot("list", 0, e) \in SlotTypes
  BY SlotFields
<1>6. /\ v \in BytellTables /\ Same(t, v) /\ v.num_elements = t.num_elements
      /\ v.slots[i] = Slot("list", 0, e)
      /\ \A j \in DOMAIN t.slots : j # i => v.slots[j] = t.slots[j]
  BY <1>1, <1>3, <1>4, <1>5, SetFields DEF Same
<1>7. PICK w : w = [v EXCEPT !.num_elements = @ + 1]
  OBVIOUS
<1>8. /\ w \in BytellTables /\ w.hasher = v.hasher /\ w.slots = v.slots
      /\ w.num_elements = t.num_elements + 1 /\ Same(v, w)
  BY <1>1, <1>6, <1>7, CountFields DEF Same
<1>9. above \in Held(w) /\ u = set_next(w, above, jump) /\ jump \in {0} \union Jumps
  BY <1>3, <1>4, <1>6, <1>7, <1>8 DEF Held, Same
<1>10. /\ u \in BytellTables /\ Same(t, u) /\ u.num_elements = t.num_elements + 1
       /\ u.slots[above] = Slot(t.slots[above].kind, jump, t.slots[above].item)
       /\ u.slots[i] = Slot("list", 0, e)
       /\ \A j \in DOMAIN t.slots : j # i /\ j # above => u.slots[j] = t.slots[j]
  <2>1. /\ u \in BytellTables /\ u.hasher = w.hasher /\ u.num_elements = w.num_elements
        /\ DOMAIN u.slots = DOMAIN w.slots /\ bucket_count(u) = bucket_count(w)
        /\ u.slots[above] = Slot(w.slots[above].kind, jump, w.slots[above].item)
        /\ \A j \in DOMAIN w.slots : j # above => u.slots[j] = w.slots[j]
    BY ONLY <1>8, <1>9, SetNextFields
  <2>2. /\ w.slots[above] = t.slots[above] /\ w.slots[i] = Slot("list", 0, e)
        /\ DOMAIN w.slots = DOMAIN t.slots /\ bucket_count(w) = bucket_count(t) /\ w.hasher = t.hasher
        /\ \A j \in DOMAIN t.slots : j # i => w.slots[j] = t.slots[j]
    BY <1>3, <1>6, <1>8 DEF Same
  <2> QED
    BY <1>3, <1>8, <2>1, <2>2 DEF Same
<1>11. Ranked(u, [d EXCEPT ![i] = d[above] + 1], {})
  BY <1>1, <1>2, <1>3, <1>10, RankedAppend
<1>12. /\ u.slots[i].kind = "list" /\ u.slots[i].item = e
       /\ u.slots[above].kind = t.slots[above].kind /\ u.slots[above].item = t.slots[above].item
  BY <1>10, SlotFields
<1>13. Held(u) = Held(t) \union {i} /\ Reserved(u) = {}
  BY <1>1, <1>3, <1>10, <1>12 DEF Held, Reserved, Same
<1>14. \A j \in Held(t) : u.slots[j].item = t.slots[j].item
  BY <1>1, <1>3, <1>10, <1>12, FollowedHeld
<1>15. Filled(u) /\ Stored(u) = Stored(t) \union {e}
  BY <1>1, <1>3, <1>10, <1>12, <1>13, <1>14, ElementAdded
<1> QED
  BY <1>10, <1>11, <1>13, <1>15 DEF Sound

\* m moves a chain out of the way of e: it is loose, no jump leads there but the
\* old one of its new parent, and only the home of e is cleared.
ChainMoves(t, m, e) ==
  /\ m.it \in Listed(t) /\ m.parent \in Held(t) \ {m.it}
  /\ find_direct_hit(t, m.parent) = find_direct_hit(t, m.it)
  /\ find_direct_hit(t, m.it) # index_for_hash(t, KeyOf(e))
  /\ has_next(t, m.parent) => next(t, m.parent) = m.it
  /\ \E d : Ranked(set_next(t, m.parent, 0), d, {m.it}) /\ d[m.it] = d[m.parent] + 1
  /\ m.free \in Jumps /\ jumpTo(t, m.parent, m.free) \in Empty(t)
  /\ index_for_hash(t, KeyOf(e)) \in DOMAIN t.slots
  /\ Reserved(t) = {index_for_hash(t, KeyOf(e))} \ {m.it}
  /\ ~ is_full(t) /\ \A j \in Held(t) : KeyAt(t, j) # KeyOf(e)

\* The table without the jump that the new parent still has.
LEMMA OpenedFields ==
  ASSUME NEW t \in BytellTables, NEW above \in Held(t), NEW v, v = set_next(t, above, 0)
  PROVE  /\ v \in BytellTables /\ Same(t, v) /\ above \in Held(v) /\ ~ has_next(v, above)
         /\ v.slots[above] = Slot(t.slots[above].kind, 0, t.slots[above].item)
         /\ v.slots[above].kind = t.slots[above].kind /\ v.slots[above].item = t.slots[above].item
         /\ \A j \in DOMAIN t.slots : j # above => v.slots[j] = t.slots[j]
         /\ Held(v) = Held(t) /\ Listed(v) = Listed(t) /\ Direct(v) = Direct(t)
         /\ \A j \in DOMAIN t.slots : find_direct_hit(v, j) = find_direct_hit(t, j)
         /\ \A j \in DOMAIN t.slots : j # above => /\ has_next(v, j) <=> has_next(t, j)
                                                   /\ next(v, j) = next(t, j)
<1>1. above \in DOMAIN t.slots
  BY FollowedHeld
<1>2. /\ v \in BytellTables /\ Same(t, v)
      /\ v.slots[above] = Slot(t.slots[above].kind, 0, t.slots[above].item)
      /\ \A j \in DOMAIN t.slots : j # above => v.slots[j] = t.slots[j]
  BY SetNextFields DEF Same
<1>3. /\ v.slots[above].kind = t.slots[above].kind /\ v.slots[above].item = t.slots[above].item
      /\ v.slots[above].jump = 0
  BY <1>2, SlotFields
<1>4. \A j \in DOMAIN t.slots : /\ v.slots[j].kind = t.slots[j].kind
                                /\ v.slots[j].item = t.slots[j].item
  BY <1>2, <1>3
<1>5. Held(v) = Held(t) /\ Listed(v) = Listed(t) /\ Direct(v) = Direct(t)
  BY <1>2, <1>4 DEF Held, Listed, Direct, Same
<1>6. \A j \in DOMAIN t.slots : find_direct_hit(v, j) = find_direct_hit(t, j)
  BY <1>2, <1>4, SameShape DEF find_direct_hit
<1>7. \A j \in DOMAIN t.slots : j # above => /\ has_next(v, j) <=> has_next(t, j)
                                             /\ next(v, j) = next(t, j)
  BY <1>2, SameShape DEF has_next, next
<1> QED
  BY <1>1, <1>2, <1>3, <1>5, <1>6, <1>7 DEF has_next

\* An element of the chain is moved, and what comes after it is the loose part.
LEMMA MoveRight ==
  ASSUME NEW t, Filled(t), NEW m, NEW e \in Elements, ChainMoves(t, m, e),
         NEW u \in BytellTables, Same(t, u), u.num_elements = t.num_elements,
         NEW to, to = jumpTo(t, m.parent, m.free),
         u.slots[m.parent] = Slot(t.slots[m.parent].kind, m.free, t.slots[m.parent].item),
         u.slots[to] = Slot("list", 0, t.slots[m.it].item),
         u.slots[m.it] \in {empty_slot, reserved_slot},
         \A j \in DOMAIN t.slots : j # m.parent /\ j # to /\ j # m.it => u.slots[j] = t.slots[j]
  PROVE  /\ Filled(u) /\ Stored(u) = Stored(t) /\ ~ is_full(u)
         /\ Held(u) = (Held(t) \ {m.it}) \union {to} /\ to \notin Held(t)
         /\ \A j \in Held(u) : KeyAt(u, j) # KeyOf(e)
         /\ to \in Listed(u) /\ ~ has_next(u, to)
         /\ find_direct_hit(u, to) = find_direct_hit(t, m.it)
         /\ \E d : /\ Ranked(u, d, IF has_next(t, m.it) THEN {next(t, m.it)} ELSE {})
                   /\ has_next(t, m.it) =>
                        /\ next(t, m.it) \in Listed(u) \ {to}
                        /\ find_direct_hit(u, next(t, m.it)) = find_direct_hit(u, to)
                        /\ d[next(t, m.it)] = d[to] + 1
<1>1. t \in BytellTables
  BY DEF Filled
<1>2. PICK i, above, jump : i = m.it /\ above = m.parent /\ jump = m.free
  OBVIOUS
<1>3. /\ i \in Listed(t) /\ above \in Held(t) /\ above # i
      /\ find_direct_hit(t, above) = find_direct_hit(t, i)
      /\ jump \in Jumps /\ to \in Empty(t) /\ to = jumpTo(t, above, jump)
      /\ ~ is_full(t) /\ \A j \in Held(t) : KeyAt(t, j) # KeyOf(e)
  BY <1>2 DEF ChainMoves
<1>4. /\ i \in Held(t) /\ i \in DOMAIN t.slots /\ above \in DOMAIN t.slots /\ to \in DOMAIN t.slots
      /\ to \notin Held(t) /\ to # i /\ to # above /\ to \notin Listed(t)
      /\ t.slots[i].item \in Elements /\ t.slots[above].kind \in {"direct", "list"}
      /\ find_direct_hit(t, i) = index_for_hash(t, KeyOf(t.slots[i].item))
  BY <1>1, <1>3, FollowedHeld DEF Empty, Held, KeyAt
<1>5. /\ u.slots[above] = Slot(t.slots[above].kind, jump, t.slots[above].item)
      /\ u.slots[to] = Slot("list", 0, t.slots[i].item)
      /\ u.slots[i] \in {empty_slot, reserved_slot}
      /\ \A j \in DOMAIN t.slots : j # above /\ j # to /\ j # i => u.slots[j] = t.slots[j]
  BY <1>2
<1>6. /\ u.slots[above].kind = t.slots[above].kind /\ u.slots[above].item = t.slots[above].item
      /\ u.slots[to].kind = "list" /\ u.slots[to].item = t.slots[i].item /\ u.slots[to].jump = 0
      /\ u.slots[i].kind \in {"empty", "reserved"}
  BY <1>5, SlotFields
<1>7. Held(u) = (Held(t) \ {i}) \union {to}
  BY <1>4, <1>5, <1>6 DEF Held, Same
<1>8. Listed(u) = (Listed(t) \ {i}) \union {to}
  BY <1>4, <1>5, <1>6 DEF Listed, Same
<1>9. \A j \in Held(t) : j # i => u.slots[j].item = t.slots[j].item
  BY <1>1, <1>4, <1>5, <1>6, FollowedHeld
<1>10. Filled(u) /\ Stored(u) = Stored(t)
  BY <1>4, <1>6, <1>7, <1>9, ElementMoved
<1>11. ~ is_full(u)
  BY <1>3 DEF is_full, Same
<1>12. \A j \in Held(u) : KeyAt(u, j) # KeyOf(e)
  BY <1>3, <1>4, <1>6, <1>7, <1>9 DEF KeyAt
<1>13. ~ has_next(u, to) /\ find_direct_hit(u, to) = find_direct_hit(t, i)
  BY <1>4, <1>6, SameShape DEF has_next, find_direct_hit
<1>14. PICK v : v = set_next(t, above, 0)
  OBVIOUS
<1>15. PICK d : Ranked(v, d, {i}) /\ d[i] = d[above] + 1
  BY <1>2, <1>14 DEF ChainMoves
<1>16. /\ v \in BytellTables /\ Same(t, v) /\ above \in Held(v) /\ ~ has_next(v, above)
       /\ v.slots[above] = Slot(t.slots[above].kind, 0, t.slots[above].item)
       /\ v.slots[above].kind = t.slots[above].kind /\ v.slots[above].item = t.slots[above].item
       /\ \A j \in DOMAIN t.slots : j # above => v.slots[j] = t.slots[j]
       /\ Held(v) = Held(t) /\ Listed(v) = Listed(t)
       /\ \A j \in DOMAIN t.slots : find_direct_hit(v, j) = find_direct_hit(t, j)
       /\ has_next(v, i) <=> has_next(t, i)
       /\ next(v, i) = next(t, i)
  BY <1>1, <1>3, <1>4, <1>14, OpenedFields
\* The element is behind its new parent, and still where it was.
<1>17. PICK w : w = set(set_next(v, above, jump), to, Slot("list", 0, t.slots[i].item))
  OBVIOUS
<1>18. PICK f : f = [d EXCEPT ![to] = d[above] + 1]
  OBVIOUS
<1>19. /\ w \in BytellTables /\ Same(v, w)
       /\ w.slots[to] = Slot("list", 0, t.slots[i].item)
       /\ w.slots[above] = Slot(v.slots[above].kind, jump, v.slots[above].item)
       /\ \A j \in DOMAIN t.slots : j # to /\ j # above => w.slots[j] = v.slots[j]
  <2>1. PICK x : x = set_next(v, above, jump)
    OBVIOUS
  <2>2. /\ x \in BytellTables /\ Same(v, x) /\ DOMAIN x.slots = DOMAIN t.slots
        /\ x.slots[above] = Slot(v.slots[above].kind, jump, v.slots[above].item)
        /\ \A j \in DOMAIN t.slots : j # above => x.slots[j] = v.slots[j]
    <3>1. jump \in {0} \union Jumps /\ above \in Held(v) /\ v \in BytellTables
      BY <1>3, <1>16
    <3>2. /\ x \in BytellTables /\ x.hasher = v.hasher
          /\ DOMAIN x.slots = DOMAIN v.slots /\ bucket_count(x) = bucket_count(v)
          /\ x.slots[above] = Slot(v.slots[above].kind, jump, v.slots[above].item)
          /\ \A j \in DOMAIN v.slots : j # above => x.slots[j] = v.slots[j]
      BY <2>1, <3>1, SetNextFields
    <3> QED
      BY <1>16, <3>2 DEF Same
  <2>3. Slot("list", 0, t.slots[i].item) \in SlotTypes
    BY <1>4, SlotFields
  <2>4. /\ w \in BytellTables /\ Same(x, w)
        /\ w.slots[to] = Slot("list", 0, t.slots[i].item)
        /\ \A j \in DOMAIN t.slots : j # to => w.slots[j] = x.slots[j]
    BY <1>4, <1>17, <2>1, <2>2, <2>3, SetFields DEF Same
  <2> QED
    BY <1>4, <2>2, <2>4 DEF Same
<1>20. Ranked(w, f, {i})
  <2>1. jumpTo(v, above, jump) = to /\ index_for_hash(v, KeyOf(t.slots[i].item)) = find_direct_hit(v, above)
    BY <1>3, <1>4, <1>16, SameShape
  <2>2. to \in DOMAIN v.slots /\ to \notin Held(v) /\ to \notin {i}
    BY <1>4, <1>16 DEF Same
  <2>3. \A j \in DOMAIN v.slots : j # to /\ j # above => w.slots[j] = v.slots[j]
    BY <1>16, <1>19 DEF Same
  <2>4. /\ v \in BytellTables /\ w \in BytellTables /\ Same(v, w) /\ Ranked(v, d, {i})
        /\ above \in Held(v) /\ ~ has_next(v, above) /\ t.slots[i].item \in Elements
        /\ w.slots[to] = Slot("list", 0, t.slots[i].item)
        /\ w.slots[above] = Slot(v.slots[above].kind, jump, v.slots[above].item)
    BY <1>4, <1>15, <1>16, <1>19
  <2>5. Ranked(w, [d EXCEPT ![to] = d[above] + 1], {i})
    BY <1>3, <2>1, <2>2, <2>3, <2>4, RankedAppend
  <2> QED
    BY <1>18, <2>5
<1>21. /\ Same(w, u) /\ i \in Held(w) /\ (has_next(w, i) <=> has_next(t, i))
       /\ next(w, i) = next(t, i)
  <2>1. w.slots[i] = t.slots[i]
    BY <1>3, <1>4, <1>16, <1>19
  <2>2. Same(w, u) /\ Same(t, w)
    BY <1>16, <1>19 DEF Same
  <2>3. i \in Held(w)
    BY <1>4, <2>1, <2>2 DEF Held, Same
  <2>4. next(w, i) = next(t, i)
    BY <2>1, <2>2, SameShape DEF next
  <2> QED
    BY <2>1, <2>2, <2>3, <2>4 DEF has_next
<1>22. \A j \in DOMAIN w.slots : j # i => u.slots[j] = w.slots[j]
  BY <1>4, <1>5, <1>16, <1>19 DEF Same
<1>23. Ranked(u, f, ({i} \ {i}) \union (IF has_next(t, i) THEN {next(t, i)} ELSE {}))
  BY <1>5, <1>19, <1>20, <1>21, <1>22, RankedRemove
<1>24. Ranked(u, f, IF has_next(t, i) THEN {next(t, i)} ELSE {})
  BY <1>23
<1>25. ASSUME has_next(t, i)
       PROVE  /\ next(t, i) \in Listed(u) \ {to}
              /\ find_direct_hit(u, next(t, i)) = find_direct_hit(u, to)
              /\ f[next(t, i)] = f[to] + 1
  <2>1. PICK n : n = next(t, i)
    OBVIOUS
  <2>2. i \in Followed(v)
    BY <1>4, <1>16, <1>25 DEF Followed, Same
  <2>3. n \in Listed(v) \ {i} /\ find_direct_hit(v, n) = find_direct_hit(v, i) /\ d[n] = d[i] + 1
    BY <1>15, <1>16, <2>1, <2>2 DEF Ranked
  <2>4. n \in Listed(t) /\ n # i /\ n # to /\ n \in DOMAIN t.slots /\ n \in Held(t)
    BY <1>4, <1>16, <2>3 DEF Listed, Held
  <2>5. find_direct_hit(u, n) = find_direct_hit(t, n)
    BY <1>9, <2>4, SameShape DEF find_direct_hit
  <2>6. f[n] = d[n] /\ f[to] = d[i]
    <3>1. d \in [DOMAIN t.slots -> Nat]
      BY <1>15, <1>16 DEF Ranked, Same
    <3> QED
      BY <1>4, <1>15, <1>18, <2>4, <3>1
  <2> QED
    BY <1>4, <1>8, <1>13, <1>16, <2>1, <2>3, <2>4, <2>5, <2>6
<1>26. to \in Listed(u)
  BY <1>8
<1> QED
  BY <1>2, <1>4, <1>7, <1>10, <1>11, <1>12, <1>13, <1>24, <1>25, <1>26

(***************************************************************************)
(* The elements that are still to be emplaced.                             *)
(***************************************************************************)
Pairs(m) == {Item(k, m[k]) : k \in {l \in Keys : m[l] # None}}

\* What is in the table and what is to be emplaced in it are the pairs of the map,
\* each of them once.
Complete(t, w, m) ==
  Stored(t) \union Entries(w) = Pairs(m) /\ Stored(t) \intersect Entries(w) = {} /\ NoneTwice(w)

\* The one element that is to be emplaced has a key that is there.
AlreadyKnown(t, w, m) ==
  /\ Stored(t) = Pairs(m) /\ Len(w) = 1
  /\ \E i \in Held(t) : KeyAt(t, i) = KeyOf(Head(w))

Emplaces(t, w, moves, m) ==
  /\ Filled(t) /\ w \in Seq(Elements)
  /\ moves = StandsStill => Sound(t)
  /\ moves # StandsStill => w # <<>> /\ ChainMoves(t, moves, Head(w)) /\ Complete(t, w, m)
  /\ AlreadyKnown(t, w, m) \/ Complete(t, w, m)

\* The first one is emplaced.
LEMMA FirstPlaced ==
  ASSUME NEW t, NEW w \in Seq(Elements), w # <<>>, NEW m, Complete(t, w, m),
         NEW u, Stored(u) = Stored(t) \union {Head(w)}
  PROVE  Complete(u, Tail(w), m) /\ Tail(w) \in Seq(Elements)
<1>1. Extends(w, Tail(w), Head(w), Elements)
  BY PoppedFront
<1>2. /\ Tail(w) \in Seq(Elements) /\ Entries(w) = Entries(Tail(w)) \union {Head(w)}
      /\ NoneTwice(w) <=> NoneTwice(Tail(w)) /\ Head(w) \notin Entries(Tail(w))
  BY <1>1 DEF Extends
<1> QED
  BY <1>2 DEF Complete

\* All that was in the table comes before the rest.
LEMMA AllAgain ==
  ASSUME NEW t, NEW w \in Seq(Elements), NEW m, Complete(t, w, m),
         NEW u, Stored(u) = {}, NEW x \in Seq(Elements), Entries(x) = Stored(t), NoneTwice(x)
  PROVE  Complete(u, x \o w, m) /\ x \o w \in Seq(Elements)
<1>1. PICK p \in Nat, q \in Nat : p = Len(x) /\ q = Len(w)
  OBVIOUS
<1>2. PICK v : v = x \o w
  OBVIOUS
<1>3. /\ v \in Seq(Elements) /\ Len(v) = p + q
      /\ \A i \in 1 .. p : v[i] = x[i]
      /\ \A i \in 1 .. q : p + i \in 1 .. Len(v) /\ v[p + i] = w[i]
      /\ \A i \in 1 .. Len(v) : i \in 1 .. p \/ (i - p \in 1 .. q /\ v[i] = w[i - p])
  BY <1>1, <1>2
<1>4. Entries(v) = Entries(x) \union Entries(w)
  <2>1. ASSUME NEW y \in Entries(v) PROVE y \in Entries(x) \union Entries(w)
    <3>1. PICK i \in 1 .. Len(v) : y = v[i]
      BY DEF Entries
    <3>2. CASE i \in 1 .. p
      BY <1>1, <1>3, <3>1, <3>2 DEF Entries
    <3>3. CASE i - p \in 1 .. q /\ v[i] = w[i - p]
      BY <1>1, <3>1, <3>3 DEF Entries
    <3> QED
      BY <1>3, <3>1, <3>2, <3>3
  <2>2. ASSUME NEW y \in Entries(x) PROVE y \in Entries(v)
    <3>1. PICK i \in 1 .. p : y = x[i]
      BY <1>1 DEF Entries
    <3>2. i \in 1 .. Len(v) /\ y = v[i]
      BY <1>3, <3>1
    <3> QED
      BY <3>2 DEF Entries
  <2>3. ASSUME NEW y \in Entries(w) PROVE y \in Entries(v)
    <3>1. PICK i \in 1 .. q : y = w[i]
      BY <1>1 DEF Entries
    <3> QED
      BY <1>3, <3>1 DEF Entries
  <2> QED
    BY <2>1, <2>2, <2>3
<1>5. NoneTwice(v)
  <2>1. NoneTwice(w) /\ Entries(x) \intersect Entries(w) = {}
    BY DEF Complete
  <2>2. \A i \in 1 .. p, j \in 1 .. q : x[i] # w[j]
    BY <1>1, <2>1 DEF Entries
  <2> SUFFICES ASSUME NEW i \in 1 .. Len(v), NEW j \in 1 .. Len(v), i # j PROVE v[i] # v[j]
    BY DEF NoneTwice
  <2>3. CASE i \in 1 .. p /\ j \in 1 .. p
    BY <1>1, <1>3, <2>3 DEF NoneTwice
  <2>4. CASE i \in 1 .. p /\ j \notin 1 .. p
    BY <1>3, <2>2, <2>4
  <2>5. CASE i \notin 1 .. p /\ j \in 1 .. p
    BY <1>3, <2>2, <2>5
  <2>6. CASE i \notin 1 .. p /\ j \notin 1 .. p
    <3>1. /\ i - p \in 1 .. q /\ j - p \in 1 .. q /\ i - p # j - p
          /\ v[i] = w[i - p] /\ v[j] = w[j - p]
      BY <1>1, <1>3, <2>6
    <3> QED
      BY <1>1, <2>1, <3>1 DEF NoneTwice
  <2> QED
    BY <2>3, <2>4, <2>5, <2>6
<1> QED
  BY <1>2, <1>3, <1>4, <1>5 DEF Complete

\* The table has grown.
LEMMA GrownEmplaces ==
  ASSUME NEW t \in BytellTables, Counted(t), KeysOnce(t), NEW w \in Seq(Elements), w # <<>>, NEW m,
         Complete(t, w, m)
  PROVE  /\ Emplaces(grow(t).table, grow(t).todo \o w, StandsStill, m)
         /\ grow(t).table.hasher = t.hasher
<1>1. PICK r : r = grow(t) /\ Fresh(r, t)
  BY GrowRight
<1>2. Sound(r.table) /\ Filled(r.table) /\ r.table.hasher = t.hasher
  BY <1>1 DEF Fresh, Sound
<1>3. Complete(r.table, r.todo \o w, m) /\ r.todo \o w \in Seq(Elements)
  BY <1>1, AllAgain DEF Fresh
<1> QED
  BY <1>1, <1>2, <1>3 DEF Emplaces

\* What every step that emplaces relies on.
EmplacesNow == Emplaces(table, todo, moving, map)

\* The element that is emplaced next, and its key.
LEMMA FirstElement ==
  ASSUME EmplacesNow, todo # <<>>
  PROVE  item \in Elements /\ Tail(todo) \in Seq(Elements) /\ KeyOf(item) \in Keys
<1>1. todo \in Seq(Elements)
  BY DEF EmplacesNow, Emplaces
<1>2. item \in Elements /\ Tail(todo) \in Seq(Elements)
  BY <1>1 DEF item
<1> QED
  BY <1>2, ElementFields

\* A key is known when it is in the table.
LEMMA KnownWhenThere ==
  ASSUME EmplacesNow, Emplacing
  PROVE  isKnown <=> \E i \in Held(table) : KeyAt(table, i) = KeyOf(item)
<1>1. Sound(table) /\ todo # <<>>
  BY DEF EmplacesNow, Emplaces, Emplacing
<1>2. PICK d : Ranked(table, d, {})
  BY <1>1 DEF Sound
<1>3. table \in BytellTables /\ KeysOnce(table) /\ KeyOf(item) \in Keys
  BY <1>1, FirstElement DEF Sound, Filled
<1> QED
  BY <1>2, <1>3, FindRight DEF isKnown

\* A new key.
LEMMA NewKey ==
  ASSUME EmplacesNow, Emplacing, ~ isKnown
  PROVE  /\ \A i \in Held(table) : KeyAt(table, i) # KeyOf(item)
         /\ Complete(table, todo, map) /\ Sound(table) /\ Filled(table) /\ table \in BytellTables
         /\ todo \in Seq(Elements) /\ todo # <<>> /\ item \in Elements
         /\ ~ lacksRoom => /\ ~ is_full(table) /\ home \in DOMAIN table.slots
                           /\ home = index_for_hash(table, KeyOf(item))
                           /\ table.slots[home].kind # "empty" => free # 0
<1>1. /\ Sound(table) /\ Filled(table) /\ table \in BytellTables /\ todo \in Seq(Elements) /\ todo # <<>>
  BY DEF EmplacesNow, Emplaces, Emplacing, Sound, Filled
<1>2. item \in Elements /\ KeyOf(item) \in Keys
  BY <1>1, FirstElement
<1>3. \A i \in Held(table) : KeyAt(table, i) # KeyOf(item)
  BY KnownWhenThere
<1>4. Complete(table, todo, map)
  BY <1>3 DEF EmplacesNow, Emplaces, AlreadyKnown, item
<1>5. ASSUME ~ lacksRoom
      PROVE  /\ ~ is_full(table) /\ home \in DOMAIN table.slots
             /\ table.slots[home].kind # "empty" => free # 0
  <2>1. ~ is_full(table) /\ (table.slots[home].kind # "empty" => free # 0)
    BY <1>5 DEF lacksRoom
  <2>2. DOMAIN table.slots # {}
    <3>1. table.num_elements \in Nat /\ bucket_count(table) \in Nat /\ DOMAIN table.slots = 0 .. bucket_count(table) - 1
      BY <1>1, TableFields
    <3>2. bucket_count(table) > 0
      BY <2>1, <3>1 DEF is_full
    <3>3. 0 \in DOMAIN table.slots
      BY <3>1, <3>2
    <3> QED
      BY <3>3
  <2>3. home \in DOMAIN table.slots
    BY <1>1, <1>2, <2>2, IndexInRange DEF home
  <2> QED
    BY <2>1, <2>3
<1> QED
  BY <1>1, <1>2, <1>3, <1>4, <1>5 DEF home

\* An element whose key is there is dropped.
LEMMA KeyIsKnownKeeps ==
  ASSUME EmplacesNow, KeyIsKnown, UNCHANGED map
  PROVE  EmplacesNow' /\ table'.hasher = table.hasher
<1>1. /\ Emplacing /\ isKnown /\ todo' = Tail(todo) /\ table' = table /\ moving' = moving
      /\ map' = map /\ todo # <<>> /\ moving = StandsStill
  BY DEF KeyIsKnown, Emplacing
<1>2. PICK i \in Held(table) : KeyAt(table, i) = KeyOf(item)
  BY <1>1, KnownWhenThere
<1>3. todo \in Seq(Elements) /\ item \in Elements /\ Tail(todo) \in Seq(Elements) /\ Filled(table)
      /\ Sound(table)
  BY <1>1, FirstElement DEF EmplacesNow, Emplaces
<1>4. ~ Complete(table, todo, map)
  <2> SUFFICES ASSUME Complete(table, todo, map) PROVE FALSE
    OBVIOUS
  <2>1. 1 \in 1 .. Len(todo) /\ item = todo[1]
    BY <1>1, <1>3 DEF item
  <2>2. item \in Entries(todo) /\ table.slots[i].item \in Stored(table)
    BY <2>1 DEF Entries, Stored
  <2>3. item \in Pairs(map) /\ table.slots[i].item \in Pairs(map)
    BY <2>2 DEF Complete
  <2>4. item = table.slots[i].item
    <3>1. \A x, y \in Pairs(map) : KeyOf(x) = KeyOf(y) => x = y
      BY DEF Pairs, Item, KeyOf
    <3> QED
      BY <1>2, <2>3, <3>1 DEF KeyAt
  <2> QED
    BY <2>2, <2>4 DEF Complete
<1>5. Stored(table) = Pairs(map) /\ Len(todo) = 1
  BY <1>4 DEF EmplacesNow, Emplaces, AlreadyKnown
<1>6. PICK w : w = Tail(todo)
  OBVIOUS
<1>7. w \in Seq(Elements) /\ Len(w) = 0
  BY <1>3, <1>5, <1>6
<1>8. Complete(table, w, map)
  BY <1>5, <1>7 DEF Complete, Entries, NoneTwice
<1>9. Emplaces(table, w, moving, map)
  BY <1>1, <1>3, <1>7, <1>8 DEF Emplaces
<1> QED
  BY <1>1, <1>6, <1>9 DEF EmplacesNow

\* An element goes into its empty home.
LEMMA EmplaceDirectHitKeeps ==
  ASSUME EmplacesNow, EmplaceDirectHit, UNCHANGED map
  PROVE  EmplacesNow' /\ table'.hasher = table.hasher
<1>1. /\ Emplacing /\ ~ isKnown /\ ~ lacksRoom /\ table.slots[home].kind = "empty"
      /\ table' = place(table, home, "direct") /\ todo' = Tail(todo) /\ moving' = moving
      /\ map' = map /\ moving = StandsStill
  BY DEF EmplaceDirectHit, Emplacing
<1>2. /\ \A i \in Held(table) : KeyAt(table, i) # KeyOf(item)
      /\ Complete(table, todo, map) /\ Sound(table) /\ Filled(table)
      /\ todo \in Seq(Elements) /\ todo # <<>> /\ item \in Elements
      /\ ~ is_full(table) /\ home \in DOMAIN table.slots
      /\ home = index_for_hash(table, KeyOf(item))
  BY <1>1, NewKey
<1>3. PICK d : Ranked(table, d, {})
  BY <1>2 DEF Sound
<1>4. home \notin Held(table) /\ Reserved(table) \subseteq {home}
  BY <1>1, <1>2 DEF Held, Sound
<1>5. PICK u : u = table'
  OBVIOUS
<1>6. u = [set(table, home, Slot("direct", 0, item)) EXCEPT !.num_elements = @ + 1]
  BY <1>1, <1>5 DEF place
<1>7. Sound(u) /\ Same(table, u) /\ Stored(u) = Stored(table) \union {item}
  BY <1>2, <1>3, <1>4, <1>6, PlaceRight
<1>8. Complete(u, Tail(todo), map) /\ Tail(todo) \in Seq(Elements)
  BY <1>2, <1>7, FirstPlaced DEF item
<1>9. Emplaces(u, Tail(todo), moving, map)
  BY <1>1, <1>7, <1>8 DEF Emplaces, Sound
<1> QED
  BY <1>1, <1>5, <1>7, <1>9 DEF EmplacesNow, Same

\* An element goes to the end of the chain of its home.
LEMMA EmplaceNewKeyKeeps ==
  ASSUME EmplacesNow, EmplaceNewKey, UNCHANGED map
  PROVE  EmplacesNow' /\ table'.hasher = table.hasher
<1>1. /\ Emplacing /\ ~ isKnown /\ ~ lacksRoom /\ itsChain # <<>>
      /\ table' = set_next(place(table, jumpTo(table, parent_block, free), "list"), parent_block, free)
      /\ todo' = Tail(todo) /\ moving' = moving /\ map' = map /\ moving = StandsStill
  BY DEF EmplaceNewKey, Emplacing
<1>2. /\ \A i \in Held(table) : KeyAt(table, i) # KeyOf(item)
      /\ Complete(table, todo, map) /\ Sound(table) /\ Filled(table) /\ table \in BytellTables
      /\ todo \in Seq(Elements) /\ todo # <<>> /\ item \in Elements
      /\ ~ is_full(table) /\ home \in DOMAIN table.slots
      /\ home = index_for_hash(table, KeyOf(item))
      /\ table.slots[home].kind # "empty" => free # 0
  BY <1>1, NewKey
<1>3. table.slots[home].kind = "direct" /\ itsChain = chain(table, home)
  BY <1>1 DEF itsChain, chainOf, home
<1>4. PICK above : above = parent_block
  OBVIOUS
<1>5. home \in Held(table) /\ above = last(chain(table, home))
  BY <1>1, <1>2, <1>3, <1>4 DEF Held, parent_block
<1>6. PICK d : Ranked(table, d, {})
  BY <1>2 DEF Sound
<1>7. find_direct_hit(table, home) = home
  BY <1>2, <1>3, <1>6 DEF Ranked, Direct
<1>8. /\ above \in Held(table) /\ ~ has_next(table, above)
      /\ find_direct_hit(table, above) = index_for_hash(table, KeyOf(item))
  BY <1>2, <1>5, <1>6, <1>7, LastOfChain
<1>9. PICK jump : jump = free
  OBVIOUS
<1>10. above \in DOMAIN table.slots /\ jump = find_free_index(table, above) /\ jump # 0
  BY <1>2, <1>3, <1>4, <1>8, <1>9, FollowedHeld DEF free
<1>11. PICK i : i = jumpTo(table, above, jump)
  OBVIOUS
<1>12. jump \in Jumps /\ i \in Empty(table)
  BY <1>2, <1>10, <1>11, FreeRight
<1>13. PICK u : u = table'
  OBVIOUS
<1>14. u = set_next([set(table, i, Slot("list", 0, item)) EXCEPT !.num_elements = @ + 1], above, jump)
  BY <1>1, <1>4, <1>9, <1>11, <1>13 DEF place
<1>15. Sound(u) /\ Same(table, u) /\ Stored(u) = Stored(table) \union {item}
  BY <1>2, <1>8, <1>11, <1>12, <1>14, AppendRight
<1>16. Complete(u, Tail(todo), map) /\ Tail(todo) \in Seq(Elements)
  BY <1>2, <1>15, FirstPlaced DEF item
<1>17. Emplaces(u, Tail(todo), moving, map)
  BY <1>1, <1>15, <1>16 DEF Emplaces, Sound
<1> QED
  BY <1>1, <1>13, <1>15, <1>17 DEF EmplacesNow, Same

\* Growing puts the elements of the table in front of those to be emplaced.
LEMMA GrowKeeps ==
  ASSUME EmplacesNow, Grow, UNCHANGED map
  PROVE  EmplacesNow' /\ table'.hasher = table.hasher
<1>1. /\ Emplacing /\ ~ isKnown /\ map' = map
      /\ table' = grow(table).table /\ todo' = grow(table).todo \o todo /\ moving' = StandsStill
  BY DEF Grow, GrowFrom
<1>2. /\ Complete(table, todo, map) /\ Filled(table) /\ todo \in Seq(Elements) /\ todo # <<>>
  BY <1>1, NewKey
<1>3. /\ Emplaces(grow(table).table, grow(table).todo \o todo, StandsStill, map)
      /\ grow(table).table.hasher = table.hasher
  BY <1>2, GrownEmplaces DEF Filled
<1> QED
  BY <1>1, <1>3 DEF EmplacesNow

\* A home that is taken by another chain: the move of that chain begins.
LEMMA DisplaceKeeps ==
  ASSUME EmplacesNow, Displace, UNCHANGED map
  PROVE  EmplacesNow' /\ table'.hasher = table.hasher
<1>1. /\ Emplacing /\ ~ isKnown /\ ~ lacksRoom /\ itsChain = <<>>
      /\ table.slots[home].kind # "empty" /\ moving' = Move(home, parent_block, free)
      /\ table' = table /\ todo' = todo /\ map' = map
  BY DEF Displace
<1>2. /\ \A i \in Held(table) : KeyAt(table, i) # KeyOf(item)
      /\ Complete(table, todo, map) /\ Sound(table) /\ Filled(table) /\ table \in BytellTables
      /\ todo \in Seq(Elements) /\ todo # <<>> /\ item \in Elements
      /\ ~ is_full(table) /\ home \in DOMAIN table.slots
      /\ home = index_for_hash(table, KeyOf(item))
      /\ free # 0
  BY <1>1, NewKey
<1>3. PICK d : Ranked(table, d, {})
  BY <1>2 DEF Sound
<1>4. table.slots[home].kind # "direct"
  <2> SUFFICES ASSUME table.slots[home].kind = "direct" PROVE FALSE
    OBVIOUS
  <2>1. itsChain = chain(table, home) /\ home \in Held(table)
    BY <1>2 DEF itsChain, chainOf, home, Held
  <2>2. itsChain # <<>>
    BY <1>2, <1>3, <2>1, ChainWalks
  <2> QED
    BY <1>1, <2>2
<1>5. home \in Listed(table)
  BY <1>1, <1>2, <1>4, FollowedHeld DEF Listed, Direct, Empty, Sound
<1>6. PICK above : above = parent_block
  OBVIOUS
<1>7. above \in Followed(table) /\ next(table, above) = home
  BY <1>1, <1>2, <1>3, <1>5, <1>6, ParentRight DEF parent_block
<1>8. /\ above \in Held(table) /\ above \in DOMAIN table.slots
      /\ find_direct_hit(table, home) = find_direct_hit(table, above)
      /\ d[home] = d[above] + 1 /\ d[above] \in Nat
  BY <1>2, <1>3, <1>7, FollowedHeld DEF Ranked
<1>9. above # home
  BY <1>8
<1>10. find_direct_hit(table, home) # home
  <2>1. find_direct_hit(table, home) \in Direct(table)
    BY <1>2, <1>3, <1>5, ChainHasAll, FollowedHeld
  <2> QED
    BY <1>4, <2>1 DEF Direct
<1>11. PICK v : v = set_next(table, above, 0)
  OBVIOUS
<1>12. /\ v \in BytellTables /\ Same(table, v)
       /\ v.slots[above] = Slot(table.slots[above].kind, 0, table.slots[above].item)
       /\ \A j \in DOMAIN table.slots : j # above => v.slots[j] = table.slots[j]
  BY <1>2, <1>8, <1>11, OpenedFields
<1>13. Ranked(v, d, {home})
  <2>1. Ranked(v, d, {} \union {next(table, above)})
    BY <1>2, <1>3, <1>7, <1>12, RankedCut
  <2> QED
    BY <1>7, <2>1
<1>14. PICK jump : jump = free
  OBVIOUS
<1>15. jump \in Jumps /\ jumpTo(table, above, jump) \in Empty(table)
  BY <1>2, <1>6, <1>8, <1>14, FreeRight DEF free
<1>16. PICK m : m = Move(home, above, jump) /\ m.it = home /\ m.parent = above /\ m.free = jump
  <2>1. PICK m : m = Move(home, above, jump)
    OBVIOUS
  <2>2. m.it = home /\ m.parent = above /\ m.free = jump
    BY <2>1 DEF Move
  <2> QED
    BY <2>1, <2>2
<1>17. Reserved(table) = {home} \ {home}
  BY <1>2 DEF Sound
<1>18. ChainMoves(table, m, item)
  BY <1>2, <1>5, <1>7, <1>8, <1>9, <1>10, <1>11, <1>13, <1>15, <1>16, <1>17 DEF ChainMoves
<1>19. Emplaces(table, todo, m, map)
  BY <1>2, <1>18 DEF Emplaces, item
<1> QED
  BY <1>1, <1>6, <1>14, <1>16, <1>19 DEF EmplacesNow

\* The tables of a step that moves an element.
LEMMA MovedFields ==
  ASSUME EmplacesNow, moving # StandsStill
  PROVE  /\ table \in BytellTables /\ Filled(table) /\ ChainMoves(table, moving, item)
         /\ Complete(table, todo, map) /\ todo \in Seq(Elements) /\ todo # <<>> /\ item \in Elements
         /\ home = index_for_hash(table, KeyOf(item)) /\ home \in DOMAIN table.slots
         /\ moving.it \in DOMAIN table.slots /\ moveTo = jumpTo(table, moving.parent, moving.free)
         /\ moveTo \in Empty(table) /\ moveTo \in DOMAIN table.slots
         /\ moved \in BytellTables /\ Same(table, moved) /\ moved.num_elements = table.num_elements
         /\ moveTo # moving.it /\ moveTo # moving.parent /\ moving.it # moving.parent
         /\ moved.slots[moving.parent] =
              Slot(table.slots[moving.parent].kind, moving.free, table.slots[moving.parent].item)
         /\ moved.slots[moveTo] = Slot("list", 0, table.slots[moving.it].item)
         /\ \A j \in DOMAIN table.slots :
              j # moving.parent /\ j # moveTo => moved.slots[j] = table.slots[j]
<1>1. /\ Filled(table) /\ todo \in Seq(Elements) /\ todo # <<>> /\ table \in BytellTables
      /\ ChainMoves(table, moving, item) /\ Complete(table, todo, map)
  BY DEF EmplacesNow, Emplaces, Filled, item
<1>2. item \in Elements
  BY <1>1, FirstElement
<1>3. PICK i, above, jump : i = moving.it /\ above = moving.parent /\ jump = moving.free
  OBVIOUS
<1>4. /\ i \in Listed(table) /\ above \in Held(table) /\ above # i /\ jump \in Jumps
      /\ jumpTo(table, above, jump) \in Empty(table)
      /\ index_for_hash(table, KeyOf(item)) \in DOMAIN table.slots
  BY <1>1, <1>3 DEF ChainMoves
<1>5. PICK to : to = jumpTo(table, above, jump)
  OBVIOUS
<1>6. /\ i \in DOMAIN table.slots /\ to \in DOMAIN table.slots /\ to # i /\ to # above
      /\ i \in Held(table) /\ table.slots[i].item \in Elements /\ above \in DOMAIN table.slots
      /\ to \in Empty(table)
  BY <1>1, <1>4, <1>5, FollowedHeld DEF Empty
<1>7. PICK x : x = set_next(table, above, jump)
  OBVIOUS
<1>8. /\ x \in BytellTables /\ Same(table, x) /\ x.num_elements = table.num_elements
      /\ x.slots[above] = Slot(table.slots[above].kind, jump, table.slots[above].item)
      /\ \A j \in DOMAIN table.slots : j # above => x.slots[j] = table.slots[j]
  <2>1. jump \in {0} \union Jumps
    BY <1>4
  <2>2. /\ x \in BytellTables /\ x.hasher = table.hasher /\ x.num_elements = table.num_elements
        /\ DOMAIN x.slots = DOMAIN table.slots /\ bucket_count(x) = bucket_count(table)
        /\ x.slots[above] = Slot(table.slots[above].kind, jump, table.slots[above].item)
        /\ \A j \in DOMAIN table.slots : j # above => x.slots[j] = table.slots[j]
    BY <1>1, <1>4, <1>7, <2>1, SetNextFields
  <2> QED
    BY <2>2 DEF Same
<1>9. PICK s \in SlotTypes : s = Slot("list", 0, table.slots[i].item)
  BY <1>6, SlotFields
<1>10. PICK v : v = set(x, to, s)
  OBVIOUS
<1>11. /\ v \in BytellTables /\ Same(x, v) /\ v.num_elements = x.num_elements
       /\ v.slots[to] = s /\ \A j \in DOMAIN x.slots : j # to => v.slots[j] = x.slots[j]
  BY <1>6, <1>8, <1>10, SetFields DEF Same
<1>12. /\ Same(table, v) /\ v.num_elements = table.num_elements
       /\ v.slots[above] = Slot(table.slots[above].kind, jump, table.slots[above].item)
       /\ \A j \in DOMAIN table.slots : j # above /\ j # to => v.slots[j] = table.slots[j]
  BY <1>6, <1>8, <1>11 DEF Same
<1>13. moved = v /\ moveTo = to /\ home = index_for_hash(table, KeyOf(item))
  BY <1>3, <1>5, <1>7, <1>9, <1>10 DEF moved, moveTo, home
<1> QED
  BY <1>1, <1>2, <1>3, <1>4, <1>5, <1>6, <1>9, <1>11, <1>12, <1>13

\* The last of the chain is moved, and its home is free for the element.
LEMMA MoveLastKeeps ==
  ASSUME EmplacesNow, MoveLast, UNCHANGED map
  PROVE  EmplacesNow' /\ table'.hasher = table.hasher
<1>1. /\ moving # StandsStill /\ ~ has_next(table, moving.it) /\ map' = map
      /\ table' = place(set(moved, moving.it, empty_slot), home, "direct")
      /\ todo' = Tail(todo) /\ moving' = StandsStill
  BY DEF MoveLast
<1>2. PICK t, m, e, h, i, to : /\ t = table /\ m = moving /\ e = item /\ h = home /\ i = moving.it
                               /\ to = moveTo
  OBVIOUS
<1>3. /\ t \in BytellTables /\ Filled(t) /\ ChainMoves(t, m, e) /\ Complete(t, todo, map)
      /\ todo \in Seq(Elements) /\ todo # <<>> /\ e \in Elements /\ i = m.it
      /\ h = index_for_hash(t, KeyOf(e)) /\ h \in DOMAIN t.slots /\ i \in DOMAIN t.slots
      /\ to = jumpTo(t, m.parent, m.free) /\ to \in Empty(t)
      /\ moved \in BytellTables /\ Same(t, moved) /\ moved.num_elements = t.num_elements
      /\ to # i /\ to # m.parent /\ i # m.parent
      /\ moved.slots[m.parent] = Slot(t.slots[m.parent].kind, m.free, t.slots[m.parent].item)
      /\ moved.slots[to] = Slot("list", 0, t.slots[i].item)
      /\ \A j \in DOMAIN t.slots : j # m.parent /\ j # to => moved.slots[j] = t.slots[j]
  BY <1>1, <1>2, MovedFields
<1>4. PICK v : v = set(moved, i, empty_slot)
  OBVIOUS
<1>5. /\ v \in BytellTables /\ Same(t, v) /\ v.num_elements = t.num_elements
      /\ v.slots[i] = empty_slot
      /\ \A j \in DOMAIN t.slots : j # i => v.slots[j] = moved.slots[j]
  BY <1>3, <1>4, SetFields, SlotFields DEF Same
<1>6. m.parent \in DOMAIN t.slots /\ to \in DOMAIN t.slots
  BY <1>3, FollowedHeld DEF ChainMoves, Empty
<1>7. /\ v.slots[m.parent] = Slot(t.slots[m.parent].kind, m.free, t.slots[m.parent].item)
      /\ v.slots[to] = Slot("list", 0, t.slots[m.it].item)
      /\ v.slots[m.it] \in {empty_slot, reserved_slot}
      /\ \A j \in DOMAIN t.slots : j # m.parent /\ j # to /\ j # m.it => v.slots[j] = t.slots[j]
  BY <1>3, <1>5, <1>6
<1>8. /\ Filled(v) /\ Stored(v) = Stored(t) /\ ~ is_full(v)
      /\ Held(v) = (Held(t) \ {m.it}) \union {to}
      /\ \A j \in Held(v) : KeyAt(v, j) # KeyOf(e)
      /\ \E d : Ranked(v, d, {})
  <2>1. ~ has_next(t, m.it)
    BY <1>1, <1>2
  <2>2. /\ Filled(v) /\ Stored(v) = Stored(t) /\ ~ is_full(v)
        /\ Held(v) = (Held(t) \ {m.it}) \union {to}
        /\ \A j \in Held(v) : KeyAt(v, j) # KeyOf(e)
        /\ \E d : Ranked(v, d, IF has_next(t, m.it) THEN {next(t, m.it)} ELSE {})
    <3>1. /\ Filled(t) /\ e \in Elements /\ ChainMoves(t, m, e) /\ v \in BytellTables /\ Same(t, v)
          /\ v.num_elements = t.num_elements /\ to = jumpTo(t, m.parent, m.free)
      BY <1>3, <1>5
    <3> QED
      BY <1>7, <3>1, MoveRight
  <2> QED
    BY <2>1, <2>2
<1>9. PICK d : Ranked(v, d, {})
  BY <1>8
<1>10. h = i \/ h \in Reserved(t)
  BY <1>3 DEF ChainMoves
<1>11. h \notin Held(v) /\ Reserved(v) \subseteq {h}
  <2>1. h # to
    BY <1>3, <1>10 DEF Reserved, Empty
  <2>2. h = i \/ h \notin Held(t)
    BY <1>10 DEF Reserved, Held
  <2>3. Reserved(t) \subseteq {h}
    BY <1>3 DEF ChainMoves
  <2>4. \A j \in Reserved(v) : j \in Reserved(t)
    <3> SUFFICES ASSUME NEW j \in Reserved(v) PROVE j \in Reserved(t)
      OBVIOUS
    <3>1. j \in DOMAIN t.slots /\ v.slots[j].kind = "reserved"
      BY <1>5 DEF Reserved, Same
    <3>2. j # i /\ j # to
      BY <1>5, <1>7, <3>1, SlotFields
    <3>3. j # m.parent
      <4>1. m.parent \in Held(t)
        BY <1>3 DEF ChainMoves
      <4> QED
        BY <1>7, <3>1, <4>1, SlotFields DEF Held
    <3> QED
      BY <1>3, <1>7, <3>1, <3>2, <3>3 DEF Reserved
  <2> QED
    BY <1>3, <1>8, <2>1, <2>2, <2>3, <2>4
<1>12. PICK u : u = table'
  OBVIOUS
<1>13. u = [set(v, h, Slot("direct", 0, e)) EXCEPT !.num_elements = @ + 1]
  BY <1>1, <1>2, <1>4, <1>12 DEF place
<1>14. h \in DOMAIN v.slots /\ h = index_for_hash(v, KeyOf(e))
  BY <1>3, <1>5, SameShape DEF Same
<1>15. Sound(u) /\ Same(v, u) /\ Stored(u) = Stored(v) \union {e}
  BY <1>3, <1>8, <1>9, <1>11, <1>13, <1>14, PlaceRight
<1>16. Complete(u, Tail(todo), map) /\ Tail(todo) \in Seq(Elements)
  BY <1>2, <1>3, <1>8, <1>15, FirstPlaced DEF item
<1>17. Emplaces(u, Tail(todo), StandsStill, map)
  BY <1>15, <1>16 DEF Emplaces, Sound
<1>18. u.hasher = t.hasher
  BY <1>5, <1>15 DEF Same
<1> QED
  BY <1>1, <1>2, <1>12, <1>17, <1>18 DEF EmplacesNow

\* What vacated is, whether there is a free slot for the next element or not.
LEMMA VacatedFields ==
  ASSUME EmplacesNow, moving # StandsStill, has_next(table, moving.it)
  PROVE  /\ Filled(vacated) /\ Stored(vacated) = Stored(table) /\ Same(table, vacated)
         /\ moveTo \in DOMAIN vacated.slots
         /\ onward # 0 => ChainMoves(vacated, Move(next(table, moving.it), moveTo, onward), item)
<1>1. PICK t, m, e, h, i, to : /\ t = table /\ m = moving /\ e = item /\ h = home /\ i = moving.it
                               /\ to = moveTo
  OBVIOUS
<1>2. /\ t \in BytellTables /\ Filled(t) /\ ChainMoves(t, m, e) /\ e \in Elements /\ i = m.it
      /\ h = index_for_hash(t, KeyOf(e)) /\ h \in DOMAIN t.slots /\ i \in DOMAIN t.slots
      /\ to = jumpTo(t, m.parent, m.free) /\ to \in Empty(t) /\ to \in DOMAIN t.slots
      /\ moved \in BytellTables /\ Same(t, moved) /\ moved.num_elements = t.num_elements
      /\ to # i /\ to # m.parent /\ i # m.parent
      /\ moved.slots[m.parent] = Slot(t.slots[m.parent].kind, m.free, t.slots[m.parent].item)
      /\ moved.slots[to] = Slot("list", 0, t.slots[i].item)
      /\ \A j \in DOMAIN t.slots : j # m.parent /\ j # to => moved.slots[j] = t.slots[j]
  BY <1>1, MovedFields
<1>3. PICK v : v = set(moved, i, empty_slot)
  OBVIOUS
<1>4. /\ v \in BytellTables /\ Same(t, v) /\ v.num_elements = t.num_elements
      /\ v.slots[i] = empty_slot
      /\ \A j \in DOMAIN t.slots : j # i => v.slots[j] = moved.slots[j]
  BY <1>2, <1>3, SetFields, SlotFields DEF Same
<1>5. PICK u : u = set(v, h, reserved_slot)
  OBVIOUS
<1>6. u = vacated
  BY <1>1, <1>3, <1>5 DEF vacated, vacate
<1>7. /\ u \in BytellTables /\ Same(t, u) /\ u.num_elements = t.num_elements
      /\ u.slots[h] = reserved_slot
      /\ \A j \in DOMAIN t.slots : j # h => u.slots[j] = v.slots[j]
  BY <1>2, <1>4, <1>5, SetFields, SlotFields DEF Same
<1>8. h = i \/ h \in Reserved(t)
  BY <1>2 DEF ChainMoves
<1>9. m.parent \in Held(t) /\ m.parent \in DOMAIN t.slots /\ i \in Listed(t) /\ i \in Held(t)
  BY <1>2, FollowedHeld DEF ChainMoves
<1>10. h # to /\ h # m.parent
  BY <1>2, <1>8, <1>9 DEF Reserved, Empty, Held
<1>11. h \in Reserved(t) => t.slots[h] = reserved_slot
  BY <1>2, TableFields, SlotFields DEF Reserved
<1>12. /\ u.slots[m.parent] = Slot(t.slots[m.parent].kind, m.free, t.slots[m.parent].item)
       /\ u.slots[to] = Slot("list", 0, t.slots[m.it].item)
       /\ u.slots[m.it] \in {empty_slot, reserved_slot}
       /\ \A j \in DOMAIN t.slots : j # m.parent /\ j # to /\ j # m.it => u.slots[j] = t.slots[j]
  <2>1. u.slots[m.it] \in {empty_slot, reserved_slot}
    BY <1>2, <1>4, <1>7
  <2>2. ASSUME NEW j \in DOMAIN t.slots, j # m.parent, j # to, j # m.it PROVE u.slots[j] = t.slots[j]
    BY <1>2, <1>4, <1>7, <1>8, <1>11, <2>2
  <2> QED
    BY <1>2, <1>4, <1>7, <1>9, <1>10, <2>1, <2>2
<1>13. has_next(t, m.it)
  BY <1>1
<1>14. PICK n : n = next(t, m.it)
  OBVIOUS
<1>15. /\ Filled(u) /\ Stored(u) = Stored(t) /\ ~ is_full(u)
       /\ Held(u) = (Held(t) \ {m.it}) \union {to}
       /\ \A j \in Held(u) : KeyAt(u, j) # KeyOf(e)
       /\ to \in Listed(u) /\ ~ has_next(u, to)
       /\ find_direct_hit(u, to) = find_direct_hit(t, m.it)
       /\ \E d : /\ Ranked(u, d, IF has_next(t, m.it) THEN {next(t, m.it)} ELSE {})
                 /\ has_next(t, m.it) =>
                      /\ next(t, m.it) \in Listed(u) \ {to}
                      /\ find_direct_hit(u, next(t, m.it)) = find_direct_hit(u, to)
                      /\ d[next(t, m.it)] = d[to] + 1
  BY <1>2, <1>7, <1>12, MoveRight
<1>16. PICK d : /\ Ranked(u, d, {n}) /\ n \in Listed(u) \ {to}
                /\ find_direct_hit(u, n) = find_direct_hit(u, to) /\ d[n] = d[to] + 1
  BY <1>13, <1>14, <1>15
<1>17. find_direct_hit(u, n) # index_for_hash(u, KeyOf(e)) /\ h = index_for_hash(u, KeyOf(e))
  BY <1>2, <1>7, <1>15, <1>16, SameShape DEF ChainMoves
<1>18. Reserved(u) = {h} \ {n}
  <2>1. n # h
    BY <1>7, <1>16, SlotFields DEF Listed
  <2>2. h \in Reserved(u)
    BY <1>2, <1>7, SlotFields DEF Reserved, Same
  <2>3. ASSUME NEW j \in Reserved(u), j # h PROVE FALSE
    <3>1. j \in DOMAIN t.slots /\ u.slots[j].kind = "reserved"
      BY <1>7 DEF Reserved, Same
    <3>2. j # m.it
      BY <1>2, <1>4, <1>7, <2>3, <3>1, SlotFields
    <3>3. j # to /\ j # m.parent
      BY <1>9, <1>12, <3>1, SlotFields DEF Held
    <3>4. j \in Reserved(t)
      BY <1>12, <3>1, <3>2, <3>3 DEF Reserved
    <3> QED
      BY <1>2, <2>3, <3>4 DEF ChainMoves
  <2> QED
    BY <2>1, <2>2, <2>3
<1>19. Ranked(set_next(u, to, 0), d, {n})
  <2>1. PICK w : w = set_next(u, to, 0)
    OBVIOUS
  <2>2. to \in Held(u) /\ to \in DOMAIN u.slots /\ u.slots[to].jump = 0
    BY <1>7, <1>15, FollowedHeld DEF has_next
  <2>3. /\ w.hasher = u.hasher /\ DOMAIN w.slots = DOMAIN u.slots /\ w \in BytellTables
        /\ w.slots[to] = Slot(u.slots[to].kind, 0, u.slots[to].item)
        /\ \A j \in DOMAIN u.slots : j # to => w.slots[j] = u.slots[j]
    BY <1>7, <2>1, <2>2, SetNextFields
  <2>4. u.slots[to] = Slot(u.slots[to].kind, u.slots[to].jump, u.slots[to].item)
    BY <1>7, <2>2, TableFields, SlotFields DEF Held
  <2>5. \A j \in DOMAIN u.slots : w.slots[j] = u.slots[j]
    BY <2>2, <2>3, <2>4
  <2>6. w.slots = u.slots
    <3>1. PICK a \in Nat : u.slots \in [0 .. a - 1 -> SlotTypes]
      BY <1>7 DEF BytellTables
    <3>2. PICK b \in Nat : w.slots \in [0 .. b - 1 -> SlotTypes]
      BY <2>3 DEF BytellTables
    <3> QED
      BY <2>3, <2>5, <3>1, <3>2
  <2>7. Ranked(w, d, {n})
    BY <1>16, <2>3, <2>6, CountKeeps
  <2> QED
    BY <2>1, <2>7
<1>20. onward = find_free_index(u, to)
  BY <1>1, <1>6 DEF onward
<1>21. PICK f : f = onward
  OBVIOUS
<1>22. to \in DOMAIN u.slots /\ to \in Held(u)
  BY <1>7, <1>15, FollowedHeld
<1>23. ASSUME f # 0 PROVE ChainMoves(u, Move(n, to, f), e)
  <2>1. f \in Jumps /\ jumpTo(u, to, f) \in Empty(u)
    BY <1>7, <1>20, <1>21, <1>22, <1>23, FreeRight
  <2>2. PICK x : x = Move(n, to, f)
    OBVIOUS
  <2>3. x.it = n /\ x.parent = to /\ x.free = f
    BY <2>2 DEF Move
  <2>4. h \in DOMAIN u.slots
    BY <1>2, <1>7 DEF Same
  <2>5. ChainMoves(u, x, e)
    BY <1>15, <1>16, <1>17, <1>18, <1>19, <1>22, <2>1, <2>3, <2>4 DEF ChainMoves
  <2> QED
    BY <2>2, <2>5
<1> QED
  BY <1>1, <1>6, <1>7, <1>14, <1>15, <1>21, <1>22, <1>23

\* One slot of the chain is moved, and its old place is reserved or free.
LEMMA MoveOneKeeps ==
  ASSUME EmplacesNow, MoveOne, UNCHANGED map
  PROVE  EmplacesNow' /\ table'.hasher = table.hasher
<1>1. /\ moving # StandsStill /\ has_next(table, moving.it) /\ onward # 0 /\ map' = map
      /\ table' = vacated /\ moving' = Move(next(table, moving.it), moveTo, onward) /\ todo' = todo
  BY DEF MoveOne
<1>2. PICK u, m : u = vacated /\ m = Move(next(table, moving.it), moveTo, onward)
  OBVIOUS
<1>3. Filled(u) /\ Stored(u) = Stored(table) /\ Same(table, u) /\ ChainMoves(u, m, item)
  BY <1>1, <1>2, VacatedFields
<1>4. Complete(table, todo, map) /\ todo \in Seq(Elements) /\ todo # <<>>
  BY <1>1, MovedFields
<1>5. Complete(u, todo, map)
  BY <1>3, <1>4 DEF Complete
<1>6. m # StandsStill
  <2>1. DOMAIN m = {"it", "parent", "free"} /\ DOMAIN StandsStill = {}
    BY <1>2 DEF Move, StandsStill
  <2> QED
    BY <2>1
<1>7. Emplaces(u, todo, m, map)
  BY <1>3, <1>4, <1>5, <1>6 DEF Emplaces, item
<1> QED
  BY <1>1, <1>2, <1>3, <1>7 DEF EmplacesNow, Same

\* No slot is left for the rest of the chain: the table grows out of the half-moved
\* chain, with all its elements.
LEMMA MoveStuckKeeps ==
  ASSUME EmplacesNow, MoveStuck, UNCHANGED map
  PROVE  EmplacesNow' /\ table'.hasher = table.hasher
<1>1. /\ moving # StandsStill /\ has_next(table, moving.it) /\ map' = map
      /\ table' = grow(vacated).table /\ todo' = grow(vacated).todo \o todo /\ moving' = StandsStill
  BY DEF MoveStuck, GrowFrom
<1>2. PICK u : u = vacated
  OBVIOUS
<1>3. Filled(u) /\ Stored(u) = Stored(table) /\ Same(table, u)
  BY <1>1, <1>2, VacatedFields
<1>4. Complete(table, todo, map) /\ todo \in Seq(Elements) /\ todo # <<>>
  BY <1>1, MovedFields
<1>5. Complete(u, todo, map) /\ u \in BytellTables /\ Counted(u) /\ KeysOnce(u)
  BY <1>3, <1>4 DEF Complete, Filled
<1>6. /\ Emplaces(grow(u).table, grow(u).todo \o todo, StandsStill, map)
      /\ grow(u).table.hasher = u.hasher
  BY <1>4, <1>5, GrownEmplaces
<1> QED
  BY <1>1, <1>2, <1>3, <1>6 DEF EmplacesNow, Same

\* Every step of emplace keeps what it relies on.
LEMMA EmplaceKeeps ==
  ASSUME EmplacesNow, EmplaceStep, UNCHANGED map
  PROVE  EmplacesNow' /\ table'.hasher = table.hasher
BY KeyIsKnownKeeps, EmplaceDirectHitKeeps, EmplaceNewKeyKeeps, GrowKeeps, DisplaceKeeps,
   MoveLastKeeps, MoveOneKeeps, MoveStuckKeeps DEF EmplaceStep

(***************************************************************************)
(* The client: the table next to the map that it stands for.               *)
(***************************************************************************)
\* Some elements are to be erased: what will be left are the pairs of the map.
Shrinks(t, slots, m) ==
  slots \subseteq Held(t) /\ {t.slots[i].item : i \in Held(t) \ slots} = Pairs(m)

\* A loop that is at i erases the elements with these keys; it has none behind it.
Sweeps(t, i, keys, m) ==
  /\ i \in Held(t) /\ {x \in Stored(t) : KeyOf(x) \notin keys} = Pairs(m)
  /\ \A j \in Held(t) : KeyAt(t, j) \in keys => j <= i

\* A copy has the pairs of its original.
CopyKept ==
  original = NoTable \/ (/\ Sound(original) /\ original.hasher = table.hasher
                         /\ Stored(original) = Pairs(map) /\ doomed = {} /\ it = End)

TableInv ==
  /\ map \in [Keys -> Values \union {None}]
  /\ doomed = {} /\ it = End => EmplacesNow
  /\ doomed # {} \/ it # End => todo = <<>> /\ moving = StandsStill /\ Sound(table)
  /\ doomed # {} => it = End /\ Shrinks(table, doomed, map)
  /\ it # End => doomed = {} /\ Sweeps(table, it, unwanted, map)
  /\ CopyKept

\* The pairs of a map.
LEMMA PairsFields ==
  ASSUME NEW m
  PROVE  /\ \A x \in Pairs(m) : KeyOf(x) \in Keys /\ m[KeyOf(x)] # None /\ x = Item(KeyOf(x), m[KeyOf(x)])
         /\ \A k \in Keys : m[k] # None => Item(k, m[k]) \in Pairs(m)
         /\ \A k, v : KeyOf(Item(k, v)) = k
         /\ \A x, y \in Pairs(m) : KeyOf(x) = KeyOf(y) => x = y
<1>1. \A k, v : KeyOf(Item(k, v)) = k
  BY DEF KeyOf, Item
<1>2. \A x \in Pairs(m) : KeyOf(x) \in Keys /\ m[KeyOf(x)] # None /\ x = Item(KeyOf(x), m[KeyOf(x)])
  BY <1>1 DEF Pairs
<1>3. \A k \in Keys : m[k] # None => Item(k, m[k]) \in Pairs(m)
  BY DEF Pairs
<1> QED
  BY <1>1, <1>2, <1>3

\* The pairs of a map without some of its keys.
LEMMA PairsWithout ==
  ASSUME NEW m, NEW gone
  PROVE  Pairs(Without(m, gone)) = {x \in Pairs(m) : KeyOf(x) \notin gone}
<1>1. PICK w : w = Without(m, gone)
  OBVIOUS
<1>2. \A k \in Keys : w[k] = IF k \in gone THEN None ELSE m[k]
  BY <1>1 DEF Without
<1>3. ASSUME NEW x \in Pairs(w) PROVE x \in Pairs(m) /\ KeyOf(x) \notin gone
  BY <1>2, PairsFields
<1>4. ASSUME NEW x \in Pairs(m), KeyOf(x) \notin gone PROVE x \in Pairs(w)
  <2>1. KeyOf(x) \in Keys /\ m[KeyOf(x)] # None /\ x = Item(KeyOf(x), m[KeyOf(x)])
    BY PairsFields
  <2>2. w[KeyOf(x)] = m[KeyOf(x)]
    BY <1>2, <1>4, <2>1
  <2>3. Item(KeyOf(x), w[KeyOf(x)]) \in Pairs(w)
    BY <2>1, <2>2, PairsFields
  <2> QED
    BY <2>1, <2>2, <2>3
<1> QED
  BY <1>1, <1>3, <1>4

\* The pairs of a map with a key written.
LEMMA PairsWith ==
  ASSUME NEW m \in [Keys -> Values \union {None}], NEW k \in Keys, NEW v \in Values
  PROVE  Pairs([m EXCEPT ![k] = v]) = {x \in Pairs(m) : KeyOf(x) # k} \union {Item(k, v)}
<1>1. PICK w : w = [m EXCEPT ![k] = v]
  OBVIOUS
<1>2. w[k] = v /\ v # None /\ \A l \in Keys : l # k => w[l] = m[l]
  BY <1>1, ClientAssumption DEF None
<1>3. ASSUME NEW x \in Pairs(w)
      PROVE  x = Item(k, v) \/ (x \in Pairs(m) /\ KeyOf(x) # k)
  <2>1. KeyOf(x) \in Keys /\ w[KeyOf(x)] # None /\ x = Item(KeyOf(x), w[KeyOf(x)])
    BY PairsFields
  <2>2. CASE KeyOf(x) = k
    BY <1>2, <2>1, <2>2
  <2>3. CASE KeyOf(x) # k
    <3>1. w[KeyOf(x)] = m[KeyOf(x)]
      BY <1>2, <2>1, <2>3
    <3>2. Item(KeyOf(x), m[KeyOf(x)]) \in Pairs(m)
      BY <2>1, <3>1, PairsFields
    <3> QED
      BY <2>1, <2>3, <3>1, <3>2
  <2> QED
    BY <2>2, <2>3
<1>4. Item(k, v) \in Pairs(w)
  BY <1>2, PairsFields
<1>5. ASSUME NEW x \in Pairs(m), KeyOf(x) # k PROVE x \in Pairs(w)
  <2>1. KeyOf(x) \in Keys /\ m[KeyOf(x)] # None /\ x = Item(KeyOf(x), m[KeyOf(x)])
    BY PairsFields
  <2>2. w[KeyOf(x)] = m[KeyOf(x)]
    BY <1>2, <1>5, <2>1
  <2>3. Item(KeyOf(x), w[KeyOf(x)]) \in Pairs(w)
    BY <2>1, <2>2, PairsFields
  <2> QED
    BY <2>1, <2>2, <2>3
<1>6. PICK P, Q : P = Pairs(w) /\ Q = Pairs(m)
  OBVIOUS
<1>7. P = {x \in Q : KeyOf(x) # k} \union {Item(k, v)}
  BY <1>3, <1>4, <1>5, <1>6, PairsFields
<1> QED
  BY <1>1, <1>6, <1>7

\* Nothing is waiting.
LEMMA NothingWaits ==
  ASSUME NEW t, Sound(t), NEW m, Stored(t) = Pairs(m)
  PROVE  Emplaces(t, <<>>, StandsStill, m)
<1>1. PICK w : w = <<>>
  OBVIOUS
<1>2. w \in Seq(Elements) /\ Entries(w) = {} /\ NoneTwice(w)
  BY <1>1 DEF Entries, NoneTwice
<1>3. Complete(t, w, m)
  BY <1>2 DEF Complete
<1> QED
  BY <1>1, <1>2, <1>3 DEF Emplaces, Sound

\* Between two calls.
LEMMA IdleFields ==
  ASSUME TableInv, Idle
  PROVE  /\ Sound(table) /\ Filled(table) /\ table \in BytellTables /\ Stored(table) = Pairs(map)
         /\ moving = StandsStill /\ todo = <<>> /\ doomed = {} /\ it = End
         /\ map \in [Keys -> Values \union {None}]
         /\ KeysOnce(table) /\ Counted(table) /\ Reserved(table) = {}
         /\ table.hasher \in [Keys -> 0 .. Words - 1]
<1>1. EmplacesNow /\ todo = <<>> /\ doomed = {} /\ it = End /\ map \in [Keys -> Values \union {None}]
  BY DEF TableInv, Idle
<1>2. moving = StandsStill /\ Sound(table)
  BY <1>1 DEF EmplacesNow, Emplaces
<1>3. Complete(table, todo, map) /\ Entries(todo) = {}
  BY <1>1 DEF EmplacesNow, Emplaces, AlreadyKnown, Entries
<1>4. Stored(table) = Pairs(map)
  BY <1>3 DEF Complete
<1> QED
  BY <1>1, <1>2, <1>4, TableFields DEF Sound, Filled

\* A call that leaves nothing to erase, and forgets the original of a copy.
LEMMA CallKeeps ==
  ASSUME TableInv, Idle, doomed' = {}, it' = End, map' \in [Keys -> Values \union {None}],
         table'.hasher = table.hasher, Emplaces(table', todo', moving', map'),
         original' = NoTable \/ (Sound(original') /\ original'.hasher = table.hasher
                                 /\ Stored(original') = Pairs(map'))
  PROVE  TableInv'
<1>1. EmplacesNow'
  BY DEF EmplacesNow
<1>2. CopyKept'
  BY DEF CopyKept, NoTable
<1> QED
  BY <1>1, <1>2 DEF TableInv

\* emplace ( ) and operator [ ].
LEMMA EmplaceCall ==
  ASSUME TableInv, NEW k \in Keys, NEW v \in Values, Emplace(k, v)
  PROVE  TableInv'
<1>1. /\ Idle /\ todo' = <<Item(k, v)>>
      /\ map' = IF map[k] = None THEN [map EXCEPT ![k] = v] ELSE map
      /\ original' = NoTable /\ doomed' = doomed /\ it' = it /\ table' = table /\ moving' = moving
  BY DEF Emplace, NoErasure
<1>2. /\ Sound(table) /\ Filled(table) /\ table \in BytellTables /\ Stored(table) = Pairs(map)
      /\ moving = StandsStill /\ doomed = {} /\ it = End
      /\ map \in [Keys -> Values \union {None}]
  BY <1>1, IdleFields
<1>3. PICK e \in Elements : e = Item(k, v)
  BY DEF Elements, Item
<1>4. PICK w : w = <<e>>
  OBVIOUS
<1>5. /\ w \in Seq(Elements) /\ Len(w) = 1 /\ Head(w) = e /\ Entries(w) = {e} /\ NoneTwice(w)
  BY <1>4 DEF Entries, NoneTwice
<1>6. KeyOf(e) = k
  BY <1>3, PairsFields
<1>7. CASE map[k] = None
  <2>1. Pairs(map') = {x \in Pairs(map) : KeyOf(x) # k} \union {e}
    <3>1. PICK m \in [Keys -> Values \union {None}] : m = map
      BY <1>2
    <3>2. Pairs([m EXCEPT ![k] = v]) = {x \in Pairs(m) : KeyOf(x) # k} \union {Item(k, v)}
      BY PairsWith
    <3>3. map' = [m EXCEPT ![k] = v]
      BY <1>1, <1>7, <3>1
    <3> QED
      BY <1>3, <3>1, <3>2, <3>3
  <2>2. \A x \in Pairs(map) : KeyOf(x) # k
    BY <1>7, PairsFields
  <2>3. Complete(table, w, map')
    BY <1>2, <1>5, <1>6, <2>1, <2>2 DEF Complete
  <2>4. Emplaces(table, w, StandsStill, map')
    BY <1>2, <1>5, <2>3 DEF Emplaces
  <2>5. map' \in [Keys -> Values \union {None}]
    BY <1>1, <1>2, <1>7
  <2> QED
    BY <1>1, <1>2, <1>3, <1>4, <2>4, <2>5, CallKeeps
<1>8. CASE map[k] # None
  <2>1. map' = map
    BY <1>1, <1>8
  <2>2. Item(k, map[k]) \in Stored(table)
    BY <1>2, <1>8, PairsFields
  <2>3. PICK i \in Held(table) : table.slots[i].item = Item(k, map[k])
    BY <2>2 DEF Stored
  <2>4. KeyAt(table, i) = KeyOf(Head(w))
    BY <1>5, <1>6, <2>3, PairsFields DEF KeyAt
  <2>5. Emplaces(table, w, StandsStill, map)
    BY <1>2, <1>5, <2>4 DEF Emplaces, AlreadyKnown
  <2> QED
    BY <1>1, <1>2, <1>3, <1>4, <2>1, <2>5, CallKeeps
<1> QED
  BY <1>7, <1>8

\* An element gets another value.
LEMMA AssignRight ==
  ASSUME NEW t, Sound(t), NEW k \in Keys, NEW v \in Values,
         NEW i \in Held(t), KeyAt(t, i) = k, find(t, k) = i, NEW u, u = assign(t, k, v)
  PROVE  Sound(u) /\ Same(t, u) /\ Stored(u) = {x \in Stored(t) : KeyOf(x) # k} \union {Item(k, v)}
<1>1. t \in BytellTables /\ Filled(t) /\ Reserved(t) = {} /\ KeysOnce(t) /\ Counted(t) /\ Sized(t)
  BY DEF Sound, Filled
<1>2. PICK d : Ranked(t, d, {})
  BY DEF Sound
<1>3. PICK e \in Elements : e = Item(k, v) /\ KeyOf(e) = k
  BY PairsFields DEF Elements, Item
<1>4. /\ i \in DOMAIN t.slots /\ t.slots[i] \in SlotTypes /\ t.slots[i].kind \in {"direct", "list"}
      /\ t.slots[i].jump \in {0} \union Jumps
      /\ t.slots[i] = Slot(t.slots[i].kind, t.slots[i].jump, t.slots[i].item)
      /\ find_direct_hit(t, i) = index_for_hash(t, k)
  BY <1>1, TableFields, SlotFields, FollowedHeld DEF Held
<1>5. PICK s \in SlotTypes : s = Slot(t.slots[i].kind, t.slots[i].jump, e)
  BY <1>4, SlotFields
<1>6. [t.slots[i] EXCEPT !.item = e] = s
  <2>1. \A a, b, c : [Slot(a, b, c) EXCEPT !.item = e] = Slot(a, b, e)
    BY DEF Slot
  <2> QED
    BY <1>4, <1>5, <2>1
<1>7. u = set(t, i, s)
  BY <1>3, <1>6 DEF assign, set
<1>8. /\ u \in BytellTables /\ Same(t, u) /\ u.num_elements = t.num_elements
      /\ u.slots[i] = Slot(t.slots[i].kind, t.slots[i].jump, e)
      /\ \A j \in DOMAIN t.slots : j # i => u.slots[j] = t.slots[j]
  BY <1>1, <1>4, <1>5, <1>7, SetFields DEF Same
<1>9. Ranked(u, d, {})
  BY <1>1, <1>2, <1>3, <1>4, <1>8, RankedReplace
<1>10. u.slots[i].kind = t.slots[i].kind /\ u.slots[i].item = e
  BY <1>8, SlotFields
<1>11. Held(u) = Held(t) /\ Reserved(u) = {}
  BY <1>1, <1>4, <1>8, <1>10 DEF Held, Reserved, Same
<1>12. Counted(u)
  BY <1>1, <1>8, <1>11 DEF Counted, Same
<1>13. \A j \in Held(t) : KeyAt(u, j) = KeyAt(t, j) /\ (j # i => u.slots[j].item = t.slots[j].item)
  BY <1>1, <1>3, <1>8, <1>10, FollowedHeld DEF KeyAt
<1>14. KeysOnce(u)
  BY <1>1, <1>11, <1>13 DEF KeysOnce
<1>15. Sized(u)
  BY <1>1, <1>8, SameSized
<1>16. Stored(u) = {x \in Stored(t) : KeyOf(x) # k} \union {e}
  <2>1. ASSUME NEW x \in Stored(u) PROVE x \in {y \in Stored(t) : KeyOf(y) # k} \union {e}
    <3>1. PICK j \in Held(t) : x = u.slots[j].item
      BY <1>11 DEF Stored
    <3>2. CASE j = i
      BY <1>10, <3>1, <3>2
    <3>3. CASE j # i
      <4>1. x = t.slots[j].item /\ KeyAt(t, j) # k
        BY <1>1, <1>13, <3>1, <3>3 DEF KeysOnce
      <4> QED
        BY <4>1 DEF Stored, KeyAt
    <3> QED
      BY <3>2, <3>3
  <2>2. ASSUME NEW x \in Stored(t), KeyOf(x) # k PROVE x \in Stored(u)
    <3>1. PICK j \in Held(t) : x = t.slots[j].item
      BY DEF Stored
    <3>2. j # i
      BY <2>2, <3>1 DEF KeyAt
    <3> QED
      BY <1>11, <1>13, <3>1, <3>2 DEF Stored
  <2>3. e \in Stored(u)
    BY <1>10, <1>11 DEF Stored
  <2> QED
    BY <2>1, <2>2, <2>3
<1> QED
  BY <1>3, <1>8, <1>9, <1>11, <1>12, <1>14, <1>15, <1>16 DEF Sound, Filled

\* In a sound table find ( ) finds the slot with the key, or none has it.
LEMMA FindIdle ==
  ASSUME NEW t, Sound(t), NEW k \in Keys
  PROVE  \/ find(t, k) = End /\ \A x \in Stored(t) : KeyOf(x) # k
         \/ find(t, k) # End /\ find(t, k) \in Held(t) /\ KeyAt(t, find(t, k)) = k
<1>1. t \in BytellTables /\ KeysOnce(t)
  BY DEF Sound, Filled
<1>2. PICK d : Ranked(t, d, {})
  BY DEF Sound
<1>3. /\ (\A i \in Held(t) : KeyAt(t, i) # k) <=> find(t, k) = End
      /\ \A i \in Held(t) : KeyAt(t, i) = k => find(t, k) = i
  BY <1>1, <1>2, FindRight
<1> QED
  BY <1>3 DEF Stored, KeyAt

\* insert_or_assign ( ).
LEMMA InsertOrAssignCall ==
  ASSUME TableInv, NEW k \in Keys, NEW v \in Values, InsertOrAssign(k, v)
  PROVE  TableInv'
<1>1. /\ Idle /\ map' = [map EXCEPT ![k] = v]
      /\ find(table, k) # End => table' = assign(table, k, v) /\ todo' = todo
      /\ find(table, k) = End => todo' = <<Item(k, v)>> /\ table' = table
      /\ original' = NoTable /\ doomed' = doomed /\ it' = it /\ moving' = moving
  BY DEF InsertOrAssign, NoErasure
<1>2. /\ Sound(table) /\ Filled(table) /\ table \in BytellTables /\ Stored(table) = Pairs(map)
      /\ moving = StandsStill /\ todo = <<>> /\ doomed = {} /\ it = End
      /\ map \in [Keys -> Values \union {None}]
  BY <1>1, IdleFields
<1>3. map' \in [Keys -> Values \union {None}]
  BY <1>1, <1>2
<1>4. Pairs(map') = {x \in Pairs(map) : KeyOf(x) # k} \union {Item(k, v)}
  BY <1>1, <1>2, PairsWith
<1>5. CASE find(table, k) # End
  <2>1. find(table, k) \in Held(table) /\ KeyAt(table, find(table, k)) = k
    BY <1>2, <1>5, FindIdle
  <2>2. PICK u : u = assign(table, k, v)
    OBVIOUS
  <2>3. /\ Sound(u) /\ Same(table, u)
        /\ Stored(u) = {x \in Stored(table) : KeyOf(x) # k} \union {Item(k, v)}
    BY <1>2, <2>1, <2>2, AssignRight
  <2>4. Emplaces(u, <<>>, StandsStill, map')
    BY <1>2, <1>4, <2>3, NothingWaits
  <2>5. table' = u /\ todo' = <<>> /\ u.hasher = table.hasher
    BY <1>1, <1>2, <1>5, <2>2, <2>3 DEF Same
  <2> QED
    BY <1>1, <1>2, <1>3, <2>4, <2>5, CallKeeps
<1>6. CASE find(table, k) = End
  <2>1. \A x \in Stored(table) : KeyOf(x) # k
    BY <1>2, <1>6, FindIdle DEF End
  <2>2. PICK e \in Elements : e = Item(k, v)
    BY DEF Elements, Item
  <2>3. PICK w : w = <<e>>
    OBVIOUS
  <2>4. w \in Seq(Elements) /\ Entries(w) = {e} /\ NoneTwice(w)
    BY <2>3 DEF Entries, NoneTwice
  <2>5. Complete(table, w, map')
    BY <1>2, <1>4, <2>1, <2>2, <2>4, PairsFields DEF Complete
  <2>6. Emplaces(table, w, StandsStill, map')
    BY <1>2, <2>4, <2>5 DEF Emplaces
  <2> QED
    BY <1>1, <1>2, <1>3, <1>6, <2>2, <2>3, <2>6, CallKeeps
<1> QED
  BY <1>5, <1>6

\* erase ( ) of a key.
LEMMA EraseCall ==
  ASSUME TableInv, NEW k \in Keys, Erase(k)
  PROVE  TableInv'
<1>1. /\ Idle /\ map' = Without(map, {k})
      /\ table' = IF find(table, k) = End THEN table ELSE erase(table, find(table, k))
      /\ original' = NoTable /\ doomed' = doomed /\ it' = it /\ todo' = todo /\ moving' = moving
  BY DEF Erase, NoErasure
<1>2. /\ Sound(table) /\ Stored(table) = Pairs(map)
      /\ moving = StandsStill /\ todo = <<>> /\ doomed = {} /\ it = End
      /\ map \in [Keys -> Values \union {None}]
  BY <1>1, IdleFields
<1>3. map' \in [Keys -> Values \union {None}] /\ Pairs(map') = {x \in Pairs(map) : KeyOf(x) # k}
  <2>1. map' \in [Keys -> Values \union {None}]
    BY <1>1, <1>2 DEF Without
  <2>2. Pairs(Without(map, {k})) = {x \in Pairs(map) : KeyOf(x) \notin {k}}
    BY PairsWithout
  <2> QED
    BY <1>1, <2>1, <2>2
<1>4. PICK u : u = table'
  OBVIOUS
<1>5. Sound(u) /\ Same(table, u) /\ Stored(u) = Pairs(map')
  <2>1. CASE find(table, k) = End
    <3>1. u = table /\ \A x \in Stored(table) : KeyOf(x) # k
      BY <1>1, <1>2, <1>4, <2>1, FindIdle DEF End
    <3> QED
      BY <1>2, <1>3, <3>1 DEF Same
  <2>2. CASE find(table, k) # End
    <3>1. PICK i \in Held(table) : i = find(table, k) /\ KeyAt(table, i) = k
      BY <1>2, <2>2, FindIdle
    <3>2. u = erase(table, i)
      BY <1>1, <1>4, <2>2, <3>1
    <3>3. Sound(u) /\ Same(table, u) /\ Stored(u) = Stored(table) \ {table.slots[i].item}
      BY <1>2, <3>2, EraseRight
    <3>4. KeyOf(table.slots[i].item) = k /\ table.slots[i].item \in Pairs(map)
      BY <1>2, <3>1 DEF KeyAt, Stored
    <3>5. Stored(u) = {x \in Pairs(map) : KeyOf(x) # k}
      BY <1>2, <3>3, <3>4, PairsFields
    <3> QED
      BY <1>3, <3>3, <3>5
  <2> QED
    BY <2>1, <2>2
<1>6. Emplaces(u, <<>>, StandsStill, map')
  BY <1>5, NothingWaits
<1> QED
  BY <1>1, <1>2, <1>3, <1>4, <1>5, <1>6, CallKeeps DEF Same

\* clear ( ).
LEMMA ClearCall ==
  ASSUME TableInv, Clear
  PROVE  TableInv'
<1>1. /\ Idle /\ map' = NoKeys /\ table' = clear(table)
      /\ original' = NoTable /\ doomed' = doomed /\ it' = it /\ todo' = todo /\ moving' = moving
  BY DEF Clear, NoErasure
<1>2. /\ Sound(table) /\ moving = StandsStill /\ todo = <<>> /\ doomed = {} /\ it = End
  BY <1>1, IdleFields
<1>3. map' \in [Keys -> Values \union {None}] /\ Pairs(map') = {}
  BY <1>1 DEF NoKeys, Pairs
<1>4. PICK u : u = clear(table)
  OBVIOUS
<1>5. Sound(u) /\ Same(table, u) /\ Stored(u) = {}
  BY <1>2, <1>4, ClearRight
<1>6. Emplaces(u, <<>>, StandsStill, map')
  BY <1>3, <1>5, NothingWaits
<1> QED
  BY <1>1, <1>2, <1>3, <1>4, <1>5, <1>6, CallKeeps DEF Same

\* A table that was left alone, or the new slots and what was in the old ones.
LEMMA RestEmplaces ==
  ASSUME NEW t, Sound(t), NEW m, Stored(t) = Pairs(m),
         NEW r, r = Rest(t, <<>>) \/ Fresh(r, t)
  PROVE  Emplaces(r.table, r.todo, StandsStill, m) /\ r.table.hasher = t.hasher
<1>1. CASE r = Rest(t, <<>>)
  <2>1. r.table = t /\ r.todo = <<>>
    BY <1>1 DEF Rest
  <2> QED
    BY <2>1, NothingWaits
<1>2. CASE Fresh(r, t)
  <2>1. Complete(r.table, r.todo, m)
    BY <1>2 DEF Fresh, Complete
  <2>2. PICK u, w : u = r.table /\ w = r.todo
    OBVIOUS
  <2> QED
    BY <1>2, <2>1, <2>2 DEF Fresh, Emplaces, Sound
<1> QED
  BY <1>1, <1>2

\* The smaller of two numbers is a number.
LEMMA MinOfTwo ==
  ASSUME NEW a \in Nat, NEW b \in Nat
  PROVE  Min({a, b}) \in Nat
<1>1. {a, b} \in SUBSET Nat /\ {a, b} # {}
  OBVIOUS
<1> QED
  BY <1>1, MinIsLeast

\* rehash ( ), reserve ( ) and shrink_to_fit ( ).
LEMMA RehashCall ==
  ASSUME TableInv, NEW n \in Sizes, Rehash(n)
  PROVE  TableInv'
<1>1. PICK r \in {rehash(table, n), reserve(table, n), shrink_to_fit(table)} :
        table' = r.table /\ todo' = r.todo
  BY DEF Rehash
<1>2. Idle /\ original' = NoTable /\ doomed' = doomed /\ it' = it /\ moving' = moving /\ map' = map
  BY DEF Rehash, NoErasure
<1>3. /\ Sound(table) /\ table \in BytellTables /\ Stored(table) = Pairs(map)
      /\ moving = StandsStill /\ doomed = {} /\ it = End
      /\ map \in [Keys -> Values \union {None}] /\ KeysOnce(table) /\ Counted(table)
      /\ table.num_elements \in Nat /\ bucket_count(table) \in Nat /\ n \in Nat
  BY <1>2, IdleFields, TableFields, ClientAssumption
<1>4. \A a \in Nat : rehash(table, a) = Rest(table, <<>>) \/ Fresh(rehash(table, a), table)
  BY <1>3, RehashRight
<1>5. \A a \in Nat : num_buckets_for_reserve(a) \in Nat
  BY BucketsForReserve
<1>6. r = Rest(table, <<>>) \/ Fresh(r, table)
  <2>1. CASE r = rehash(table, n)
    BY <1>3, <1>4, <2>1
  <2>2. CASE r = reserve(table, n)
    BY <1>3, <1>4, <1>5, <2>2 DEF reserve
  <2>3. CASE r = shrink_to_fit(table)
    <3>1. PICK a : a = Min({num_buckets_for_reserve(table.num_elements), bucket_count(table)})
      OBVIOUS
    <3>2. a \in Nat
      BY <1>3, <1>5, <3>1, MinOfTwo
    <3> QED
      BY <1>4, <2>3, <3>1, <3>2 DEF shrink_to_fit, rehash_for_other_container
  <2> QED
    BY <1>1, <2>1, <2>2, <2>3
<1>7. Emplaces(r.table, r.todo, StandsStill, map) /\ r.table.hasher = table.hasher
  BY <1>3, <1>6, RestEmplaces
<1> QED
  BY <1>1, <1>2, <1>3, <1>7, CallKeeps

\* A copy is made, and its elements are to be emplaced.
LEMMA CopyCall ==
  ASSUME TableInv, Copy
  PROVE  TableInv'
<1>1. /\ Idle /\ table' = copy(table).table /\ todo' = copy(table).todo /\ original' = table
      /\ doomed' = doomed /\ it' = it /\ moving' = moving /\ map' = map
  BY DEF Copy, NoErasure
<1>2. /\ Sound(table) /\ table \in BytellTables /\ Stored(table) = Pairs(map)
      /\ moving = StandsStill /\ doomed = {} /\ it = End
      /\ map \in [Keys -> Values \union {None}] /\ KeysOnce(table)
      /\ table.num_elements \in Nat /\ bucket_count(table) \in Nat
      /\ table.hasher \in [Keys -> 0 .. Words - 1]
  BY <1>1, IdleFields, TableFields
<1>3. PICK t : t = EmptyTable(table.hasher)
  OBVIOUS
<1>4. /\ Sound(t) /\ Held(t) = {} /\ Stored(t) = {} /\ t.hasher = table.hasher
      /\ t \in BytellTables /\ Counted(t) /\ KeysOnce(t)
  BY <1>2, <1>3, EmptyTableSound DEF Sound, Filled
<1>5. PICK a : a = Min({num_buckets_for_reserve(table.num_elements), bucket_count(table)})
  OBVIOUS
<1>6. a \in Nat
  BY <1>2, <1>5, BucketsForReserve, MinOfTwo
<1>7. PICK r : r = rehash(t, a)
  OBVIOUS
<1>8. r = Rest(t, <<>>) \/ Fresh(r, t)
  BY <1>4, <1>6, <1>7, RehashRight
<1>9. Sound(r.table) /\ Stored(r.table) = {} /\ r.table.hasher = table.hasher
  BY <1>4, <1>8 DEF Fresh, Rest
<1>10. PICK w : w = items(table)
  OBVIOUS
<1>11. w \in Seq(Elements) /\ Entries(w) = Stored(table) /\ NoneTwice(w)
  BY <1>2, <1>10, ItemsHold
<1>12. PICK v : v = Reverse(w)
  OBVIOUS
<1>13. v \in Seq(Elements) /\ Entries(v) = Stored(table) /\ NoneTwice(v)
  BY <1>11, <1>12, ReverseHolds
<1>14. table' = r.table /\ todo' = v
  BY <1>1, <1>3, <1>5, <1>7, <1>10, <1>12 DEF copy, rehash_for_other_container, Rest
<1>15. Complete(r.table, v, map)
  BY <1>2, <1>9, <1>13 DEF Complete
<1>16. Emplaces(r.table, v, StandsStill, map)
  BY <1>9, <1>13, <1>15 DEF Emplaces, Sound
<1> QED
  BY <1>1, <1>2, <1>9, <1>14, <1>16, CallKeeps

\* The loop of an iterator ends at the largest used slot below the one it stood
\* at, and at the end when there is none.
LEMMA BeforeRight ==
  ASSUME NEW t \in BytellTables, Reserved(t) = {}, NEW n \in Nat, NEW i, i = before(t, n)
  PROVE  /\ Used(t) = Held(t)
         /\ i = End => \A j \in Held(t) : j >= n
         /\ i # End => i \in Held(t) /\ i < n /\ \A j \in Held(t) : j < n => j <= i
<1>1. \A j \in DOMAIN t.slots : t.slots[j].kind \in {"empty", "reserved", "direct", "list"}
  BY TableFields, SlotFields
<1>2. Used(t) = Held(t)
  BY <1>1 DEF Used, Held, Reserved
<1>3. Held(t) \in SUBSET Nat
  BY TableFields DEF Held
<1> DEFINE below(k) == {j \in Used(t) : j < k}
           R(f) == [k \in 0 .. n |-> IF k = 0 THEN End ELSE IF k - 1 \in Used(t) THEN k - 1
                                    ELSE f[k - 1]]
           loop == CHOOSE f : f = R(f)
           h == [k \in 0 .. n |-> IF below(k) = {} THEN End ELSE Max(below(k))]
<1>4. h = R(h)
  <2>1. ASSUME NEW k \in 0 .. n PROVE h[k] = R(h)[k]
    <3>1. CASE k = 0
      <4>1. below(k) = {}
        BY <1>2, <1>3, <3>1
      <4> QED
        BY <3>1, <4>1
    <3>2. CASE k # 0 /\ k - 1 \in Used(t)
      <4>1. k - 1 \in below(k) /\ below(k) \in SUBSET Nat /\ \A j \in below(k) : j <= k - 1
        BY <1>2, <1>3, <3>2
      <4>2. Max(below(k)) \in below(k) /\ \A j \in below(k) : Max(below(k)) >= j
        <5> HIDE DEF below
        <5>1. k - 1 \in Nat /\ below(k) # {}
          BY <3>2, <4>1
        <5> QED
          BY <4>1, <5>1, MaxIsLargest
      <4>3. Max(below(k)) = k - 1
        <5> HIDE DEF below
        <5>1. Max(below(k)) \in Nat /\ Max(below(k)) <= k - 1 /\ Max(below(k)) >= k - 1
          BY <4>1, <4>2
        <5> QED
          BY <5>1
      <4> HIDE DEF below
      <4> QED
        BY <3>2, <4>1, <4>3
    <3>3. CASE k # 0 /\ k - 1 \notin Used(t)
      <4>1. below(k) = below(k - 1)
        BY <1>2, <1>3, <3>3
      <4>2. k - 1 \in 0 .. n
        BY <3>3
      <4> HIDE DEF below
      <4> QED
        BY <3>3, <4>1, <4>2
    <3> QED
      BY <3>1, <3>2, <3>3
  <2>2. R(h) = [k \in 0 .. n |-> R(h)[k]] /\ h = [k \in 0 .. n |-> h[k]]
    OBVIOUS
  <2> HIDE DEF R, h
  <2> QED
    BY <2>1, <2>2
<1>5. loop = R(loop)
  <2> HIDE DEF R, h
  <2> QED
    BY <1>4
<1>6. i = loop[n]
  BY DEF before
<1>7. /\ loop[0] = End
      /\ \A k \in 1 .. n : loop[k] = IF k - 1 \in Used(t) THEN k - 1 ELSE loop[k - 1]
  <2> HIDE DEF loop
  <2>1. \A k \in 0 .. n : loop[k] = R(loop)[k]
    BY <1>5
  <2>2. \A k \in 1 .. n : k \in 0 .. n /\ k # 0
    OBVIOUS
  <2> QED
    BY <2>1, <2>2
<1> DEFINE Stands(x, k) == /\ x = End => \A j \in Used(t) : j >= k
                           /\ x # End => /\ x \in Used(t) /\ x < k
                                         /\ \A j \in Used(t) : j < k => j <= x
           Good == {k \in 0 .. n : Stands(loop[k], k)}
<1> HIDE DEF loop
<1>8. 0 \in Good
  BY <1>2, <1>3, <1>7
<1>9. ASSUME NEW k \in 1 .. n, k - 1 \in Good PROVE k \in Good
  <2>1. Stands(loop[k - 1], k - 1)
    BY <1>9
  <2>2. CASE k - 1 \in Used(t)
    <3>1. loop[k] = k - 1 /\ k - 1 # End
      BY <1>7, <2>2 DEF End
    <3>2. \A j \in Used(t) : j < k => j <= k - 1
      BY <1>2, <1>3
    <3> QED
      BY <2>2, <3>1, <3>2
  <2>3. CASE k - 1 \notin Used(t)
    <3>1. loop[k] = loop[k - 1]
      BY <1>7, <2>3
    <3>2. \A j \in Used(t) : j < k <=> j < k - 1
      BY <1>2, <1>3, <2>3
    <3>3. \A j \in Used(t) : j \in Nat
      BY <1>2, <1>3
    <3>4. Stands(loop[k - 1], k)
      BY <2>1, <3>2, <3>3
    <3> QED
      BY <3>1, <3>4
  <2> QED
    BY <2>2, <2>3
<1>10. n \in Good
  <2> HIDE DEF Good
  <2> QED
    BY <1>8, <1>9, SetInduction
<1>11. Stands(i, n)
  BY <1>6, <1>10
<1> QED
  BY <1>2, <1>11

\* A client that has begun to erase.
LEMMA ErasureBegins ==
  ASSUME map' \in [Keys -> Values \union {None}], Sound(table'), table'.hasher = table.hasher,
         todo' = <<>>, moving' = StandsStill, original' = NoTable,
         \/ doomed' # {} /\ it' = End /\ Shrinks(table', doomed', map')
         \/ doomed' = {} /\ it' # End /\ Sweeps(table', it', unwanted', map')
  PROVE  TableInv'
<1>1. CopyKept'
  BY DEF CopyKept, NoTable
<1> QED
  BY <1>1 DEF TableInv

\* erase ( ) of a range: all of the table is cleared, and else the slots are doomed.
LEMMA EraseRangeCall ==
  ASSUME TableInv, NEW first \in Used(table) \union {End}, NEW end \in Used(table) \union {End},
         EraseRange(first, end)
  PROVE  TableInv'
<1>1. /\ Idle /\ first >= end /\ map' = Without(map, KeysOf(SlotsIn(first, end)))
      /\ original' = NoTable /\ it' = it /\ todo' = todo /\ moving' = moving
      /\ \/ first = begin(table) /\ end = End /\ table' = clear(table) /\ doomed' = doomed
         \/ doomed' = SlotsIn(first, end) /\ table' = table
  BY DEF EraseRange
<1>2. /\ Sound(table) /\ table \in BytellTables /\ Stored(table) = Pairs(map)
      /\ moving = StandsStill /\ todo = <<>> /\ doomed = {} /\ it = End
      /\ map \in [Keys -> Values \union {None}] /\ KeysOnce(table) /\ Reserved(table) = {}
  BY <1>1, IdleFields
<1>3. bucket_count(table) \in Nat /\ \A j \in Held(table) : j \in Nat /\ j < bucket_count(table)
  BY <1>2, TableFields DEF Held
<1>4. Used(table) = Held(table)
  BY <1>2, <1>3, BeforeRight
<1>5. PICK S, gone : S = SlotsIn(first, end) /\ gone = KeysOf(S)
  OBVIOUS
<1>6. S \subseteq Held(table) /\ gone = {KeyAt(table, i) : i \in S}
  BY <1>4, <1>5 DEF SlotsIn, KeysOf, KeyAt
<1>7. map' \in [Keys -> Values \union {None}]
  BY <1>1, <1>2 DEF Without
<1>8. Pairs(map') = {x \in Pairs(map) : KeyOf(x) \notin gone}
  BY <1>1, <1>5, PairsWithout
<1>9. {table.slots[i].item : i \in Held(table) \ S} = Pairs(map')
  <2>1. ASSUME NEW i \in Held(table) PROVE KeyAt(table, i) \in gone <=> i \in S
    BY <1>2, <1>6 DEF KeysOnce
  <2>2. \A i \in Held(table) : table.slots[i].item \in Pairs(map') <=> i \notin S
    BY <1>2, <1>8, <2>1 DEF Stored, KeyAt
  <2>3. \A x \in Pairs(map') : \E i \in Held(table) : x = table.slots[i].item
    BY <1>2, <1>8 DEF Stored
  <2> QED
    BY <2>2, <2>3
<1>10. CASE first = begin(table) /\ end = End /\ table' = clear(table) /\ doomed' = doomed
  <2>1. Held(table) \subseteq S
    <3>1. ASSUME NEW j \in Held(table) PROVE j \in S
      <4>1. j < bucket_count(table) /\ j \in Nat
        BY <1>3
      <4>2. first # End /\ j <= first
        BY <1>2, <1>3, <1>10, <4>1, BeforeRight DEF begin
      <4>3. end < j
        BY <1>10, <4>1 DEF End
      <4> QED
        BY <1>4, <1>5, <4>2, <4>3 DEF SlotsIn
    <3> QED
      BY <3>1
  <2>2. Pairs(map') = {}
    BY <1>9, <2>1
  <2>3. PICK u : u = clear(table)
    OBVIOUS
  <2>4. Sound(u) /\ Same(table, u) /\ Stored(u) = {}
    BY <1>2, <2>3, ClearRight
  <2>5. Emplaces(u, <<>>, StandsStill, map')
    BY <2>2, <2>4, NothingWaits
  <2> QED
    BY <1>1, <1>2, <1>7, <1>10, <2>3, <2>4, <2>5, CallKeeps DEF Same
<1>11. CASE doomed' = SlotsIn(first, end) /\ table' = table
  <2>1. CASE S = {}
    <3>1. Stored(table) = Pairs(map')
      BY <1>9, <2>1 DEF Stored
    <3>2. Emplaces(table, <<>>, StandsStill, map')
      BY <1>2, <3>1, NothingWaits
    <3> QED
      BY <1>1, <1>2, <1>5, <1>7, <1>11, <2>1, <3>2, CallKeeps
  <2>2. CASE S # {}
    <3>1. Shrinks(table, S, map')
      BY <1>6, <1>9 DEF Shrinks
    <3> QED
      BY <1>1, <1>2, <1>5, <1>7, <1>11, <2>2, <3>1, ErasureBegins
  <2> QED
    BY <2>1, <2>2
<1> QED
  BY <1>1, <1>10, <1>11

\* The client begins to erase while it iterates.
LEMMA EraseIfCall ==
  ASSUME TableInv, NEW keys \in SUBSET Keys, EraseIf(keys)
  PROVE  TableInv'
<1>1. /\ Idle /\ it' = begin(table) /\ unwanted' = IF it' = End THEN {} ELSE keys
      /\ map' = Without(map, keys) /\ original' = NoTable
      /\ table' = table /\ todo' = todo /\ moving' = moving /\ doomed' = doomed
  BY DEF EraseIf, tableVars
<1>2. /\ Sound(table) /\ table \in BytellTables /\ Stored(table) = Pairs(map)
      /\ moving = StandsStill /\ todo = <<>> /\ doomed = {} /\ it = End
      /\ map \in [Keys -> Values \union {None}] /\ Reserved(table) = {}
  BY <1>1, IdleFields
<1>3. bucket_count(table) \in Nat /\ \A j \in Held(table) : j \in Nat /\ j < bucket_count(table)
  BY <1>2, TableFields DEF Held
<1>4. PICK i, n : i = begin(table) /\ n = bucket_count(table)
  OBVIOUS
<1>5. /\ i = End => \A j \in Held(table) : j >= n
      /\ i # End => i \in Held(table) /\ i < n /\ \A j \in Held(table) : j < n => j <= i
  BY <1>2, <1>3, <1>4, BeforeRight DEF begin
<1>6. map' \in [Keys -> Values \union {None}]
  BY <1>1, <1>2 DEF Without
<1>7. Pairs(map') = {x \in Pairs(map) : KeyOf(x) \notin keys}
  BY <1>1, PairsWithout
<1>8. CASE i = End
  <2>1. Held(table) = {}
    BY <1>3, <1>4, <1>5, <1>8
  <2>2. Stored(table) = Pairs(map')
    BY <1>2, <1>7, <2>1 DEF Stored
  <2>3. Emplaces(table, <<>>, StandsStill, map')
    BY <1>2, <2>2, NothingWaits
  <2> QED
    BY <1>1, <1>2, <1>4, <1>6, <1>8, <2>3, CallKeeps
<1>9. CASE i # End
  <2>1. Sweeps(table, i, keys, map')
    BY <1>2, <1>3, <1>4, <1>5, <1>7, <1>9 DEF Sweeps
  <2> QED
    BY <1>1, <1>2, <1>4, <1>6, <1>9, <2>1, ErasureBegins
<1> QED
  BY <1>8, <1>9

\* Every call of the client keeps what the table and the map rely on.
LEMMA CallKeepsInv ==
  ASSUME TableInv, Call
  PROVE  TableInv'
<1>1. CASE \E k \in Keys : Index(k) \/ Erase(k)
  BY <1>1, EmplaceCall, EraseCall, ClientAssumption DEF Index
<1>2. CASE \E k \in Assigned, v \in Values : Emplace(k, v) \/ InsertOrAssign(k, v)
  BY <1>2, EmplaceCall, InsertOrAssignCall, ClientAssumption
<1>3. CASE \E first, end \in Used(table) \union {End} : EraseRange(first, end)
  BY <1>3, EraseRangeCall
<1>4. CASE \E keys \in SUBSET Keys : EraseIf(keys)
  BY <1>4, EraseIfCall
<1>5. CASE \E n \in Sizes : Rehash(n)
  BY <1>5, RehashCall
<1> QED
  BY <1>1, <1>2, <1>3, <1>4, <1>5, ClearCall, CopyCall DEF Call

\* The last unwanted element is gone.
LEMMA ErasureEnds ==
  ASSUME map' \in [Keys -> Values \union {None}], Sound(table'), table'.hasher = table.hasher,
         todo' = <<>>, moving' = StandsStill, original' = NoTable,
         doomed' = {}, it' = End, Stored(table') = Pairs(map')
  PROVE  TableInv'
<1>1. Emplaces(table', <<>>, StandsStill, map')
  BY NothingWaits
<1>2. EmplacesNow'
  BY <1>1 DEF EmplacesNow
<1>3. CopyKept'
  BY DEF CopyKept, NoTable
<1> QED
  BY <1>2, <1>3 DEF TableInv

\* Of the doomed slots the one deepest in its chain is erased: the erasure moves the
\* end of the chain only, so that the others stay where they are.
LEMMA EraseDeepestKeeps ==
  ASSUME TableInv, EraseDeepest
  PROVE  TableInv'
<1>1. PICK i \in doomed : /\ \A j \in doomed : depth_in_chain(table, i) >= depth_in_chain(table, j)
                          /\ table' = erase(table, i) /\ doomed' = doomed \ {i}
  BY DEF EraseDeepest
<1>2. todo' = todo /\ moving' = moving /\ map' = map /\ it' = it /\ original' = original
  BY DEF EraseDeepest
<1>3. /\ todo = <<>> /\ moving = StandsStill /\ Sound(table) /\ it = End
      /\ Shrinks(table, doomed, map) /\ original = NoTable
      /\ map \in [Keys -> Values \union {None}]
  BY <1>1 DEF TableInv, CopyKept
<1>4. i \in Held(table) /\ doomed \subseteq Held(table)
  BY <1>3 DEF Shrinks
<1>5. PICK u : u = erase(table, i)
  OBVIOUS
<1>6. Sound(u) /\ Same(table, u)
  BY <1>3, <1>4, <1>5, EraseRight
<1>7. PICK x \in Held(table) : GaveUp(table, i, u, x)
  BY <1>3, <1>4, <1>5, EraseRight
<1>7a. /\ Held(u) = Held(table) \ {x}
       /\ x # i => /\ u.slots[i].item = table.slots[x].item
                   /\ depth_in_chain(table, i) \in Nat /\ depth_in_chain(table, x) \in Nat
                   /\ depth_in_chain(table, x) > depth_in_chain(table, i)
       /\ \A j \in Held(table) : j # x /\ j # i => u.slots[j].item = table.slots[j].item
  BY <1>7 DEF GaveUp
<1>8. x # i => x \notin doomed
  <2>1. ASSUME x # i, x \in doomed PROVE FALSE
    <3>1. depth_in_chain(table, i) >= depth_in_chain(table, x)
      BY <1>1, <2>1
    <3>2. PICK a \in Nat, b \in Nat : a = depth_in_chain(table, i) /\ b = depth_in_chain(table, x)
      BY <1>7a, <2>1
    <3> QED
      BY <1>7a, <2>1, <3>1, <3>2
  <2> QED
    BY <2>1
<1>9. PICK left : left = doomed \ {i}
  OBVIOUS
<1>10. left \subseteq Held(u)
  BY <1>4, <1>7a, <1>8, <1>9
<1>11. {u.slots[j].item : j \in Held(u) \ left} = {table.slots[j].item : j \in Held(table) \ doomed}
  <2>1. ASSUME NEW j \in Held(u) \ left
        PROVE  \E k \in Held(table) \ doomed : u.slots[j].item = table.slots[k].item
    BY <1>1, <1>7a, <1>8, <1>9
  <2>2. ASSUME NEW k \in Held(table) \ doomed
        PROVE  \E j \in Held(u) \ left : u.slots[j].item = table.slots[k].item
    <3>1. CASE k = x
      BY <1>1, <1>4, <1>7a, <1>9, <2>2, <3>1
    <3>2. CASE k # x
      BY <1>1, <1>7a, <1>9, <2>2, <3>2
    <3> QED
      BY <3>1, <3>2
  <2> QED
    BY <2>1, <2>2
<1>12. {u.slots[j].item : j \in Held(u) \ left} = Pairs(map)
  BY <1>3, <1>11 DEF Shrinks
<1>13. CASE left = {}
  <2>1. Stored(u) = Pairs(map)
    BY <1>12, <1>13 DEF Stored
  <2> QED
    BY <1>1, <1>2, <1>3, <1>5, <1>6, <1>9, <1>13, <2>1, ErasureEnds DEF Same
<1>14. CASE left # {}
  <2>1. Shrinks(u, left, map)
    BY <1>10, <1>12 DEF Shrinks
  <2> QED
    BY <1>1, <1>2, <1>3, <1>5, <1>6, <1>9, <1>14, <2>1, ErasureBegins DEF Same
<1> QED
  BY <1>13, <1>14

\* A loop goes on below a slot that it needs not come back to.
LEMMA SweepGoesOn ==
  ASSUME map' \in [Keys -> Values \union {None}], Sound(table'), table'.hasher = table.hasher,
         todo' = <<>>, moving' = StandsStill, original' = NoTable, doomed' = {},
         NEW keys, {x \in Stored(table') : KeyOf(x) \notin keys} = Pairs(map'),
         NEW n \in Nat, \A j \in Held(table') : KeyAt(table', j) \in keys => j < n,
         it' = before(table', n), unwanted' = IF it' = End THEN {} ELSE keys
  PROVE  TableInv'
<1>1. PICK t, i : t = table' /\ i = before(t, n)
  OBVIOUS
<1>2. t \in BytellTables /\ Reserved(t) = {}
  BY <1>1 DEF Sound, Filled
<1>3. Held(t) \in SUBSET Nat
  BY <1>2, TableFields DEF Held
<1>4. /\ i = End => \A j \in Held(t) : j >= n
      /\ i # End => i \in Held(t) /\ i < n /\ \A j \in Held(t) : j < n => j <= i
  BY <1>1, <1>2, BeforeRight
<1>5. CASE i = End
  <2>1. \A j \in Held(t) : KeyAt(t, j) \notin keys
    BY <1>1, <1>3, <1>4, <1>5
  <2>2. Stored(t) = Pairs(map')
    BY <1>1, <2>1 DEF Stored, KeyAt
  <2> QED
    BY <1>1, <1>5, <2>2, ErasureEnds
<1>6. CASE i # End
  <2>1. Sweeps(t, i, keys, map')
    BY <1>1, <1>4, <1>6 DEF Sweeps
  <2> QED
    BY <1>1, <1>6, <2>1, ErasureBegins
<1> QED
  BY <1>5, <1>6

\* A pass of the client that erases while it iterates: the iterator goes on to an
\* element it has not seen.
LEMMA EraseNextKeeps ==
  ASSUME TableInv, EraseNext
  PROVE  TableInv'
<1>1. /\ it # End /\ todo' = todo /\ moving' = moving /\ map' = map /\ doomed' = doomed
      /\ original' = original /\ unwanted' = IF it' = End THEN {} ELSE unwanted
      /\ IF KeyAt(table, it) \in unwanted
         THEN table' = erase(table, it) /\ it' = following(table', it)
         ELSE it' = before(table, it) /\ table' = table
  BY DEF EraseNext, KeyAt
<1>2. /\ todo = <<>> /\ moving = StandsStill /\ Sound(table) /\ doomed = {}
      /\ Sweeps(table, it, unwanted, map) /\ original = NoTable
      /\ map \in [Keys -> Values \union {None}]
  BY <1>1 DEF TableInv, CopyKept
<1>3. /\ it \in Held(table) /\ {x \in Stored(table) : KeyOf(x) \notin unwanted} = Pairs(map)
      /\ \A j \in Held(table) : KeyAt(table, j) \in unwanted => j <= it
  BY <1>2 DEF Sweeps
<1>4. table \in BytellTables
  BY <1>2 DEF Sound, Filled
<1>5. Held(table) \in SUBSET Nat
  BY <1>4, TableFields DEF Held
<1>6. CASE KeyAt(table, it) \notin unwanted
  <2>1. \A j \in Held(table) : KeyAt(table, j) \in unwanted => j < it
    <3>1. ASSUME NEW j \in Held(table), KeyAt(table, j) \in unwanted PROVE j < it
      <4>1. j # it
        BY <1>6, <3>1
      <4> QED
        BY <1>3, <1>5, <3>1, <4>1
    <3> QED
      BY <3>1
  <2> QED
    BY <1>1, <1>2, <1>3, <1>5, <1>6, <2>1, SweepGoesOn
<1>7. CASE KeyAt(table, it) \in unwanted
  <2>1. PICK u : u = erase(table, it)
    OBVIOUS
  <2>2. Sound(u) /\ Same(table, u) /\ Stored(u) = Stored(table) \ {table.slots[it].item}
    BY <1>2, <1>3, <2>1, EraseRight
  <2>3. PICK x \in Held(table) : GaveUp(table, it, u, x)
    BY <1>2, <1>3, <2>1, EraseRight
  <2>3a. /\ Held(u) = Held(table) \ {x}
         /\ x # it => u.slots[it].item = table.slots[x].item /\ u.slots[it].kind # "empty"
         /\ x = it => u.slots[it].kind = "empty"
         /\ \A j \in Held(table) : j # x /\ j # it => u.slots[j].item = table.slots[j].item
    BY <2>3 DEF GaveUp
  <2>4. {y \in Stored(u) : KeyOf(y) \notin unwanted} = Pairs(map)
    BY <1>3, <1>7, <2>2 DEF KeyAt
  <2>5. table' = u /\ it' = following(u, it)
    BY <1>1, <1>7, <2>1
  <2>6. \A j \in Held(u) : j # it /\ KeyAt(u, j) \in unwanted => j <= it
    <3>1. ASSUME NEW j \in Held(u), j # it, KeyAt(u, j) \in unwanted PROVE j <= it
      <4>1. j \in Held(table) /\ u.slots[j].item = table.slots[j].item
        BY <2>3a, <3>1
      <4>2. KeyAt(table, j) \in unwanted
        BY <3>1, <4>1 DEF KeyAt
      <4> QED
        BY <1>3, <4>1, <4>2
    <3> QED
      BY <3>1
  <2>7. CASE x # it
    <3>1. it' = it
      BY <2>3a, <2>5, <2>7 DEF following
    <3>2. it \in Held(u) /\ it <= it
      BY <1>3, <1>5, <2>3a, <2>7
    <3>3. Sweeps(u, it, unwanted, map)
      BY <2>4, <2>6, <3>2 DEF Sweeps
    <3> QED
      BY <1>1, <1>2, <2>2, <2>5, <3>1, <3>3, ErasureBegins DEF Same
  <2>8. CASE x = it
    <3>1. it' = before(u, it)
      BY <2>3a, <2>5, <2>8 DEF following
    <3>2. \A j \in Held(u) : KeyAt(u, j) \in unwanted => j < it
      <4>1. ASSUME NEW j \in Held(u), KeyAt(u, j) \in unwanted PROVE j < it
        <5>1. j \in Nat /\ j # it /\ it \in Nat
          BY <1>3, <1>5, <2>3a, <2>8
        <5> QED
          BY <2>6, <4>1, <5>1
      <4> QED
        BY <4>1
    <3> QED
      BY <1>1, <1>2, <1>3, <1>5, <2>2, <2>4, <2>5, <3>1, <3>2, SweepGoesOn DEF Same
  <2> QED
    BY <2>7, <2>8
<1> QED
  BY <1>6, <1>7

\* A step of emplace follows no erasure.
LEMMA EmplaceKeepsInv ==
  ASSUME TableInv, EmplaceStep, UNCHANGED clientVars
  PROVE  TableInv'
<1>1. /\ map' = map /\ doomed' = doomed /\ it' = it /\ unwanted' = unwanted /\ original' = original
  BY DEF clientVars
<1>2. todo # <<>> \/ moving # StandsStill
  BY DEF EmplaceStep, KeyIsKnown, EmplaceDirectHit, EmplaceNewKey, Grow, Displace, Emplacing,
         MoveLast, MoveOne, MoveStuck
<1>3. doomed = {} /\ it = End /\ EmplacesNow /\ CopyKept /\ map \in [Keys -> Values \union {None}]
  BY <1>2 DEF TableInv
<1>4. EmplacesNow' /\ table'.hasher = table.hasher
  BY <1>1, <1>3, EmplaceKeeps
<1>5. CopyKept'
  BY <1>1, <1>3, <1>4 DEF CopyKept, NoTable
<1> QED
  BY <1>1, <1>3, <1>4, <1>5 DEF TableInv

\* The table of each hasher starts right.
LEMMA TableStarts ==
  ASSUME TableInit
  PROVE  TableInv
<1>1. PICK h \in Hashers : table = EmptyTable(h) /\ original = EmptyTable(h)
  BY DEF TableInit
<1>2. todo = <<>> /\ moving = StandsStill /\ map = NoKeys /\ doomed = {} /\ it = End
  BY DEF TableInit
<1>3. h \in [Keys -> 0 .. Words - 1]
  BY ClientAssumption
<1>4. PICK t : t = EmptyTable(h)
  OBVIOUS
<1>5. Sound(t) /\ Stored(t) = {} /\ t.hasher = h
  BY <1>3, <1>4, EmptyTableSound
<1>6. map \in [Keys -> Values \union {None}] /\ Pairs(map) = {}
  BY <1>2 DEF NoKeys, Pairs
<1>7. Emplaces(t, <<>>, StandsStill, map)
  BY <1>5, <1>6, NothingWaits
<1>8. EmplacesNow
  BY <1>1, <1>2, <1>4, <1>7 DEF EmplacesNow
<1>9. CopyKept
  BY <1>1, <1>4, <1>5 DEF CopyKept, NoTable
<1> QED
  BY <1>2, <1>6, <1>8, <1>9 DEF TableInv

\* The invariant reads nothing but these variables.
LEMMA TableStutters ==
  ASSUME TableInv, UNCHANGED mapVars
  PROVE  TableInv'
<1>1. /\ table' = table /\ todo' = todo /\ moving' = moving /\ map' = map /\ doomed' = doomed
      /\ it' = it /\ unwanted' = unwanted /\ original' = original
  BY DEF mapVars, tableVars, clientVars
<1> QED
  BY <1>1 DEF TableInv, EmplacesNow, CopyKept, NoTable

\* In every state the table, what waits, and the map that the client has in mind
\* belong together.
THEOREM TableInvariant == TableSpec => []TableInv
<1>1. TableInit => TableInv
  BY TableStarts
<1>2. TableInv /\ [TableNext]_mapVars => TableInv'
  BY CallKeepsInv, EmplaceKeepsInv, EraseDeepestKeeps, EraseNextKeeps, TableStutters
     DEF TableNext, Loop
<1> QED
  BY <1>1, <1>2, PTL DEF TableSpec

(***************************************************************************)
(* What is promised.                                                       *)
(***************************************************************************)
LEMMA JustOne ==
  ASSUME NEW S, NEW x \in S, \A y \in S : y = x
  PROVE  Cardinality(S) = 1
<1>1. S = {x}
  OBVIOUS
<1> QED
  BY <1>1, FS_Singleton

\* The table with a chain that is moved, or without one.
LEMMA ExactParts ==
  ASSUME TableInv
  PROVE  /\ table \in BytellTables /\ Filled(table)
         /\ moving = StandsStill => Reserved(table) = {} /\ \E d : Ranked(table, d, {})
         /\ moving # StandsStill => ChainMoves(table, moving, item)
<1>1. CASE doomed = {} /\ it = End
  BY <1>1 DEF TableInv, EmplacesNow, Emplaces, Filled, Sound, item
<1>2. CASE doomed # {} \/ it # End
  BY <1>2 DEF TableInv, Filled, Sound
<1> QED
  BY <1>1, <1>2

\* The chains are exact when none is on the move.
LEMMA StillExact ==
  ASSUME TableInv, moving = StandsStill
  PROVE  ChainsExact
<1>1. /\ table \in BytellTables /\ Filled(table) /\ Reserved(table) = {}
  BY ExactParts
<1>2. PICK d : Ranked(table, d, {})
  BY ExactParts
<1>3. Followed(table) \subseteq Held(table)
  BY <1>1, FollowedHeld
<1>4. \A i \in Followed(table) :
        /\ table.slots[next(table, i)].kind = "list"
        /\ find_direct_hit(table, next(table, i)) = find_direct_hit(table, i)
  BY <1>2 DEF Ranked, Listed
<1>5. \A i \in Direct(table) : find_direct_hit(table, i) = i
  BY <1>2 DEF Ranked
<1>6. ASSUME NEW i \in Listed(table)
      PROVE  Cardinality({j \in Followed(table) : next(table, j) = i}) = 1
  <2>1. PICK S : S = {j \in Followed(table) : next(table, j) = i}
    OBVIOUS
  <2>2. PICK x \in S : \A y \in S : y = x
    BY <1>2, <2>1 DEF Ranked
  <2> QED
    BY <2>1, <2>2, JustOne
<1> QED
  BY <1>1, <1>3, <1>4, <1>5, <1>6
     DEF ChainsExact, Filled, Sized, Counted, Held, Reserved, Direct, Listed, Followed

\* The slot of the next element to move is the one that only the new parent may
\* lead to.
LEMMA MovingExact ==
  ASSUME TableInv, moving # StandsStill
  PROVE  ChainsExact
<1>1. table \in BytellTables /\ Filled(table) /\ ChainMoves(table, moving, item)
  BY ExactParts
<1>2. PICK t, above, i : t = table /\ above = moving.parent /\ i = moving.it
  OBVIOUS
<1>3. /\ i \in Listed(t) /\ above \in Held(t) \ {i} /\ find_direct_hit(t, above) = find_direct_hit(t, i)
      /\ has_next(t, above) => next(t, above) = i
      /\ Reserved(t) = {home} \ {i}
  BY <1>1, <1>2 DEF ChainMoves, home
<1>4. PICK v, d : v = set_next(t, above, 0) /\ Ranked(v, d, {i})
  BY <1>1, <1>2 DEF ChainMoves
<1>5. /\ above \in DOMAIN t.slots /\ DOMAIN v.slots = DOMAIN t.slots /\ ~ has_next(v, above)
      /\ Listed(v) = Listed(t) /\ Direct(v) = Direct(t)
      /\ \A j \in DOMAIN t.slots : find_direct_hit(v, j) = find_direct_hit(t, j)
      /\ \A j \in DOMAIN t.slots : j # above => /\ has_next(v, j) <=> has_next(t, j)
                                                /\ next(v, j) = next(t, j)
  BY <1>1, <1>2, <1>3, <1>4, OpenedFields, FollowedHeld DEF Same
<1>6. Followed(t) \subseteq Held(t) /\ \A j \in Held(t) : j \in DOMAIN t.slots
  BY <1>1, <1>2, FollowedHeld
<1>7. \A j \in Followed(v) : j # above /\ j \in Followed(t) /\ next(v, j) = next(t, j)
  BY <1>5 DEF Followed
<1>8. \A j \in Followed(t) : j # above => j \in Followed(v) /\ next(v, j) = next(t, j)
  BY <1>5 DEF Followed
<1>9. ASSUME NEW j \in Followed(t)
      PROVE  /\ next(t, j) \in Listed(t)
             /\ find_direct_hit(t, next(t, j)) = find_direct_hit(t, j)
  <2>1. CASE j = above
    <3>1. next(t, j) = i
      BY <1>3, <2>1 DEF Followed
    <3> QED
      BY <1>3, <2>1, <3>1
  <2>2. CASE j # above
    <3>1. j \in Followed(v) /\ next(v, j) = next(t, j)
      BY <1>8, <2>2
    <3>2. next(v, j) \in Listed(v) /\ find_direct_hit(v, next(v, j)) = find_direct_hit(v, j)
      BY <1>4, <3>1 DEF Ranked
    <3>3. next(t, j) \in DOMAIN t.slots /\ j \in DOMAIN t.slots
      BY <1>5, <1>6, <3>1, <3>2 DEF Listed
    <3> QED
      BY <1>5, <3>1, <3>2, <3>3
  <2> QED
    BY <2>1, <2>2
<1>10. \A j \in Direct(t) : find_direct_hit(t, j) = j
  BY <1>4, <1>5 DEF Ranked, Direct
<1>11. ASSUME NEW x \in Listed(t) \ {i}
       PROVE  Cardinality({j \in Followed(t) : next(t, j) = x}) = 1
  <2>1. PICK S : S = {j \in Followed(t) : next(t, j) = x}
    OBVIOUS
  <2>2. PICK y \in Followed(v) : next(v, y) = x
    BY <1>4, <1>5 DEF Ranked
  <2>3. y \in S
    BY <1>7, <2>1, <2>2
  <2>4. ASSUME NEW z \in S PROVE z = y
    <3>1. z \in Followed(t) /\ next(t, z) = x
      BY <2>1
    <3>2. z # above
      BY <1>3, <3>1 DEF Followed
    <3>3. z \in Followed(v) /\ next(v, z) = x
      BY <1>8, <3>1, <3>2
    <3> QED
      BY <1>4, <2>2, <3>3 DEF Ranked
  <2> QED
    BY <2>1, <2>3, <2>4, JustOne
<1>12. {j \in Followed(t) : next(t, j) = i} \subseteq {above}
  <2>1. ASSUME NEW j \in Followed(t), next(t, j) = i, j # above PROVE FALSE
    <3>1. j \in Followed(v) /\ next(v, j) = i
      BY <1>8, <2>1
    <3> QED
      BY <1>4, <3>1 DEF Ranked
  <2> QED
    BY <2>1
<1>13. /\ Sized(t) /\ Counted(t) /\ i \in Listed(t)
       /\ has_next(t, above) => next(t, above) = i
  BY <1>1, <1>2, <1>3 DEF Filled
<1>14. Reserved(t) = IF i = home THEN {} ELSE {home}
  BY <1>3
<1>15. \A j \in Followed(t) : t.slots[next(t, j)].kind = "list"
  BY <1>9 DEF Listed
<1>16. /\ \A j \in Followed(table) :
            /\ table.slots[next(table, j)].kind = "list"
            /\ find_direct_hit(table, next(table, j)) = find_direct_hit(table, j)
       /\ \A j \in Direct(table) : find_direct_hit(table, j) = j
       /\ Followed(table) \subseteq Held(table)
  BY <1>2, <1>6, <1>9, <1>10, <1>15
<1>17. \A x \in Listed(table) \ {moving.it} :
         Cardinality({j \in Followed(table) : next(table, j) = x}) = 1
  BY <1>2, <1>11
<1>18. /\ moving.it \in Listed(table)
       /\ {j \in Followed(table) : next(table, j) = moving.it} \subseteq {moving.parent}
       /\ has_next(table, moving.parent) => next(table, moving.parent) = moving.it
       /\ Reserved(table) = IF moving.it = home THEN {} ELSE {home}
  BY <1>2, <1>12, <1>13, <1>14
<1>19. Sized(table) /\ Counted(table)
  BY <1>2, <1>13
<1> QED
  BY <1>16, <1>17, <1>18, <1>19
     DEF ChainsExact, Sized, Counted, Held, Reserved, Direct, Listed, Followed

\* A table has as many elements as the map that it stands for has keys.
LEMMA AsManyAsKeys ==
  ASSUME NEW t, Sound(t), NEW m, Stored(t) = Pairs(m)
  PROVE  t.num_elements = Cardinality({k \in Keys : m[k] # None})
<1>1. t \in BytellTables /\ KeysOnce(t) /\ t.num_elements = Cardinality(Held(t))
  BY DEF Sound, Filled, Counted
<1>2. PICK S : S = {k \in Keys : m[k] # None}
  OBVIOUS
<1>3. PICK f : f = [i \in Held(t) |-> KeyAt(t, i)]
  OBVIOUS
<1>4. ASSUME NEW i \in Held(t) PROVE KeyAt(t, i) \in S
  <2>1. t.slots[i].item \in Pairs(m)
    BY DEF Stored
  <2> QED
    BY <1>2, <2>1, PairsFields DEF KeyAt
<1>5. f \in [Held(t) -> S]
  BY <1>3, <1>4
<1>6. \A i, j \in Held(t) : f[i] = f[j] => i = j
  BY <1>1, <1>3 DEF KeysOnce
<1>7. ASSUME NEW k \in S PROVE \E i \in Held(t) : f[i] = k
  <2>1. Item(k, m[k]) \in Stored(t) /\ KeyOf(Item(k, m[k])) = k
    BY <1>2, PairsFields
  <2>2. PICK i \in Held(t) : t.slots[i].item = Item(k, m[k])
    BY <2>1 DEF Stored
  <2>3. f[i] = k
    BY <1>3, <2>1, <2>2 DEF KeyAt
  <2> QED
    BY <2>3
<1>8. f \in Bijection(Held(t), S)
  <2>1. f \in Injection(Held(t), S)
    BY <1>5, <1>6 DEF Injection, IsInjective
  <2>2. f \in Surjection(Held(t), S)
    BY <1>5, <1>7 DEF Surjection
  <2> QED
    BY <2>1, <2>2 DEF Bijection
<1>9. ExistsBijection(Held(t), S)
  BY <1>8 DEF ExistsBijection
<1>10. Cardinality(S) = Cardinality(Held(t))
  BY <1>1, <1>9, HeldFinite, FS_Bijection
<1> QED
  BY <1>1, <1>2, <1>10

\* In a sound table find ( ) tells what the map has for a key.
LEMMA FindIsMap ==
  ASSUME NEW t, Sound(t), NEW m, Stored(t) = Pairs(m), NEW k \in Keys, NEW i, i = find(t, k)
  PROVE  IF m[k] = None THEN i = End ELSE i # End /\ t.slots[i].item = Item(k, m[k])
<1>1. CASE i = End
  <2>1. \A x \in Pairs(m) : KeyOf(x) # k
    BY <1>1, FindIdle DEF End
  <2>2. m[k] = None
    BY <2>1, PairsFields
  <2> QED
    BY <1>1, <2>2
<1>2. CASE i # End
  <2>1. i \in Held(t) /\ KeyAt(t, i) = k
    BY <1>2, FindIdle
  <2>2. t.slots[i].item \in Pairs(m) /\ KeyOf(t.slots[i].item) = k
    BY <2>1 DEF Stored, KeyAt
  <2>3. m[k] # None /\ t.slots[i].item = Item(k, m[k])
    BY <2>2, PairsFields
  <2> QED
    BY <1>2, <2>3
<1> QED
  BY <1>1, <1>2

\* Two tables for the same map are equal.
LEMMA EqualTables ==
  ASSUME NEW t, Sound(t), NEW u, Sound(u), NEW m, Stored(t) = Pairs(m), Stored(u) = Pairs(m)
  PROVE  equal(t, u)
<1>1. t.num_elements = u.num_elements
  BY AsManyAsKeys
<1>2. Used(t) = Held(t)
  <2>1. t \in BytellTables /\ Reserved(t) = {}
    BY DEF Sound, Filled
  <2>2. \A j \in DOMAIN t.slots : t.slots[j].kind \in {"empty", "reserved", "direct", "list"}
    BY <2>1, TableFields, SlotFields
  <2> QED
    BY <2>1, <2>2 DEF Used, Held, Reserved
<1>3. ASSUME NEW i \in Held(t), NEW j, j = find(u, KeyOf(t.slots[i].item))
      PROVE  j # End /\ u.slots[j].item = t.slots[i].item
  <2>1. PICK x \in Pairs(m) : x = t.slots[i].item
    BY DEF Stored
  <2>2. KeyOf(x) \in Keys /\ m[KeyOf(x)] # None /\ x = Item(KeyOf(x), m[KeyOf(x)])
    BY PairsFields
  <2>3. j # End /\ u.slots[j].item = Item(KeyOf(x), m[KeyOf(x)])
    BY <1>3, <2>1, <2>2, FindIsMap
  <2> QED
    BY <2>1, <2>2, <2>3
<1> QED
  BY <1>1, <1>2, <1>3 DEF equal

\* Between two operations the table is the map, and a copy equals its original.
LEMMA IdleExact ==
  ASSUME TableInv
  PROVE  MapExact
<1>1. SUFFICES ASSUME Idle
      PROVE  /\ \A k \in Keys :
                  LET i == find(table, k)
                  IN  IF map[k] = None THEN i = End
                      ELSE i # End /\ table.slots[i].item = Item(k, map[k])
             /\ table.num_elements = Cardinality({k \in Keys : map[k] # None})
             /\ original # NoTable => equal(table, original) /\ equal(original, table)
  BY DEF MapExact
<1>2. Sound(table) /\ Stored(table) = Pairs(map)
  BY <1>1, IdleFields
<1>3. original # NoTable => Sound(original) /\ Stored(original) = Pairs(map)
  BY DEF TableInv, CopyKept
<1>4. \A k \in Keys : IF map[k] = None THEN find(table, k) = End
                      ELSE find(table, k) # End /\ table.slots[find(table, k)].item = Item(k, map[k])
  BY <1>2, FindIsMap
<1> QED
  BY <1>2, <1>3, <1>4, AsManyAsKeys, EqualTables

\* ChainsExact: whatever the hash function, the keys, the jump distances and the
\* sizes are, between any two steps of emplace, erase and rehash every list entry
\* belongs to just one chain, of its home, and nothing else is linked.
THEOREM ChainsAlwaysExact == TableSpec => []ChainsExact
<1>1. TableInv => ChainsExact
  BY StillExact, MovingExact
<1> QED
  BY <1>1, TableInvariant, PTL

\* MapExact: the table is the map: what was last given to a key is found, what was
\* erased is not, and a copy is equal to its original.
THEOREM MapAlwaysExact == TableSpec => []MapExact
<1>1. TableInv => MapExact
  BY IdleExact
<1> QED
  BY <1>1, TableInvariant, PTL

============================================================================
