------------------------------ MODULE HashTree ------------------------------
(***************************************************************************)
(* fsth::SearchTree (include/flat_search_tree_hash.hpp): the tree of       *)
(* FlatTree with a transposition table, from the hash of a position to its *)
(* node.  The client looks a position up before it adds it, and goes on    *)
(* with the sub-tree that makeSubTree returns.                             *)
(*                                                                         *)
(* A payload is an integer, a type that converts to Hash: for other types  *)
(* makeSubTree does not compile, because it passes a payload where addNode *)
(* expects a hash.                                                         *)
(***************************************************************************)
EXTENDS Reachability

CONSTANTS Hashes,     \* hashes of the positions the client adds
          Data,       \* payloads of the nodes
          RootHash,   \* root_hash
          MaxNodes, MaxArcs

ASSUME HashAssumption == /\ Hashes \subseteq Nat /\ Data \subseteq Nat
                         /\ RootHash \in Nat \ (Hashes \union Data)

VARIABLES
  tree,      \* m_arcs and m_nodes
  m_trans,   \* the table: a function from hashes to nodes
  added,     \* history: added[n] is the hash and the payload of node n
  made       \* history: the tree was returned by makeSubTree

vars == <<tree, m_trans, added, made>>

NoArcData == 0
Unset == -1    \* the payload of a node that is constructed without one

\* What a new node stores: its first argument is the hash, only the rest are
\* the payload.
payload(args) == IF Len(args) < 2 THEN Unset ELSE args[2]

\* A tree and its table.
HashTree(T, trans) == [tree |-> T, trans |-> trans]

NewHashTree(d) == HashTree(NewTree(NoArcData, d), [h \in {RootHash} |-> root_node])

\* m_trans.emplace: a hash that is known keeps its node.
emplace(trans, h, id) ==
  [g \in DOMAIN trans \union {h} |-> IF g \in DOMAIN trans THEN trans[g] ELSE id]

\* A hash that is not in the table gives the invalid id.
contains(trans, h) == IF h \in DOMAIN trans THEN trans[h] ELSE invalid

\* [Mutants: the node is not entered in the table; it is entered with the id of
\* the next one.]
addHashed_unlisted(S, h, args) == HashTree(addNode(S.tree, payload(args)), S.trans)

addHashed_nextId(S, h, args) ==
  HashTree(addNode(S.tree, payload(args)), emplace(S.trans, h, Len(S.tree.nodes) + 2))

\* addNode ( hash, args ): the hash goes to the table, and only the arguments
\* after it to the node.
addHashed(S, h, args) ==
  HashTree(addNode(S.tree, payload(args)), emplace(S.trans, h, Len(S.tree.nodes) + 1))

(***************************************************************************)
(* makeSubTree, on a record of its sub_tree, visited and stack; the latter *)
(* two are static here, and cleared by every call.                         *)
(***************************************************************************)
started(T, r) ==
  [sub     |-> NewHashTree(T.nodes[r].data),
   visited |-> [n \in NodeIDs(T) |-> IF n = r THEN root_node ELSE invalid],
   stack   |-> <<r>>]

\* A child that is not visited yet gets a node: addNode ( payload ), one
\* argument, which is the hash.
meet(T, L, child) ==
  IF L.visited[child] # invalid THEN L
  ELSE [sub     |-> addHashed(L.sub, T.nodes[child].data, <<>>),
        visited |-> [L.visited EXCEPT ![child] = Len(L.sub.tree.nodes) + 1],
        stack   |-> Append(L.stack, child)]

\* [Mutant: the arc is copied for a child that is new only.]
copyArc_newOnly(T, L, a) ==
  LET M == meet(T, L, T.arcs[a].target)
  IN  IF M = L THEN L
      ELSE [M EXCEPT !.sub.tree = addArc(@, M.visited[T.arcs[a].source],
                                         M.visited[T.arcs[a].target], T.arcs[a].data)]

\* A pass of the for-loop.
copyArc(T, L, a) ==
  LET M == meet(T, L, T.arcs[a].target)
  IN  [M EXCEPT !.sub.tree = addArc(@, M.visited[T.arcs[a].source],
                                    M.visited[T.arcs[a].target], T.arcs[a].data)]

\* A turn of the while-loop.
turn(T, L) ==
  LET parent == L.stack[Len(L.stack)]
      out == outArcs(T, parent)
      pass[i \in 0 .. Len(out)] ==
        IF i = 0 THEN [L EXCEPT !.stack = SubSeq(@, 1, Len(@) - 1)]
                 ELSE copyArc(T, pass[i - 1], out[i])
  IN  pass[Len(out)]

\* The loop ends within as many turns as there are nodes: each is pushed once.
makeSubTree(T, r) ==
  LET loop[k \in 0 .. Len(T.nodes)] ==
        IF k = 0 THEN started(T, r)
        ELSE IF loop[k - 1].stack = <<>> THEN loop[k - 1]
        ELSE turn(T, loop[k - 1])
  IN  loop[Len(T.nodes)]

(***************************************************************************)
(* The client.                                                             *)
(***************************************************************************)
This == HashTree(tree, m_trans)

Become(S) == tree' = S.tree /\ m_trans' = S.trans

Init ==
  /\ \E d \in Data : /\ tree = NewHashTree(d).tree /\ m_trans = NewHashTree(d).trans
                     /\ added = << [hash |-> RootHash, data |-> d] >>
  /\ made = FALSE

\* A position that the table does not have is added, with its hash and its
\* payload.
AddNode ==
  /\ Len(tree.nodes) < MaxNodes
  /\ \E h \in Hashes, d \in Data :
       /\ contains(m_trans, h) = invalid
       /\ Become(addHashed(This, h, <<h, d>>))
       /\ added' = Append(added, [hash |-> h, data |-> d])
  /\ UNCHANGED made

\* An arc to a position: one of the table, which may be a transposition.
AddArc ==
  /\ Len(tree.arcs) < MaxArcs
  /\ \E s \in NodeIDs(tree), h \in Hashes \union {RootHash} :
       /\ contains(m_trans, h) # invalid
       /\ tree' = addArc(tree, s, contains(m_trans, h), NoArcData)
  /\ UNCHANGED <<m_trans, added, made>>

\* The client goes on with the sub-tree.  Its nodes stand for the positions
\* they stood for before.
MakeSubTree(r) ==
  /\ r # root_node
  /\ LET L == makeSubTree(tree, r)
     IN  /\ Become(L.sub)
         /\ added' = [i \in NodeIDs(L.sub.tree) |->
                        added[CHOOSE n \in NodeIDs(tree) : L.visited[n] = i]]
  /\ made' = TRUE

Next == AddNode \/ AddArc \/ \E r \in NodeIDs(tree) : MakeSubTree(r)

Spec == Init /\ [][Next]_vars

---------------------------------------------------------------------------
\* The table never names a node that does not exist, nor two hashes the same
\* node, and the root is found under root_hash: in the tree of the client and
\* in the one makeSubTree builds with a table of its own.
TypeOK ==
  /\ IsTree(tree, Int)
  /\ DOMAIN added = NodeIDs(tree)
  /\ m_trans \in [DOMAIN m_trans -> NodeIDs(tree)] /\ DOMAIN m_trans \subseteq Int
  /\ \A g, h \in DOMAIN m_trans : m_trans[g] = m_trans[h] => g = h
  /\ contains(m_trans, RootHash) = root_node
  /\ made \in BOOLEAN

\* A position is one node: no two nodes were added under the same hash.
OneNodePerHash == \A m, n \in NodeIDs(tree) : added[m].hash = added[n].hash => m = n

\* "A non-existing hash_ returns a NodeID::invalid ( )".
NonExistingIsInvalid ==
  \A h \in Hashes : contains(m_trans, h) # invalid
                      => \E n \in NodeIDs(tree) : added[n].hash = h

\* A node has the payload it was added with.
PayloadKept == \A n \in NodeIDs(tree) : tree.nodes[n].data = added[n].data

\* The table names nodes that exist, each once; and until a sub-tree is made it
\* is exact: a position is found at the one node that was added for it, which
\* has its payload, and no other is found.
TableExact ==
  /\ TypeOK
  /\ ~ made => /\ \A n \in NodeIDs(tree) : contains(m_trans, added[n].hash) = n
               /\ OneNodePerHash /\ NonExistingIsInvalid /\ PayloadKept

\* The sub-tree at r has the nodes that r leads to, and at each of them the same
\* arcs in the same order.  Its table has the payload of every node but the root,
\* and leads to the first node that has it.
KeepsArcs(r) ==
  LET visited == makeSubTree(tree, r).visited
      kept == Reach(tree, r)
  IN  /\ kept = {n \in NodeIDs(tree) : visited[n] # invalid}
      /\ \A n \in kept :
           LET old == outArcs(tree, n)
               new == outArcs(tree', visited[n])
           IN  /\ Len(new) = Len(old)
               /\ \A i \in 1 .. Len(old) :
                    tree'.arcs[new[i]].target = visited[tree.arcs[old[i]].target]
      /\ \A n \in kept \ {r} :
           LET same == {m \in kept \ {r} : tree.nodes[m].data = tree.nodes[n].data}
               first == contains(m_trans', tree.nodes[n].data)
           IN  (\E m \in same : visited[m] = first) /\ \A m \in same : first <= visited[m]

\* What makeSubTree keeps is the graph below the new root, no more and no less.
SubTreeKeepsArcs == [][\A r \in NodeIDs(tree) : MakeSubTree(r) => KeepsArcs(r)]_vars

============================================================================
