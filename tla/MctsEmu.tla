------------------------------ MODULE MctsEmu ------------------------------
(***************************************************************************)
(* The driver main986986 of MCTSSearchTree/main.cpp with the functions of  *)
(* mcts_emu.hpp: a fst::SearchTree whose nodes own their untried moves and *)
(* whose arcs carry the moves that were played.  An iteration descends     *)
(* from the root as long as a coin says so and there is a child, then      *)
(* expands the node it has reached if another coin says so and the node    *)
(* has untried moves.                                                      *)
(***************************************************************************)
EXTENDS FlatTree, Moves

CONSTANTS NoMove,       \* the move of the root arc, which nothing sets
          Iterations    \* cnt: 2^22 in the code

ASSUME DriverAssumption ==
  NoMove \notin Move /\ Iterations \in Nat \ {0}

VARIABLES tree, node, cnt, pc

vars == <<tree, node, cnt, pc>>

\* [Mutant: any node is taken to have moves.]
hasMoves_always(T, n) == TRUE

hasMoves(T, n) == T.nodes[n].data.m_size # 0

hasChild(T, n) == T.nodes[n].out_size # 0

\* selectChild: the target of the k-th arc of the out-list, k drawn from
\* 0 .. outArcNum - 1.
selectChild(T, n) == {T.arcs[outArcs(T, n)[k]].target : k \in 1 .. outArcNum(T, n)}

\* The tree after take at index i of the moves of n.
taken(T, n, i) ==
  [T EXCEPT !.nodes = [T.nodes EXCEPT ![n] =
                         [T.nodes[n] EXCEPT !.data = take(T.nodes[n].data, i)]]]

\* addChild ( tree, n ) with the moves d for the new node and index i drawn.
\* [Mutant: the ends of the arc are swapped.]
addChild_swapped(T, n, d, i) ==
  LET target == Len(T.nodes) + 1
  IN  addArc(taken(addNode(T, d), n, i), target, n, T.nodes[n].data.m_moves[i])

addChild(T, n, d, i) ==
  LET target == Len(T.nodes) + 1
  IN  addArc(taken(addNode(T, d), n, i), n, target, T.nodes[n].data.m_moves[i])

----------------------------------------------------------------------------
Init ==
  /\ \E d \in getMoves : tree = NewTree(NoMove, d)
  /\ node = root_node
  /\ cnt = Iterations
  /\ pc = "test"

\* while ( --cnt )
\* [Mutant: the counter is tested and not decremented.]
Test_noDecrement ==
  /\ pc = "test"
  /\ pc' = IF cnt = 0 THEN "done" ELSE "descend"
  /\ UNCHANGED <<tree, node, cnt>>

Test ==
  /\ pc = "test"
  /\ cnt' = cnt - 1
  /\ pc' = IF cnt' = 0 THEN "done" ELSE "descend"
  /\ UNCHANGED <<tree, node>>

\* The inner loop: a pass, and its end, which the coin may bring at any time
\* and which a node without a child brings.
Descend ==
  /\ pc = "descend"
  /\ hasChild(tree, node)
  /\ node' \in selectChild(tree, node)
  /\ UNCHANGED <<tree, cnt, pc>>

Stop ==
  /\ pc = "descend"
  /\ pc' = "expand"
  /\ UNCHANGED <<tree, node, cnt>>

\* The if, and the return to the root.
Back == node' = root_node /\ pc' = "test" /\ UNCHANGED cnt

AddChild ==
  /\ pc = "expand"
  /\ hasMoves(tree, node)
  /\ \E d \in getMoves, i \in Draws(tree.nodes[node].data) :
       tree' = addChild(tree, node, d, i)
  /\ Back

Skip == pc = "expand" /\ UNCHANGED tree /\ Back

Next == Test \/ Descend \/ Stop \/ AddChild \/ Skip

\* One thread runs the driver and nothing can block it.
Spec == Init /\ [][Next]_vars /\ WF_vars(Next)

----------------------------------------------------------------------------
\* The moves that were played from n, with the arcs that carry them.
Played(n, v) == {a \in ArcIDs(tree) : tree.arcs[a].source = n /\ tree.arcs[a].data = v}

\* A move goes from the array of its node to an arc, and taking it reorders
\* the array.  For each node, each move is at any time untried or played, once:
\* no two arcs of a node are the same move and no move is lost.  In particular
\* no move is taken from a node that has none left.
MovesBecomeArcs ==
  \A n \in NodeIDs(tree) :
    /\ tree.nodes[n].data \in MovesValue
    /\ \A v \in Move :
         Count(tree.nodes[n].data, v) + Cardinality(Played(n, v)) = 1

\* The driver grows a tree: each node but the root is entered by one arc, from
\* an older node.  (fst is a graph and promises none of this.)
GrowsTree ==
  \A n \in NodeIDs(tree) \ {root_node} :
    \E a \in ArcIDs(tree) :
      /\ ArcsInto(tree, n, Len(tree.arcs)) = {a}
      /\ tree.arcs[a].source < n

\* The driver ends.  The coins are not assumed to be fair: a descent that is
\* never stopped ends at a leaf, because an arc that addChild adds leads to the
\* newest node and no cycle can arise.
Terminates == <>(pc = "done")

============================================================================
