----------------------------- MODULE TreeWalks -----------------------------
(***************************************************************************)
(* A fst::SearchTree whose client grows it and calls one of the functions  *)
(* that walk it, again and again: a traversal or the topological sort.     *)
(* The static vectors of the functions are different ones, so that calls   *)
(* of one do not touch what the other goes on with; which function it is,  *)
(* is fixed in Init.                                                       *)
(***************************************************************************)
EXTENDS Traversal, TopologicalSort

VARIABLE walk   \* "traverse" or "sort"

vars == <<walk, tree, pc, traverseVars, sortVars>>

Init ==
  /\ walk \in {"traverse", "sort"}
  /\ TraverseInit /\ SortInit
  /\ walk = "sort" => order = "depth"   \* not used

TraverseStep == walk = "traverse" /\ TraverseNext /\ UNCHANGED <<walk, sortVars>>
SortStep == walk = "sort" /\ SortNext /\ UNCHANGED <<walk, traverseVars>>

Next == TraverseStep \/ SortStep

\* The function runs on the thread of its caller, which waits for it.
Fairness ==
  /\ WF_vars(walk = "traverse" /\ Traverse /\ UNCHANGED <<walk, sortVars>>)
  /\ WF_vars(walk = "sort" /\ Sort /\ UNCHANGED <<walk, traverseVars>>)

Spec == Init /\ [][Next]_vars /\ Fairness

---------------------------------------------------------------------------
\* What each function goes on with is right at every step although its static
\* vector is used again after the tree has grown (VisitedIsMet, WorkLeft,
\* SortedOnce and RemovedAreSorted), and every id is in range.
LoopInv ==
  /\ walk = "traverse" => TraverseTypes /\ TraverseLoopInv
  /\ walk = "sort" => SortTypes /\ SortLoopInv

\* "All arcs traversed once here": the arcs walked are those of the part of the
\* tree below the root of the walk, each once.
ArcsOnce == walk = "traverse" => PassesArcsOnce

\* A walk meets what its root leads to, and a node other than the root is met
\* for the first time once.
ReachMetOnce == walk = "traverse" => MeetsReachOnce

\* Breadth first: the walk never goes on from a node to one nearer to its root.
NearestFirst == [][NearestStep]_vars

\* Depth first: when the node the walk leaves was the first to lead to some
\* children, the walk goes on with the last of them.
DeeperFirst == [][DeeperStep]_vars

\* In the result of the sort each node comes after the sources of all its
\* in-arcs, and the root first.
Topological == InOrder

\* The sort leaves a node out exactly when it lies on or behind a cycle, or has
\* an in-arc from a node the root does not lead to.
SortsLeastSet == walk = "sort" => LeastSet

\* A call of any of them returns, whatever the tree.
Returns == (pc = "while") ~> (pc = "returned")

============================================================================
