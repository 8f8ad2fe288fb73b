-------------------------- MODULE TopologicalSort --------------------------
(***************************************************************************)
(* topologicalSort ( ) of a fst::SearchTree (Kahn's algorithm) that its    *)
(* client grows between the calls.  There is one step for every test of    *)
(* the while-loop and every pass of the for-loop over the out-arcs; the    *)
(* inner loop over the in-arcs of the target only reads, and is part of    *)
(* that step.                                                              *)
(***************************************************************************)
EXTENDS GrownTree

CONSTANT SortArcs   \* a bound on the arcs of a tree that is sorted

VARIABLES
  removed_arcs,  \* static: keeps its value from one call to the next
  stack,
  sorted,        \* the result
  out            \* the out-arc of the last node of sorted the loop stands on

sortLocals == <<stack, sorted, out>>
sortVars   == <<removed_arcs, sortLocals>>

SortInit ==
  /\ NewlyMade
  /\ removed_arcs = <<>>
  /\ stack = <<>> /\ sorted = <<>> /\ out = invalid

\* The client adds a node or an arc.
GrowMore == (AddNode \/ AddArc(SortArcs)) /\ UNCHANGED sortVars

ResumeSorted ==
  /\ pc = "returned"
  /\ sorted' = <<>>
  /\ pc' = "client"
  /\ UNCHANGED <<tree, removed_arcs, stack, out>>

(***************************************************************************)
(* The sort.                                                               *)
(***************************************************************************)
\* [Mutants: sized by the nodes; resized but not cleared.]
newRemoved_nodesSize == [a \in NodeIDs(tree) |-> FALSE]
newRemoved_noClear   ==
  [a \in ArcIDs(tree) |-> a \in DOMAIN removed_arcs /\ removed_arcs[a]]

newRemoved == [a \in ArcIDs(tree) |-> FALSE]

CallSort ==
  /\ pc = "client"
  /\ removed_arcs' = newRemoved
  /\ stack' = <<root_node>>
  /\ pc' = "while"
  /\ UNCHANGED <<tree, sorted, out>>

PopNode ==
  /\ pc = "while" /\ stack # <<>>
  /\ LET n == stack[Len(stack)]
     IN  sorted' = Append(sorted, n) /\ out' = beginOut(tree, n)
  /\ stack' = SubSeq(stack, 1, Len(stack) - 1)
  /\ pc' = "for"
  /\ UNCHANGED <<tree, removed_arcs>>

\* [Mutants: the test looks at the first in-arc only; it does not see the arc
\* removed just now.]
has_no_in_arcs_firstIn(n, removed) == removed[beginIn(tree, n)]
has_no_in_arcs_stale(n, removed)   ==
  \A i \in 1 .. Len(inArcs(tree, n)) : removed_arcs[inArcs(tree, n)[i]]

has_no_in_arcs(n, removed) ==
  \A i \in 1 .. Len(inArcs(tree, n)) : removed[inArcs(tree, n)[i]]

\* One out-arc is removed; its target is pushed when that was its last in-arc.
RemoveArc ==
  /\ pc = "for" /\ out # invalid
  /\ removed_arcs' = [removed_arcs EXCEPT ![out] = TRUE]
  /\ LET target == tree.arcs[out].target
     IN  stack' = IF has_no_in_arcs(target, removed_arcs')
                  THEN Append(stack, target) ELSE stack
  /\ out' = nextOut(tree, out)
  /\ UNCHANGED <<tree, sorted, pc>>

EndRemovals ==
  /\ pc = "for" /\ out = invalid
  /\ pc' = "while"
  /\ UNCHANGED <<tree, removed_arcs, sortLocals>>

\* [Mutant: the loop tests size ( ) >= 0 and never ends.]
ReturnSorted_never == pc = "while" /\ stack = <<>> /\ UNCHANGED <<tree, pc, sortVars>>

ReturnSorted ==
  /\ pc = "while" /\ stack = <<>>
  /\ pc' = "returned"
  /\ UNCHANGED <<tree, removed_arcs, sortLocals>>

Sort == PopNode \/ RemoveArc \/ EndRemovals \/ ReturnSorted

SortNext == GrowMore \/ ResumeSorted \/ CallSort \/ Sort

---------------------------------------------------------------------------
Sorted == {sorted[i] : i \in 1 .. Len(sorted)}

SortTypes ==
  /\ IsTree(tree, {NoData})
  /\ removed_arcs \in Seq(BOOLEAN)
  /\ stack \in Seq(NodeIDs(tree)) /\ sorted \in Seq(NodeIDs(tree))
  /\ pc \in {"client", "while", "for", "returned"}
  /\ pc \in {"while", "for"} => DOMAIN removed_arcs = ArcIDs(tree)
  /\ pc = "for" => sorted # <<>> /\ out \in ArcIDs(tree) \union {invalid}

\* (Part of SortLoopInv.)  No node is sorted twice, or waits to be while it is sorted: a node is pushed
\* by the removal of its last in-arc, and no arc is removed twice.  The root has
\* an in-arc that is never removed, so an arc back to the root does not push it
\* again.
SortedOnce ==
  /\ \A i, j \in 1 .. Len(sorted) : i # j => sorted[i] # sorted[j]
  /\ \A i, j \in 1 .. Len(stack) : i # j => stack[i] # stack[j]
  /\ \A i \in 1 .. Len(stack) : stack[i] \notin Sorted

\* Each node comes after the sources of all its in-arcs, over all the arcs of
\* the tree, and the root first.
InOrder ==
  /\ sorted # <<>> => sorted[1] = root_node
  /\ \A a \in ArcIDs(tree) : \A i \in 1 .. Len(sorted) :
       tree.arcs[a].target = sorted[i] /\ i # 1
         => \E j \in 1 .. i - 1 : sorted[j] = tree.arcs[a].source

\* (Part of SortLoopInv.)  The arcs that are removed are the ones that leave the sorted nodes, but for
\* the ones the for-loop still has to remove.
RemovedAreSorted ==
  pc = "while" =>
    \A a \in ArcIDs(tree) : removed_arcs[a] <=> tree.arcs[a].source \in Sorted

\* Why the sort lists a node once although its work list and its static vector do
\* not say what was sorted: the removed arcs do.
SortLoopInv == SortedOnce /\ RemovedAreSorted

\* A node is ready when it is not the root, has an in-arc, and every in-arc
\* comes from a node of S.
Ready(S) ==
  {n \in NodeIDs(tree) \ {root_node} :
     LET ins == ArcsInto(tree, n, Len(tree.arcs))
     IN  ins # {} /\ \A a \in ins : tree.arcs[a].source \in S}

\* The result is the least set of nodes with the root and all the nodes that
\* are ready: a node is left out exactly when it lies on or behind a cycle, or
\* has an in-arc from a node the root does not lead to.
LeastSet ==
  pc = "returned" =>
    /\ root_node \in Sorted /\ Ready(Sorted) \subseteq Sorted
    /\ \A S \in SUBSET NodeIDs(tree) :
         root_node \in S /\ Ready(S) \subseteq S => Sorted \subseteq S

============================================================================
