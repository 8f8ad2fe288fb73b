----------------------------- MODULE GrownTree -----------------------------
(***************************************************************************)
(* A fst::SearchTree that its client grows between the calls of a function *)
(* that walks it: what Traversal and TopologicalSort have in common.       *)
(***************************************************************************)
EXTENDS Reachability

CONSTANTS MaxNodes,   \* a bound on the tree that is grown
          NoData      \* the payload of every element

VARIABLES tree,
          pc          \* "client", "while", "for" or "returned"

NewlyMade == tree = NewTree(NoData, NoData) /\ pc = "client"

AddNode ==
  /\ pc = "client" /\ Len(tree.nodes) < MaxNodes
  /\ tree' = addNode(tree, NoData)
  /\ UNCHANGED pc

AddArc(maxArcs) ==
  /\ pc = "client" /\ Len(tree.arcs) < maxArcs
  /\ \E s, t \in NodeIDs(tree) : tree' = addArc(tree, s, t, NoData)
  /\ UNCHANGED pc

============================================================================
