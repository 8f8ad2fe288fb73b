------------------------- MODULE MCFlatSearchTree -------------------------
(***************************************************************************)
(* FlatSearchTree as TLC checks it, with the refinement of AdjacencyGraph: *)
(* the abstract sequences are what the iterators deliver.                  *)
(***************************************************************************)
EXTENDS FlatSearchTree

Graph ==
  INSTANCE AdjacencyGraph WITH
    ends <- [a \in ArcIDs(tree) |-> <<tree.arcs[a].source, tree.arcs[a].target>>],
    in   <- [n \in NodeIDs(tree) |-> inArcs(tree, n)],
    out  <- [n \in NodeIDs(tree) |-> outArcs(tree, n)],
    it   <- [dir  |-> cursor.dir, node |-> cursor.node,
             pos  |-> Len(cursor.seen), live |-> is_valid(cursor)]

\* Walking the threaded lists gives the same arcs in the same order as a graph
\* that stores a sequence per node, whatever the interleaving of growth and
\* iteration.
ImplementsGraph == Graph!Spec

===========================================================================
