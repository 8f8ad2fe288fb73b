----------------------------- MODULE NaryTrees -----------------------------
(***************************************************************************)
(* The two n-ary trees with their clients: fsnt (NaryTree) and fsntu       *)
(* (NaryTreeUni).  They share nothing; which one it is, is fixed in Init,  *)
(* and the other stays empty.                                              *)
(***************************************************************************)
EXTENDS NaryTree

CONSTANT MaxAdds   \* bound on the payloads of the second

VARIABLES
  kind,   \* "fsnt" or "fsntu"
  unodes, ucursor, sub, root, visited, stack, parent, child, pc, added, orig

U == INSTANCE NaryTreeUni WITH nodes <- unodes, cursor <- ucursor

uniVars == <<unodes, ucursor, sub, root, visited, stack, parent, child, pc, added, orig>>
bothVars == <<kind, vars, uniVars>>

BothInit ==
  /\ kind \in {"fsnt", "fsntu"}
  /\ Init /\ U!Init
  /\ kind = "fsnt" => unodes = U!Empty
  /\ kind = "fsntu" => last = 0

BothNext ==
  \/ kind = "fsnt" /\ Next /\ UNCHANGED <<kind, uniVars>>
  \/ kind = "fsntu" /\ U!Next /\ UNCHANGED <<kind, vars>>

\* root runs on the thread of its caller, which waits for it.
BothSpec ==
  BothInit /\ [][BothNext]_bothVars /\ WF_bothVars(kind = "fsntu" /\ U!Root /\ UNCHANGED <<kind, vars>>)

---------------------------------------------------------------------------
\* Every id is in range; and in every fsntu tree, after every renumbering, the lists
\* are exact and the client can go up from any node and gets to the root.
TreesExact == TypeOK /\ U!TypeOK /\ U!TreeExact

\* An out_iterator of fsntu delivers what was in the list when it was created, newest
\* first, and nothing of what is added under it.
DeliversSnapshot == U!DeliversSnapshot

\* root keeps the nodes below the new root, each with its payload and its
\* children, and nothing else, with the siblings in the opposite order.
RootExact == [][U!RootStep]_uniVars

\* flatten keeps the root and its children, in the opposite order, as leaves.
FlattenExact == [][U!FlattenStep]_uniVars

\* root returns, also for a root that is its own child.
Returns == (pc = "while") ~> (pc = "client")

============================================================================
