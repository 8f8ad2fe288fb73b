----------------------------- MODULE Traversal -----------------------------
(***************************************************************************)
(* traverseBreadthFirst ( ) (order = "breadth") and traverseDepthFirst ( ) *)
(* (order = "depth") of a fst::SearchTree that its client grows between    *)
(* the calls.  The two functions differ in the end of the work list they   *)
(* take the next node from, and each has its own static visited: one of    *)
(* them is followed over all its calls.  There is one step for every test  *)
(* of the while-loop and every pass of the for-loop.                       *)
(***************************************************************************)
EXTENDS GrownTree

CONSTANT TraverseArcs   \* a bound on the arcs of a tree that is traversed

VARIABLES
  order,        \* which of the two functions
  visited,      \* static: keeps its value from one call to the next
  work,         \* the queue or the stack
  root,         \* the node the walk starts at
  parent, arc,  \* the node whose out-list is walked, and where (a)
  nodesHere,    \* history: the nodes for which the code was at the comment
                \* "All nodes traversed once here"
  arcsHere      \* history: the same for "All arcs traversed once here"

statics == visited
locals  == <<work, root, parent, arc>>
history == <<nodesHere, arcsHere>>
traverseVars == <<order, statics, locals, history>>

TraverseInit ==
  /\ NewlyMade
  /\ order \in {"breadth", "depth"}
  /\ visited = <<>> /\ work = <<>>
  /\ root = invalid /\ parent = invalid /\ arc = invalid
  /\ nodesHere = <<>> /\ arcsHere = <<>>

\* The client adds a node or an arc.
Grow ==
  /\ AddNode \/ AddArc(TraverseArcs)
  /\ UNCHANGED <<statics, locals, history>>

\* After a call its locals are gone; visited stays.
Resume ==
  /\ pc = "returned"
  /\ root' = invalid /\ parent' = invalid
  /\ nodesHere' = <<>> /\ arcsHere' = <<>>
  /\ pc' = "client"
  /\ UNCHANGED <<tree, statics, work, arc>>

(***************************************************************************)
(* The walk.                                                               *)
(***************************************************************************)
\* [Mutants: filled but not resized; resized but not cleared; without the root.]
newVisited_noResize(r) == [n \in DOMAIN visited |-> n = r]
newVisited_noClear(r)  ==
  [n \in NodeIDs(tree) |-> n = r \/ (n \in DOMAIN visited /\ visited[n])]
newVisited_noRoot(r)   == [n \in NodeIDs(tree) |-> FALSE]

newVisited(r) == [n \in NodeIDs(tree) |-> n = r]

Call(r) ==
  /\ pc = "client"
  /\ visited' = newVisited(r)
  /\ work' = <<r>>
  /\ root' = r
  /\ pc' = "while"
  /\ UNCHANGED <<tree, parent, arc, history>>

\* queue.front ( ) and pop_front ( ), or stack.back ( ) and pop_back ( ): what is
\* taken off the list, and what is left of it.
first(q) == <<Head(q), Tail(q)>>
last(q)  == <<q[Len(q)], SubSeq(q, 1, Len(q) - 1)>>

\* [Mutant: the other end of the list.]
take_otherEnd(q) == IF order = "breadth" THEN last(q) ELSE first(q)

take(q) == IF order = "breadth" THEN first(q) ELSE last(q)

Pop ==
  /\ pc = "while" /\ work # <<>>
  /\ parent' = take(work)[1] /\ work' = take(work)[2]
  /\ arc' = beginOut(tree, parent')
  /\ pc' = "for"
  /\ UNCHANGED <<tree, statics, root, history>>

Child == tree.arcs[arc].target

isNew == ~ visited[Child]

FirstVisit ==
  /\ pc = "for" /\ arc # invalid /\ isNew
  /\ visited' = [visited EXCEPT ![Child] = TRUE]
  /\ work' = Append(work, Child)
  /\ nodesHere' = Append(nodesHere, Child)
  /\ arcsHere' = Append(arcsHere, arc)
  /\ arc' = nextOut(tree, arc)
  /\ UNCHANGED <<tree, root, parent, pc>>

\* [Mutant: the arc of a later visit is not visited.]
LaterVisit_skip ==
  /\ pc = "for" /\ arc # invalid /\ ~ isNew
  /\ arc' = nextOut(tree, arc)
  /\ UNCHANGED <<tree, statics, work, root, parent, history, pc>>

LaterVisit ==
  /\ pc = "for" /\ arc # invalid /\ ~ isNew
  /\ arcsHere' = Append(arcsHere, arc)
  /\ arc' = nextOut(tree, arc)
  /\ UNCHANGED <<tree, statics, work, root, parent, nodesHere, pc>>

EndFor ==
  /\ pc = "for" /\ arc = invalid
  /\ pc' = "while"
  /\ UNCHANGED <<tree, statics, locals, history>>

\* [Mutant: the loop tests size ( ) >= 0 and never ends.]
Return_never == pc = "while" /\ work = <<>> /\ UNCHANGED <<tree, pc, traverseVars>>

Return ==
  /\ pc = "while" /\ work = <<>>
  /\ pc' = "returned"
  /\ UNCHANGED <<tree, statics, locals, history>>

Traverse ==
  /\ Pop \/ FirstVisit \/ LaterVisit \/ EndFor \/ Return
  /\ UNCHANGED order

Client ==
  /\ Grow \/ Resume \/ \E r \in NodeIDs(tree) : Call(r)
  /\ UNCHANGED order

TraverseNext == Client \/ Traverse

---------------------------------------------------------------------------
InUse(q) == {q[i] : i \in 1 .. Len(q)}
Distinct(q) == \A i, j \in 1 .. Len(q) : i # j => q[i] # q[j]

Met == {root} \union InUse(nodesHere)

TraverseTypes ==
  /\ IsTree(tree, {NoData})
  /\ order \in {"breadth", "depth"}
  /\ pc \in {"client", "while", "for", "returned"}
  /\ visited \in Seq(BOOLEAN)
  /\ work \in Seq(NodeIDs(tree))
  /\ pc \in {"while", "for"} => root \in NodeIDs(tree) /\ DOMAIN visited = NodeIDs(tree)
  /\ pc = "for" => parent \in NodeIDs(tree) /\ arc \in ArcIDs(tree) \union {invalid}
  /\ nodesHere \in Seq(NodeIDs(tree)) /\ arcsHere \in Seq(ArcIDs(tree))

\* (Part of TraverseLoopInv.)  visited, which the calls share, is at every step exactly
\* what this call has met, whatever the calls before it left there.
VisitedIsMet ==
  pc \in {"while", "for"} => {n \in NodeIDs(tree) : visited[n]} = Met

\* (Part of TraverseLoopInv.)  Between two nodes of the while-loop the work list has no
\* node twice, and a node that was met is either on it, with none of its
\* out-arcs walked, or has all of them walked.
WorkLeft ==
  pc = "while" =>
    /\ Distinct(work) /\ InUse(work) \subseteq Met
    /\ \A a \in ArcIDs(tree) :
         a \in InUse(arcsHere) <=> tree.arcs[a].source \in Met \ InUse(work)

\* Why the loop walks everything once: the static vector is right although it is
\* used again after the tree has grown, and what was met but not walked from is
\* on the work list, once.
TraverseLoopInv == VisitedIsMet /\ WorkLeft

\* "All arcs traversed once here": the arcs walked are those of the part of the
\* tree below the root of the walk, each once.
PassesArcsOnce ==
  /\ Distinct(arcsHere)
  /\ pc = "returned" =>
       InUse(arcsHere) = {a \in ArcIDs(tree) : tree.arcs[a].source \in Reach(tree, root)}

\* A walk meets what its root leads to, and a node other than the root is met
\* for the first time once.
MeetsReachOnce ==
  /\ Distinct(nodesHere) /\ root \notin InUse(nodesHere)
  /\ pc = "returned" => Met = Reach(tree, root)

\* Breadth first: the walk never goes on from a node to one nearer to its root.
Distance(n) == CHOOSE k \in 0 .. Len(tree.nodes) :
                 /\ n \in Within(tree, root, k)
                 /\ \A i \in 0 .. k - 1 : n \notin Within(tree, root, i)

NearestStep == order = "breadth" /\ Pop /\ parent # invalid => Distance(parent) <= Distance(parent')

\* Depth first: when the node the walk leaves was the first to lead to some
\* children, the walk goes on with the last of them.
MetFrom(n) ==
  LET led == CHOOSE i \in 1 .. Len(arcsHere) :
                 /\ tree.arcs[arcsHere[i]].target = n
                 /\ \A j \in 1 .. i - 1 : tree.arcs[arcsHere[j]].target # n
  IN  tree.arcs[arcsHere[led]].source

DeeperStep ==
  order = "depth" /\ Pop /\ nodesHere # <<>> =>
    LET met == nodesHere[Len(nodesHere)]
    IN  MetFrom(met) = parent => parent' = met

============================================================================
