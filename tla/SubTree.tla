------------------------------ MODULE SubTree ------------------------------
(***************************************************************************)
(* makeSubTree ( ) of a fst::SearchTree: a client grows a tree, calls      *)
(* makeSubTree on one of its nodes and goes on with the tree it gets.      *)
(* There is one step for every test of the while-loop and every pass of    *)
(* the for-loop of the function.                                           *)
(*                                                                         *)
(* A payload is the id its element had when it was added, so that payloads *)
(* that end up on the wrong element, or are read after they were moved     *)
(* from, can be told apart.                                                *)
(***************************************************************************)
EXTENDS Reachability

CONSTANTS MaxNodes, MaxArcs  \* bounds on the tree that is grown

NoData == 0     \* the payload of a default-constructed arc
Moved  == -1    \* what std::move leaves behind

VARIABLES
  tree,         \* the tree (*this)
  sub,          \* sub_tree
  root,         \* root_node_to_be_
  visited,      \* visited[n]: the id in sub of node n, or invalid
  stack,
  parent, arc,  \* the node whose out-list is walked, and where (a)
  pc,           \* "client", "while", "for" or "returned"
  orig          \* history: the tree at the call

loopVars == <<root, visited, stack, parent, arc, orig>>
vars == <<tree, sub, loopVars, pc>>

NoTree == NewTree(NoData, NoData)

Init ==
  /\ tree = NewTree(NoData, root_node)
  /\ sub = NoTree /\ orig = NoTree
  /\ root = invalid /\ visited = <<>> /\ stack = <<>>
  /\ parent = invalid /\ arc = invalid
  /\ pc = "client"

(***************************************************************************)
(* The client.                                                             *)
(***************************************************************************)
AddNode ==
  /\ pc = "client" /\ Len(tree.nodes) < MaxNodes
  /\ tree' = addNode(tree, Len(tree.nodes) + 1)
  /\ UNCHANGED <<sub, loopVars, pc>>

AddArc ==
  /\ pc = "client" /\ Len(tree.arcs) < MaxArcs
  /\ \E s, t \in NodeIDs(tree) : tree' = addArc(tree, s, t, Len(tree.arcs) + 1)
  /\ UNCHANGED <<sub, loopVars, pc>>

\* The client replaces its tree by the one makeSubTree returned; the locals of
\* the call are gone.
Adopt ==
  /\ pc = "returned"
  /\ tree' = sub
  /\ sub' = NoTree /\ orig' = NoTree
  /\ root' = invalid /\ visited' = <<>> /\ stack' = <<>>
  /\ parent' = invalid /\ arc' = invalid
  /\ pc' = "client"

(***************************************************************************)
(* makeSubTree.                                                            *)
(***************************************************************************)
takeNode(T, n) == [T EXCEPT !.nodes = [T.nodes EXCEPT ![n] = [T.nodes[n] EXCEPT !.data = Moved]]]
takeArc(T, a)  == [T EXCEPT !.arcs  = [T.arcs EXCEPT ![a] = [T.arcs[a] EXCEPT !.data = Moved]]]

\* [Mutant: sized by the arcs.]
newVisited_arcsSize(r) == [n \in ArcIDs(tree) |-> IF n = r THEN root_node ELSE invalid]

newVisited(r) == [n \in NodeIDs(tree) |-> IF n = r THEN root_node ELSE invalid]

Call(r) ==
  /\ pc = "client"
  /\ r # root_node                              \* the assertions
  /\ sub' = NewTree(NoData, tree.nodes[r].data)
  /\ tree' = takeNode(tree, r)
  /\ root' = r
  /\ visited' = newVisited(r)
  /\ stack' = <<r>>
  /\ orig' = tree
  /\ pc' = "while"
  /\ UNCHANGED <<parent, arc>>

Pop ==
  /\ pc = "while" /\ stack # <<>>
  /\ parent' = stack[Len(stack)]
  /\ stack' = SubSeq(stack, 1, Len(stack) - 1)
  /\ arc' = beginOut(tree, parent')
  /\ pc' = "for"
  /\ UNCHANGED <<tree, sub, root, visited, orig>>

Child == tree.arcs[arc].target

\* [Mutant: every child counts as new.]
isNew_always == TRUE

isNew == visited[Child] = invalid

\* [Mutant: the id of the last node, not of the next.]
nextNodeID_last == Len(sub.nodes)

nextNodeID == Len(sub.nodes) + 1

\* The for-loop meets a child for the first time: it gets a node and an id.
FirstVisit ==
  /\ pc = "for" /\ arc # invalid /\ isNew
  /\ visited' = [visited EXCEPT ![Child] = nextNodeID]
  /\ sub' = addArc(addNode(sub, tree.nodes[Child].data),
                   visited[parent], nextNodeID, tree.arcs[arc].data)
  /\ stack' = Append(stack, Child)
  /\ tree' = takeArc(takeNode(tree, Child), arc)
  /\ arc' = nextOut(tree, arc)
  /\ UNCHANGED <<root, parent, orig, pc>>

\* [Mutant: the arc to a known child is not copied.]
LaterVisit_drop ==
  /\ pc = "for" /\ arc # invalid /\ ~ isNew
  /\ arc' = nextOut(tree, arc)
  /\ UNCHANGED <<tree, sub, root, visited, stack, parent, orig, pc>>

\* The child has an id: only the arc is copied.
LaterVisit ==
  /\ pc = "for" /\ arc # invalid /\ ~ isNew
  /\ sub' = addArc(sub, visited[parent], visited[Child], tree.arcs[arc].data)
  /\ tree' = takeArc(tree, arc)
  /\ arc' = nextOut(tree, arc)
  /\ UNCHANGED <<root, visited, stack, parent, orig, pc>>

EndFor ==
  /\ pc = "for" /\ arc = invalid
  /\ pc' = "while"
  /\ UNCHANGED <<tree, sub, loopVars>>

\* [Mutant: the loop tests size ( ) >= 0 and never ends.]
Return_never == pc = "while" /\ stack = <<>> /\ UNCHANGED vars

Return ==
  /\ pc = "while" /\ stack = <<>>
  /\ pc' = "returned"
  /\ UNCHANGED <<tree, sub, loopVars>>

MakeSubTree == Pop \/ FirstVisit \/ LaterVisit \/ EndFor \/ Return

Next ==
  \/ AddNode \/ AddArc \/ Adopt
  \/ \E r \in NodeIDs(tree) : Call(r)
  \/ MakeSubTree

\* The function runs on the thread of its caller, which waits for it.
Spec == Init /\ [][Next]_vars /\ WF_vars(MakeSubTree)

---------------------------------------------------------------------------
Running == pc \in {"while", "for"}

\* Ids in range, in particular the ones the function uses as indices.
TypeOK ==
  /\ IsTree(tree, Int) /\ IsTree(sub, Int) /\ IsTree(orig, Int)
  /\ pc \in {"client", "while", "for", "returned"}
  /\ Running =>
       /\ root \in NodeIDs(tree)
       /\ visited \in [NodeIDs(tree) -> NodeIDs(sub) \union {invalid}]
       /\ stack \in Seq(NodeIDs(tree))
  /\ pc = "for" => /\ parent \in NodeIDs(tree) /\ visited[parent] # invalid
                   /\ arc \in ArcIDs(tree) \union {invalid}

\* "Destructively": each payload is moved out at most once, so no element of
\* the sub-tree gets a payload that was moved from before.
MovedOnce ==
  /\ \A a \in ArcIDs(sub)  : sub.arcs[a].data # Moved
  /\ \A n \in NodeIDs(sub) : sub.nodes[n].data # Moved

\* (Part of LoopInv.)  The visited vector numbers the nodes of the sub-tree: two nodes never share
\* an id, every id is in use, and the node that has it brought its payload.
VisitedNumbers ==
  Running =>
    /\ visited[root] = root_node
    /\ \A n \in NodeIDs(tree) : visited[n] # invalid =>
         /\ sub.nodes[visited[n]].data = orig.nodes[n].data
         /\ \A m \in NodeIDs(tree) : visited[m] = visited[n] => m = n
    /\ \A i \in NodeIDs(sub) : \E n \in NodeIDs(tree) : visited[n] = i

\* (Part of LoopInv.)  Between two nodes of the while-loop, a node that is known
\* and not on the stack has all of its out-arcs in the sub-tree; one on the stack
\* has none, and is there once.
WorkLeft ==
  pc = "while" =>
    /\ \A i, j \in 1 .. Len(stack) : stack[i] = stack[j] => i = j
    /\ \A i \in 1 .. Len(stack) :
         visited[stack[i]] # invalid /\ isLeaf(sub, visited[stack[i]])
    /\ \A n \in NodeIDs(tree) :
         visited[n] # invalid /\ (\A i \in 1 .. Len(stack) : stack[i] # n)
           => outArcNum(sub, visited[n]) = outArcNum(orig, n)

\* Why the loop computes the sub-tree: both trees have exact lists at every step,
\* visited is a numbering of the nodes copied so far, and what is known but not
\* copied is on the stack, once.
LoopInv ==
  /\ TypeOK
  /\ Linked(tree) /\ Linked(sub)
  /\ VisitedNumbers
  /\ WorkLeft

\* The tree that is returned is the part of the tree below the new root and
\* nothing else: the nodes the root leads to, and at each node the same
\* out-arcs, in the same order, with the same payloads.  (Order matters: it is
\* the order in which a search tries its moves.)
ResultExact ==
  pc = "returned" =>
    /\ {n \in NodeIDs(tree) : visited[n] # invalid} = Reach(orig, root)
    /\ \A n \in Reach(orig, root) :
         LET old == outArcs(orig, n)
             new == outArcs(sub, visited[n])
         IN  /\ Len(new) = Len(old)
             /\ \A i \in 1 .. Len(old) :
                  /\ sub.arcs[new[i]].target = visited[orig.arcs[old[i]].target]
                  /\ sub.arcs[new[i]].data = orig.arcs[old[i]].data

\* makeSubTree returns, also for a graph with cycles.
Returns == (pc = "while") ~> (pc = "returned")

============================================================================
