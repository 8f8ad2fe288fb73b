---------------------------- MODULE NaryTreeUni ----------------------------
(***************************************************************************)
(* fsntu::SearchTree (include/flat_search_ntree_uni.hpp), the tree main ( )*)
(* uses: a node has one parent and the list of its children is threaded    *)
(* from the newest to the oldest (tail, then prev).                        *)
(*                                                                         *)
(* The client adds nodes and walks lists in any order, and replaces the    *)
(* tree by the part below one of its nodes (root) or by its two upper      *)
(* levels (flatten).  root is stepwise: one step for every test of the     *)
(* while-loop and every pass of the for-loop.                              *)
(*                                                                         *)
(* nodes is m_nodes, from index 0: the admin node is the parent of the     *)
(* root.  A payload is unique to the add_node call that brought it.        *)
(***************************************************************************)
EXTENDS ThreadedList

CONSTANTS MaxNodes,   \* bound on the size of the tree
          MaxAdds     \* bound on the number of payloads handed out

VARIABLES
  nodes,
  cursor,         \* the live out_iterator and what it has delivered
  sub,            \* m_nodes of sub_tree
  root,           \* root_
  visited,        \* visited[n]: the id in sub of node n, or invalid
  stack,
  parent, child,  \* the node whose children are walked, and where
  pc,             \* "client", "while" or "for"
  added,          \* history: the number of payloads handed out
  orig            \* history: m_nodes at the call

loopVars == <<sub, root, visited, stack, parent, child, orig>>
vars == <<nodes, cursor, loopVars, pc, added>>

Moved == -1    \* what std::move leaves behind

Node == [up : Nat, prev : Nat, tail : Nat, size : Nat, data : Int]

NewNode(d) == [up |-> invalid, prev |-> invalid, tail |-> invalid, size |-> 0, data |-> d]

\* m_nodes has ids 0 .. Last.
Last(T)    == Cardinality(DOMAIN T) - 1
NodeIDs(T) == 1 .. Last(T)

\* The two constructors.
Empty   == [n \in 0 .. 0 |-> NewNode(0)]
Tree(d) == [n \in 0 .. 1 |-> NewNode(IF n = 0 THEN 0 ELSE d)]

(***************************************************************************)
(* The operations as operators on m_nodes.                                 *)
(***************************************************************************)
emplace_back(T, d) == [n \in 0 .. Last(T) + 1 |-> IF n \in DOMAIN T THEN T[n] ELSE NewNode(d)]

\* [Mutant: the new child does not get the old tail as prev.]
hang_noPrev(T, source, id) ==
  [[T EXCEPT ![id].up = source] EXCEPT ![source].tail = id, ![source].size = @ + 1]

hang(T, source, id) ==
  [[T EXCEPT ![id].up = source, ![id].prev = T[source].tail]
     EXCEPT ![source].tail = id, ![source].size = @ + 1]

add_node(T, source, d) == hang(emplace_back(T, d), source, Last(T) + 1)

arity(T, n) == T[n].size

\* The children of n as the out_iterator delivers them.
children(T, n) == Walk([m \in NodeIDs(T) |-> T[m].prev], T[n].tail)

\* What std::move ( m_nodes[ n ].data ) leaves.
take(T, n) == [T EXCEPT ![n].data = Moved]

\* [Mutant: flatten keeps the descendants too.]
flatten_all(T) ==
  LET copy[m \in 1 .. Last(T)] ==
        IF m = 1 THEN Tree(T[root_node].data)
                 ELSE add_node(copy[m - 1], root_node, T[m].data)
  IN  copy[Last(T)]

\* flatten: the root and its children, in a new tree.
flatten(T) ==
  LET kids == children(T, root_node)
      copy[i \in 0 .. Len(kids)] ==
        IF i = 0 THEN Tree(T[root_node].data)
                 ELSE add_node(copy[i - 1], root_node, take(T, root_node)[kids[i]].data)
  IN  copy[Len(kids)]

\* The children of n, without the walk.
Kids(T, n) == {m \in NodeIDs(T) : T[m].up = n}

(***************************************************************************)
(* The client.                                                             *)
(***************************************************************************)
\* out_iterator ( tree_, n ); kids is history: the children there are then.
Begin(T, n) == [node |-> n, id |-> T[n].tail, seen |-> <<>>, kids |-> Kids(T, n)]

\* No iterator: every iterator the client had is dangling.
NoCursor == [node |-> invalid, id |-> invalid, seen |-> <<>>, kids |-> {}]

is_valid(c) == c.id # invalid

Init ==
  /\ nodes \in {Empty, Tree(1)}
  /\ added = 1
  /\ cursor = NoCursor
  /\ sub = Empty /\ orig = Empty
  /\ root = invalid /\ visited = <<>> /\ stack = <<>>
  /\ parent = invalid /\ child = invalid
  /\ pc = "client"

\* A default-constructed tree has no root yet, although root_node says 1.  Its
\* first node is added to the admin node; when it is added to root_node, which
\* is the id it gets, it becomes its own child.
Sources == IF NodeIDs(nodes) = {} THEN {invalid, root_node} ELSE NodeIDs(nodes)

AddNode ==
  /\ pc = "client" /\ Last(nodes) < MaxNodes /\ added < MaxAdds
  /\ \E source \in Sources : nodes' = add_node(nodes, source, added + 1)
  /\ added' = added + 1
  /\ UNCHANGED <<cursor, loopVars, pc>>

BeginOut ==
  /\ pc = "client"
  /\ \E n \in NodeIDs(nodes) : cursor' = Begin(nodes, n)
  /\ UNCHANGED <<nodes, loopVars, pc, added>>

\* operator* and operator++.
Advance ==
  /\ pc = "client" /\ is_valid(cursor)
  /\ cursor' = [cursor EXCEPT !.id = nodes[@].prev, !.seen = Append(@, cursor.id)]
  /\ UNCHANGED <<nodes, loopVars, pc, added>>

Flatten ==
  /\ pc = "client" /\ NodeIDs(nodes) # {}
  /\ nodes' = flatten(nodes)
  /\ cursor' = NoCursor
  /\ UNCHANGED <<loopVars, pc, added>>

(***************************************************************************)
(* root.                                                                   *)
(***************************************************************************)
Call(r) ==
  /\ pc = "client"
  /\ sub' = Tree(nodes[r].data)
  /\ nodes' = take(nodes, r)
  /\ root' = r
  /\ visited' = [n \in NodeIDs(nodes) |-> IF n = r THEN root_node ELSE invalid]
  /\ stack' = <<r>>
  /\ orig' = nodes
  /\ cursor' = NoCursor
  /\ pc' = "while"
  /\ UNCHANGED <<parent, child, added>>

Pop ==
  /\ pc = "while" /\ stack # <<>>
  /\ parent' = stack[Len(stack)]
  /\ stack' = SubSeq(stack, 1, Len(stack) - 1)
  /\ child' = nodes[parent'].tail
  /\ pc' = "for"
  /\ UNCHANGED <<nodes, cursor, sub, root, visited, orig, added>>

\* [Mutants: the old id of the parent; the new root.]
newParent_old  == parent
newParent_root == root_node

newParent == visited[parent]

\* [Mutant: the id of the next node but one.]
nextID_late == Last(sub) + 2

nextID == Last(sub) + 1

Visit ==
  /\ pc = "for" /\ child # invalid /\ visited[child] = invalid
  /\ sub' = add_node(sub, newParent, nodes[child].data)
  /\ nodes' = take(nodes, child)
  /\ visited' = [visited EXCEPT ![child] = nextID]
  /\ stack' = Append(stack, child)
  /\ child' = nodes[child].prev
  /\ UNCHANGED <<cursor, root, parent, orig, pc, added>>

\* Only a root that is its own child is met twice.
Skip ==
  /\ pc = "for" /\ child # invalid /\ visited[child] # invalid
  /\ child' = nodes[child].prev
  /\ UNCHANGED <<nodes, cursor, sub, root, visited, stack, parent, orig, pc, added>>

EndFor ==
  /\ pc = "for" /\ child = invalid
  /\ pc' = "while"
  /\ UNCHANGED <<nodes, cursor, loopVars, added>>

\* [Mutant: the loop tests size ( ) >= 0 and never ends.]
Return_never == pc = "while" /\ stack = <<>> /\ UNCHANGED vars

\* std::swap; sub_tree, with the old nodes, and the other locals are gone.
Return ==
  /\ pc = "while" /\ stack = <<>>
  /\ nodes' = sub
  /\ sub' = Empty /\ orig' = Empty
  /\ root' = invalid /\ visited' = <<>> /\ parent' = invalid
  /\ pc' = "client"
  /\ UNCHANGED <<cursor, stack, child, added>>

Root == Pop \/ Visit \/ Skip \/ EndFor \/ Return

Next ==
  \/ AddNode \/ BeginOut \/ Advance \/ Flatten
  \/ \E r \in NodeIDs(nodes) : Call(r)
  \/ Root

\* root runs on the thread of its caller, which waits for it.
Spec == Init /\ [][Next]_vars /\ WF_vars(Root)

---------------------------------------------------------------------------
Running == pc \in {"while", "for"}

\* Ids in range, in particular the ones the function uses as indices.
TypeOK ==
  /\ \A T \in {nodes, sub, orig} :
       /\ DOMAIN T = 0 .. Last(T)
       /\ \A n \in DOMAIN T : /\ T[n] \in Node
                              /\ {T[n].up, T[n].prev, T[n].tail} \subseteq DOMAIN T
  /\ pc \in {"client", "while", "for"}
  /\ cursor.id \in DOMAIN nodes
  /\ Running => /\ visited \in [NodeIDs(nodes) -> DOMAIN sub]
                /\ stack \in Seq(NodeIDs(nodes))
  /\ pc = "for" => /\ parent \in NodeIDs(nodes) /\ visited[parent] # invalid
                   /\ child \in DOMAIN nodes

\* prev leads from a to the element of S before it.
IsPrev(S, a, prev) ==
  /\ prev = invalid => \A c \in S : c >= a
  /\ prev # invalid => /\ prev \in S /\ prev < a
                       /\ \A c \in S : c < a => c <= prev

\* (Part of TreeExact.)  The list of each node is its children from the newest to the oldest, and its
\* size is their number: in the tree of the client and in the one root builds.
ListsExact ==
  \A T \in {nodes, sub} : \A n \in NodeIDs(T) :
    /\ T[n].size = Cardinality(Kids(T, n))
    /\ IsPrev(Kids(T, n), Last(T) + 1, T[n].tail)
    /\ \A a \in Kids(T, n) : IsPrev(Kids(T, n), a, T[a].prev)

\* (Part of TreeExact.)  A parent is older than its children.
ParentIsOlder ==
  \A T \in {nodes, sub} : \A n \in NodeIDs(T) \ {root_node} : T[n].up < n

\* In every tree and after every renumbering the lists are exact, and the client
\* can go up from any node and gets to the root.
TreeExact == ListsExact /\ ParentIsOlder

\* An out_iterator delivers what was in the list when it was created, newest
\* first, and nothing of what is added under it.
DeliversSnapshot ==
  /\ \A i, j \in 1 .. Len(cursor.seen) : i < j => cursor.seen[i] > cursor.seen[j]
  /\ {cursor.seen[i] : i \in 1 .. Len(cursor.seen)} =
       {a \in cursor.kids : is_valid(cursor) => a > cursor.id}

Below(T, r) ==
  {n \in NodeIDs(T) :
     \A S \in SUBSET NodeIDs(T) :
       r \in S /\ (\A m \in S : Kids(T, m) \subseteq S) => n \in S}

\* The children of n but n: a root that is its own child is the oldest of them.
others(T, n) == SubSeq(children(T, n), 1, arity(T, n) - IF T[n].up = n THEN 1 ELSE 0)

\* "Make root_ the new root of the tree and discard the rest of the tree": the
\* nodes below root_ stay, each with its payload and its children, and nothing
\* else.  The siblings come out in the opposite order.
RootStep ==
  Return =>
    /\ {n \in NodeIDs(orig) : visited[n] # invalid} = Below(orig, root)
    /\ Last(nodes') = Cardinality(Below(orig, root))
    /\ \A n \in Below(orig, root) :
         LET old == others(orig, n)
             new == children(nodes', visited[n])
         IN  /\ nodes'[visited[n]].data = orig[n].data
             /\ Len(new) = Len(old)
             /\ \A i \in 1 .. Len(old) : new[i] = visited[old[Len(old) + 1 - i]]

\* flatten keeps the root and its children, in the opposite order, as leaves.  (A
\* root that is its own child becomes a child without a payload: the payload was
\* moved to the root before.)
FlattenStep ==
  Flatten =>
    LET old == children(nodes, root_node)
        new == children(nodes', root_node)
    IN  /\ Len(new) = Len(old) /\ Last(nodes') = Len(old) + 1
        /\ nodes'[root_node].data = nodes[root_node].data
        /\ \A i \in 1 .. Len(old) :
             LET kid == old[Len(old) + 1 - i]
             IN  /\ kid # root_node => nodes'[new[i]].data = nodes[kid].data
                 /\ arity(nodes', new[i]) = 0

============================================================================
