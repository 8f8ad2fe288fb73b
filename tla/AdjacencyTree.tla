--------------------------- MODULE AdjacencyTree ---------------------------
(***************************************************************************)
(* ast::SearchTree (MCTSSearchTree/adjacency_search_tree.hpp): a tree of   *)
(* pointers.  Nodes and arcs are elements of two pools, a node has vectors *)
(* of its in- and out-arcs, and both can be erased.  Payloads are left     *)
(* out: they are constructed with an element and never read.               *)
(*                                                                         *)
(* erase of a node runs through a vector that the erasures shorten.  What  *)
(* it reads behind the new end are the pointers the vector had there, and  *)
(* when one of them is to an arc that is gone the program goes on in       *)
(* undefined behaviour, the state "undefined".                             *)
(***************************************************************************)
EXTENDS PoolAllocator

CONSTANTS MaxNodes, MaxArcs   \* bounds of what is alive

ASSUME TreeBounds == MaxNodes \in Nat \ {0} /\ MaxArcs \in Nat

VARIABLES
  tree,             \* the members of the SearchTree, and its elements
  root_node,
  invalid_target,   \* target of the static invalid_arc
  state,            \* "alive", "undefined" or "destroyed"
  made,             \* history: the arcs that should be there, oldest first
  peak,             \* history: the most arcs, and nodes, alive at a time
  dtor              \* history: the nodes the destructor destroyed

vars == <<tree, root_node, invalid_target, state, made, peak, dtor>>

Node(in, out) == [in |-> in, out |-> out]
Arc(s, t) == [source |-> s, target |-> t]

\* The elements at the addresses of live arcs and nodes.
Nothing == [a \in {} |-> nullptr]
EmptyTree == [m_arcs |-> NewPool, m_nodes |-> NewPool, arc |-> Nothing, node |-> Nothing,
              m_arcs_size |-> 0, m_nodes_size |-> 0]

put(f, a, x) == [b \in DOMAIN f \union {a} |-> IF b = a THEN x ELSE f[b]]
drop(f, a) == Restrict(f, DOMAIN f \ {a})

\* addNode and addArc, with the address the pool returns.
addNode(T, n) ==
  [T EXCEPT !.m_nodes = allocated(@, n), !.m_nodes_size = @ + 1, !.node = put(@, n, Node(<<>>, <<>>))]

\* The vectors of the ends of an arc, with the arc and without it: an arc stands
\* in a vector once, so that std::remove moves one entry to the end.
attached(node, s, t, a) == [node EXCEPT ![s].out = Append(@, a), ![t].in = Append(@, a)]

detached(node, s, t, a) ==
  [node EXCEPT ![t].in = RemoveFirst(@, a), ![s].out = RemoveFirst(@, a)]

addArc(T, s, t, a) ==
  [T EXCEPT !.m_arcs = allocated(@, a), !.m_arcs_size = @ + 1, !.arc = put(@, a, Arc(s, t)),
            !.node = attached(@, s, t, a)]

\* link ( source, target ): the first such arc among the in-arcs of the target,
\* none when there is none.
link(T, s, t) ==
  LET i == SelectInSeq(T.node[t].in, LAMBDA a : T.arc[a].source = s)
  IN  IF i = 0 THEN nullptr ELSE T.node[t].in[i]

\* erase_impl: out of both vectors, and back to the pool.
erase_impl(T, a) ==
  [T EXCEPT !.node = detached(@, T.arc[a].source, T.arc[a].target, a),
            !.arc = drop(@, a), !.m_arcs = deallocate(@, a)]

eraseArc(T, a) == [erase_impl(T, a) EXCEPT !.m_arcs_size = @ - 1]

(***************************************************************************)
(* erase ( node ).  A loop walks the positions a vector had at first.  The *)
(* memory mem of the vector keeps its length: erasing the arc at position  *)
(* q shifts what is left of the vector, up to len, and leaves the rest.    *)
(***************************************************************************)
\* [Mutant: the position behind the new end is overwritten.]
shifted_cleared(mem, len, a) ==
  LET q == SelectInSeq(mem, LAMBDA x : x = a)
  IN  [i \in DOMAIN mem |-> IF i = len THEN nullptr
                            ELSE IF q <= i /\ i < len THEN mem[i + 1] ELSE mem[i]]

shifted(mem, len, a) ==
  LET q == SelectInSeq(mem, LAMBDA x : x = a)
  IN  [i \in DOMAIN mem |-> IF q <= i /\ i < len THEN mem[i + 1] ELSE mem[i]]

Loop(T, mem, len) == [tree |-> T, mem |-> mem, len |-> len, defined |-> TRUE]

\* A pass: position i may hold an arc that is gone, and what follows is undefined.
pass(L, i) ==
  LET a == L.mem[i]
  IN  IF ~ L.defined \/ a \notin DOMAIN L.tree.arc THEN [L EXCEPT !.defined = FALSE]
      ELSE Loop(erase_impl(L.tree, a), shifted(L.mem, L.len, a), L.len - 1)

eraseAll(T, list) ==
  LET loop[i \in 0 .. Len(list)] == IF i = 0 THEN Loop(T, list, Len(list)) ELSE pass(loop[i - 1], i)
  IN  loop[Len(list)]

countArcs(T, list) == [T EXCEPT !.m_arcs_size = @ - Len(list)]

\* [Mutant: both are counted first.]
eraseArcs_countFirst(T, n) ==
  LET U == countArcs(countArcs(T, T.node[n].in), T.node[n].out)
      L == eraseAll(U, T.node[n].in)
  IN  IF L.defined THEN eraseAll(L.tree, L.tree.node[n].out) ELSE L

\* The in-arcs go first; an arc from the node to itself is no out-arc any more
\* when these are counted.
eraseArcs(T, n) ==
  LET L == eraseAll(countArcs(T, T.node[n].in), T.node[n].in)
      out == L.tree.node[n].out
  IN  IF L.defined THEN eraseAll(countArcs(L.tree, out), out) ELSE L

\* ~Node and delete_element.
eraseNode(T, n) ==
  [T EXCEPT !.node = drop(@, n), !.m_nodes = deallocate(@, n), !.m_nodes_size = @ - 1]

----------------------------------------------------------------------------
\* The history: its entries that are in P, in their order, and the ids of entries.
those(ms, P) ==
  LET sel[i \in 0 .. Len(ms)] ==
        IF i = 0 THEN <<>> ELSE IF ms[i] \in P THEN Append(sel[i - 1], ms[i]) ELSE sel[i - 1]
  IN  sel[Len(ms)]

ids(ms) == [i \in DOMAIN ms |-> ms[i].id]

larger(i, j) == IF i < j THEN j ELSE i

risen(p, T) == [arcs |-> larger(p.arcs, Cardinality(DOMAIN T.arc)),
                nodes |-> larger(p.nodes, Cardinality(DOMAIN T.node))]

NodeIDs == DOMAIN tree.node
ArcIDs == DOMAIN tree.arc

\* The root of another tree of the same type: no address of this one.
other_root == -1

Init ==
  /\ \E n \in allocate(NewPool) : tree = addNode(EmptyTree, n) /\ root_node = n
  /\ invalid_target = nullptr /\ state = "alive" /\ made = <<>> /\ dtor = {}
  /\ peak = risen([arcs |-> 0, nodes |-> 0], tree)

AddNode ==
  /\ tree.m_nodes_size < MaxNodes
  /\ \E n \in allocate(tree.m_nodes) : tree' = addNode(tree, n)
  /\ UNCHANGED <<root_node, invalid_target, state, made, dtor>>

\* Where the blocks of arcs lie makes no difference: an arc has no destructor,
\* and the pool never compares their addresses.
AddArc ==
  /\ tree.m_arcs_size < MaxArcs
  /\ \E a \in allocate(tree.m_arcs), s, t \in NodeIDs :
       /\ a = Min(allocate(tree.m_arcs))
       /\ tree' = addArc(tree, s, t, a)
       /\ made' = Append(made, [id |-> a, arc |-> Arc(s, t)])
  /\ UNCHANGED <<root_node, invalid_target, state, dtor>>

EraseArc ==
  /\ \E a \in ArcIDs : /\ tree' = eraseArc(tree, a)
                       /\ made' = those(made, {m \in ToSet(made) : m.id # a})
  /\ UNCHANGED <<root_node, invalid_target, state, dtor>>

\* The client does not erase the root of the tree.
EraseNode(n) ==
  /\ n # root_node
  /\ LET L == eraseArcs(tree, n)
     IN  /\ tree' = IF L.defined THEN eraseNode(L.tree, n) ELSE tree
         /\ state' = IF L.defined THEN "alive" ELSE "undefined"
  /\ made' = those(made, {m \in ToSet(made) : n \notin {m.arc.source, m.arc.target}})
  /\ UNCHANGED <<root_node, invalid_target, dtor>>

SetRoot ==
  /\ root_node' \in NodeIDs
  /\ invalid_target' = root_node'
  /\ UNCHANGED <<tree, state, made, dtor>>

\* setRoot of another tree: invalid_arc is static, and all trees of the type
\* share it.
SetRootElsewhere ==
  /\ invalid_target' = other_root
  /\ UNCHANGED <<tree, root_node, state, made, dtor>>

\* The pool of nodes runs the destructors of the nodes, the pool of arcs just
\* returns its blocks.
Destroy ==
  /\ state' = "destroyed"
  /\ dtor' \in destroyed(tree.m_nodes)
  /\ UNCHANGED <<tree, root_node, invalid_target, made>>

Next ==
  /\ state = "alive"
  /\ \/ AddNode \/ AddArc \/ EraseArc \/ (\E n \in NodeIDs : EraseNode(n))
     \/ SetRoot \/ SetRootElsewhere \/ Destroy
  /\ peak' = risen(peak, tree')

Spec == Init /\ [][Next]_vars

---------------------------------------------------------------------------
\* The vectors of a node are exactly the arcs that were added to it and that
\* were erased neither themselves nor with their other end, oldest first; the
\* counts are those of the elements; and link finds the oldest of parallel arcs.
VectorsExact ==
  state # "undefined" =>
    LET from(s) == ids(those(made, {m \in ToSet(made) : m.arc.source = s}))
        to(t) == ids(those(made, {m \in ToSet(made) : m.arc.target = t}))
        between(s, t) == ids(those(made, {m \in ToSet(made) : m.arc = Arc(s, t)}))
    IN  /\ root_node \in NodeIDs /\ invalid_target \in {nullptr, root_node, other_root}
        /\ ArcIDs = ToSet(ids(made)) /\ IsInjective(ids(made))
        /\ \A i \in DOMAIN made : tree.arc[made[i].id] = made[i].arc
        /\ \A n \in NodeIDs : tree.node[n] = Node(to(n), from(n))
        /\ tree.m_arcs_size = Len(made) /\ tree.m_nodes_size = Cardinality(NodeIDs)
        /\ \A s, t \in NodeIDs :
             link(tree, s, t) = IF between(s, t) = <<>> THEN nullptr ELSE Head(between(s, t))

\* Each slot a pool has handed out is either alive or free, and free once: no
\* element is handed out while it is in use, none is lost for ever.  And a pool
\* has as many blocks as elements were alive at a time: a block serves one
\* element, and one is asked for only when no slot is free.
PoolsExact ==
  state # "undefined" =>
    \A S \in {<<tree.m_arcs, ArcIDs, peak.arcs>>, <<tree.m_nodes, NodeIDs, peak.nodes>>} :
      /\ slots(S[1]) = S[2] \union Free(S[1]) /\ S[2] \intersect Free(S[1]) = {}
      /\ IsInjective(S[1].m_free_slots)
      /\ Len(S[1].m_current_block) = S[3]

\* Erasing a node is safe as long as neither vector has more than two arcs: the
\* second is then read behind the end of its vector, where it still stands.
\* With three, one of them is erased twice.
UndefinedFromThree ==
  [][ \A n \in NodeIDs : EraseNode(n) =>
        LET loops == {a \in ArcIDs : tree.arc[a] = Arc(n, n)}
        IN  state' = "undefined" <=> \/ Len(tree.node[n].in) > 2
                                     \/ Len(tree.node[n].out) - Cardinality(loops) > 2 ]_vars

\* The destructor of the pool destroys no element twice, and it destroys the live
\* ones, but possibly not those behind the last free slot.
DestroysLive ==
  state = "destroyed" =>
    /\ dtor \subseteq NodeIDs
    /\ \A n \in NodeIDs \ dtor : \E f \in Free(tree.m_nodes) : \A g \in Free(tree.m_nodes) : g <= f /\ f < n

============================================================================
