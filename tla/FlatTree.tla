----------------------------- MODULE FlatTree -----------------------------
(***************************************************************************)
(* The value of a fst::SearchTree (include/flat_search_tree.hpp) and its   *)
(* operations as operators on that value.                                  *)
(*                                                                         *)
(* A tree is a record of two sequences, arcs (m_arcs) and nodes (m_nodes). *)
(* The admin element at index 0 of either vector is left implicit, so that *)
(* the ids of the code are the indices of the sequences: the next id is    *)
(* vector.size ( ) in the code and Len + 1 here.  root_node and root_arc   *)
(* are 1 in every tree the code constructs.                                *)
(***************************************************************************)
EXTENDS ThreadedList

root_arc == 1

Arc(D) == [source : Nat, target : Nat, next_in : Nat, next_out : Nat, data : D]

Node(D) == [head_in : Nat, tail_in : Nat, head_out : Nat, tail_out : Nat,
            in_size : Nat, out_size : Nat, data : D]

TreeValue(D) == [arcs : Seq(Arc(D)), nodes : Seq(Node(D))]

NewArc(s, t, d) ==
  [source |-> s, target |-> t, next_in |-> invalid, next_out |-> invalid,
   data |-> d]

NewNode(d) ==
  [head_in |-> invalid, tail_in |-> invalid,
   head_out |-> invalid, tail_out |-> invalid,
   in_size |-> 0, out_size |-> 0, data |-> d]

\* SearchTree ( args ): one node, entered by the root arc, which has no source
\* and whose data is default-constructed.
NewTree(noData, d) ==
  [arcs  |-> << NewArc(invalid, root_node, noData) >>,
   nodes |-> << [NewNode(d) EXCEPT !.head_in = root_arc, !.tail_in = root_arc,
                                   !.in_size = 1] >>]

ArcIDs(T)  == 1 .. Len(T.arcs)
NodeIDs(T) == 1 .. Len(T.nodes)

(***************************************************************************)
(* Growing                                                                 *)
(***************************************************************************)
addNode(T, d) == [arcs |-> T.arcs, nodes |-> Append(T.nodes, NewNode(d))]

\* A node whose out-list, or in-list, gets arc id as its new tail.
\* [Mutant: the head follows the tail.]
withOut_headFollows(n, id) ==
  [n EXCEPT !.head_out = id, !.tail_out = id, !.out_size = n.out_size + 1]

withOut(n, id) ==
  [n EXCEPT !.head_out = IF n.head_out = invalid THEN id ELSE n.head_out,
            !.tail_out = id,
            !.out_size = n.out_size + 1]

\* [Mutant: the tail stays on the first arc.]
withIn_tailStays(n, id) ==
  [n EXCEPT !.head_in = IF n.head_in = invalid THEN id ELSE n.head_in,
            !.tail_in = IF n.head_in = invalid THEN id ELSE n.tail_in,
            !.in_size = n.in_size + 1]

withIn(n, id) ==
  [n EXCEPT !.head_in = IF n.head_in = invalid THEN id ELSE n.head_in,
            !.tail_in = id,
            !.in_size = n.in_size + 1]

\* An arc that gets arc id as its successor.
withNextOut(a, id) == [a EXCEPT !.next_out = id]
withNextIn(a, id)  == [a EXCEPT !.next_in = id]

\* The two halves of addArc: hang arc id behind the tail of the out-list of s,
\* and of the in-list of t.
\* [Mutant: hang the arc before the head.]
linkOut_beforeHead(T, s, id) ==
  [arcs  |-> [T.arcs EXCEPT ![id] = withNextOut(T.arcs[id], T.nodes[s].head_out)],
   nodes |-> [T.nodes EXCEPT ![s] = [withOut(T.nodes[s], id) EXCEPT !.head_out = id]]]

linkOut(T, s, id) ==
  LET tail == T.nodes[s].tail_out
  IN  [arcs  |-> IF T.nodes[s].head_out = invalid
                 THEN T.arcs
                 ELSE [T.arcs EXCEPT ![tail] = withNextOut(T.arcs[tail], id)],
       nodes |-> [T.nodes EXCEPT ![s] = withOut(T.nodes[s], id)]]

linkIn(T, t, id) ==
  LET tail == T.nodes[t].tail_in
  IN  [arcs  |-> IF T.nodes[t].head_in = invalid
                 THEN T.arcs
                 ELSE [T.arcs EXCEPT ![tail] = withNextIn(T.arcs[tail], id)],
       nodes |-> [T.nodes EXCEPT ![t] = withIn(T.nodes[t], id)]]

\* m_arcs.emplace_back: arc a, not in any list yet.
appendArc(T, a) == [arcs |-> Append(T.arcs, a), nodes |-> T.nodes]

\* [Mutant: the id is read after the arc is in the vector.]
addArc_lateId(T, s, t, d) ==
  LET id == Len(T.arcs) + 2
  IN  linkIn(linkOut(appendArc(T, NewArc(s, t, d)), s, id), t, id)

addArc(T, s, t, d) ==
  LET id == Len(T.arcs) + 1
  IN  linkIn(linkOut(appendArc(T, NewArc(s, t, d)), s, id), t, id)

(***************************************************************************)
(* Reading                                                                 *)
(***************************************************************************)
beginIn(T, n)  == T.nodes[n].head_in
beginOut(T, n) == T.nodes[n].head_out
nextIn(T, a)   == T.arcs[a].next_in
nextOut(T, a)  == T.arcs[a].next_out

\* What in_iterator and out_iterator deliver over a tree that is left alone.
inArcs(T, n)  == Walk([a \in ArcIDs(T) |-> nextIn(T, a)], beginIn(T, n))
outArcs(T, n) == Walk([a \in ArcIDs(T) |-> nextOut(T, a)], beginOut(T, n))

isLeaf(T, n)    == T.nodes[n].out_size = 0
outArcNum(T, n) == T.nodes[n].out_size

\* [Mutant: link looks at the out-list of s.]
link_outList(T, s, t) ==
  LET search[a \in ArcIDs(T) \union {invalid}] ==
        IF a = invalid \/ T.arcs[a].source = s THEN a
                                               ELSE search[nextOut(T, a)]
  IN  search[beginOut(T, s)]

\* link ( source, target ): the first arc of the in-list of t that comes from
\* s, or an empty optional (invalid).
link(T, s, t) ==
  LET search[a \in ArcIDs(T) \union {invalid}] ==
        IF a = invalid \/ T.arcs[a].source = s THEN a
                                               ELSE search[nextIn(T, a)]
  IN  search[beginIn(T, t)]

(***************************************************************************)
(* What the lists of a tree have to be, counting the arcs 1 .. m.          *)
(***************************************************************************)
ArcsFrom(T, n, m) == {a \in 1 .. m : T.arcs[a].source = n}
ArcsInto(T, n, m) == {a \in 1 .. m : T.arcs[a].target = n}

OutLinked(T, m) ==
  /\ \A n \in NodeIDs(T) :
       ListEnds(ArcsFrom(T, n, m), T.nodes[n].head_out, T.nodes[n].tail_out,
                T.nodes[n].out_size)
  /\ \A a \in 1 .. m :
       IsNext(ArcsFrom(T, T.arcs[a].source, m), a, T.arcs[a].next_out)

InLinked(T, m) ==
  /\ \A n \in NodeIDs(T) :
       ListEnds(ArcsInto(T, n, m), T.nodes[n].head_in, T.nodes[n].tail_in,
                T.nodes[n].in_size)
  /\ \A a \in 1 .. m :
       IsNext(ArcsInto(T, T.arcs[a].target, m), a, T.arcs[a].next_in)

Linked(T) == OutLinked(T, Len(T.arcs)) /\ InLinked(T, Len(T.arcs))

\* Ids in range: only the root arc has no source.
EndsExist(T) ==
  /\ 1 \in ArcIDs(T) /\ 1 \in NodeIDs(T)
  /\ T.arcs[root_arc].source = invalid /\ T.arcs[root_arc].target = root_node
  /\ \A a \in ArcIDs(T) : /\ T.arcs[a].target \in NodeIDs(T)
                          /\ a # root_arc => T.arcs[a].source \in NodeIDs(T)

IsTree(T, D) ==
  /\ T \in TreeValue(D)
  /\ EndsExist(T)

\* U is T after some growth: ids keep their meaning, arcs their ends, and a
\* link of a list that is set keeps its value.
GrownFrom(U, T) ==
  /\ \A a \in ArcIDs(T) :
       /\ a \in ArcIDs(U)
       /\ U.arcs[a].source = T.arcs[a].source
       /\ U.arcs[a].target = T.arcs[a].target
       /\ T.arcs[a].next_out \in {invalid, U.arcs[a].next_out}
       /\ T.arcs[a].next_in \in {invalid, U.arcs[a].next_in}
  /\ \A n \in NodeIDs(T) :
       /\ n \in NodeIDs(U)
       /\ T.nodes[n].head_out \in {invalid, U.nodes[n].head_out}
       /\ T.nodes[n].head_in \in {invalid, U.nodes[n].head_in}

===========================================================================
