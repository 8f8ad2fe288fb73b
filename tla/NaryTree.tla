------------------------------ MODULE NaryTree ------------------------------
(***************************************************************************)
(* fsnt::SearchTree (include/flat_search_ntree.hpp): a tree that only      *)
(* grows, in which the children of a node are a list threaded in both      *)
(* directions, walked from the oldest.  Its client adds nodes while it     *)
(* walks a list.                                                           *)
(*                                                                         *)
(* nodes is m_nodes, from the admin node at index 0 to last.  Payloads are *)
(* left out: nothing reads them.                                           *)
(***************************************************************************)
EXTENDS ThreadedList

CONSTANT MaxNodes   \* bound on the size of the tree

VARIABLES nodes, last,
          cursor   \* the live out_iterator and what it has delivered

vars == <<nodes, last, cursor>>

TwoWayNode == [up : Nat, prev : Nat, next : Nat, head : Nat, tail : Nat, size : Nat]

NewTwoWayNode == [up |-> invalid, prev |-> invalid, next |-> invalid,
                  head |-> invalid, tail |-> invalid, size |-> 0]

IDs == 1 .. last

(***************************************************************************)
(* add_node.                                                               *)
(***************************************************************************)
emplace_back(N, id) == [n \in 0 .. id |-> IF n = id THEN NewTwoWayNode ELSE N[n]]

\* What hang writes to node n, when the list of source ends with tail.
\* [Mutants: no link back; the head follows the tail.]
hung_noPrev(o, n, source, tail, id) ==
  [up |-> IF n = id THEN source ELSE o.up,
   prev |-> o.prev,
   next |-> IF n = tail THEN id ELSE o.next,
   head |-> IF n = source /\ tail = invalid THEN id ELSE o.head,
   tail |-> IF n = source THEN id ELSE o.tail,
   size |-> IF n = source THEN o.size + 1 ELSE o.size]

hung_headFollows(o, n, source, tail, id) ==
  [hung_noPrev(o, n, source, tail, id) EXCEPT !.prev = IF n = id THEN tail ELSE o.prev,
                                              !.head = IF n = source THEN id ELSE o.head]

hung(o, n, source, tail, id) ==
  [up |-> IF n = id THEN source ELSE o.up,
   prev |-> IF n = id THEN tail ELSE o.prev,
   next |-> IF n = tail /\ tail # invalid THEN id ELSE o.next,
   head |-> IF n = source /\ tail = invalid THEN id ELSE o.head,
   tail |-> IF n = source THEN id ELSE o.tail,
   size |-> IF n = source THEN o.size + 1 ELSE o.size]

\* The code asks for the head, which is invalid when the tail is.
hang(N, source, id) ==
  LET tail == IF N[source].head = invalid THEN invalid ELSE N[source].tail
  IN  [n \in DOMAIN N |-> hung(N[n], n, source, tail, id)]

add_node(N, source, id) == hang(emplace_back(N, id), source, id)

----------------------------------------------------------------------------
\* out_iterator ( tree_, n ).
Begin(n) == [node |-> n, id |-> nodes[n].head, seen |-> <<>>]
NoCursor == [node |-> invalid, id |-> invalid, seen |-> <<>>]

is_valid(c) == c.id # invalid

\* The two constructors: without and with a root.
Init ==
  /\ last \in {0, 1} /\ nodes = [n \in 0 .. last |-> NewTwoWayNode]
  /\ cursor = NoCursor

\* The first node of a default-constructed tree is added to the admin node, or
\* to root_node, which is the id it gets: then it is its own child.
Sources == IF last = 0 THEN {invalid, root_node} ELSE IDs

AddNode ==
  /\ last < MaxNodes
  /\ last' = last + 1
  /\ \E source \in Sources : nodes' = add_node(nodes, source, last + 1)
  /\ UNCHANGED cursor

BeginOut ==
  /\ \E n \in IDs : cursor' = Begin(n)
  /\ UNCHANGED <<nodes, last>>

\* operator* and operator++.
Advance ==
  /\ is_valid(cursor)
  /\ cursor' = [cursor EXCEPT !.id = nodes[@].next, !.seen = Append(@, cursor.id)]
  /\ UNCHANGED <<nodes, last>>

Next == AddNode \/ BeginOut \/ Advance

Spec == Init /\ [][Next]_vars

---------------------------------------------------------------------------
TypeOK ==
  /\ last \in Nat /\ nodes \in [0 .. last -> TwoWayNode]
  /\ \A n \in 0 .. last :
       {nodes[n].up, nodes[n].prev, nodes[n].next, nodes[n].head, nodes[n].tail} \subseteq 0 .. last
  /\ cursor \in [node : 0 .. last, id : 0 .. last, seen : Seq(Nat)]

Kids(n) == {m \in IDs : nodes[m].up = n}

\* prev is the element of S before a, or invalid when a is the first.
IsPrev(S, a, prev) ==
  /\ prev = invalid => \A c \in S : a <= c
  /\ prev # invalid => /\ prev \in S /\ prev < a
                       /\ \A c \in S : c < a => c <= prev

\* Whatever the order of growth, also from a root that is its own child: each list is
\* exactly the children of its node, from the oldest to the newest by next and
\* back by prev, and the size is their number.
ListsExact ==
  \A n \in IDs :
    /\ ListEnds(Kids(n), nodes[n].head, nodes[n].tail, nodes[n].size)
    /\ \A a \in Kids(n) : /\ IsNext(Kids(n), a, nodes[a].next)
                          /\ IsPrev(Kids(n), a, nodes[a].prev)

\* An out_iterator over a tree that grows has delivered the children older than the
\* one it stands on, each once and in order; one that has run off its list has
\* delivered the oldest.
CursorExact ==
  LET kids == Kids(cursor.node)
      seen == {cursor.seen[i] : i \in 1 .. Len(cursor.seen)}
  IN  cursor.node # invalid =>
        /\ \A i, j \in 1 .. Len(cursor.seen) : i < j => cursor.seen[i] < cursor.seen[j]
        /\ seen \subseteq kids
        /\ IF is_valid(cursor)
           THEN cursor.id \in kids /\ seen = {a \in kids : a < cursor.id}
           ELSE \A a \in kids \ seen : \A b \in seen : b < a

============================================================================
