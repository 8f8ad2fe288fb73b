--------------------------- MODULE NaryTreeProofs ---------------------------
(***************************************************************************)
(* The lists of fsnt::SearchTree stay exact in both directions, for trees  *)
(* of every size, from either constructor; those of fsntu::SearchTree do,  *)
(* its iterators deliver what they should, and its root and flatten keep   *)
(* what they promise.                                                      *)
(***************************************************************************)
EXTENDS NaryTrees, FlatTreeTheorems

\* The element appended to a list has the old tail before it; the others have
\* before them what they had.
LEMMA AppendPrev ==
  ASSUME NEW S \in SUBSET (Nat \ {0}),
         NEW head \in Nat, NEW tail \in Nat, NEW size \in Nat,
         NEW id \in Nat \ {0}, \A a \in S : a < id,
         ListEnds(S, head, tail, size)
  PROVE  /\ IsPrev(S \union {id}, id, tail)
         /\ \A a \in S, prev \in Nat : IsPrev(S, a, prev) => IsPrev(S \union {id}, a, prev)
BY DEF ListEnds, IsPrev, invalid

----------------------------------------------------------------------------
\* Lists are only promised for nodes that are not the admin node; that one has
\* a list when the root of a default-constructed tree was added to it.
TreeInv == TypeOK /\ ListsExact /\ (last = 0 => nodes[0] = NewTwoWayNode)

\* A new tree is its root, with exact lists.
LEMMA InitTreeInv == Init => TreeInv
<1> SUFFICES ASSUME Init PROVE TreeInv
  OBVIOUS
<1>1. last \in {0, 1} /\ nodes = [n \in 0 .. last |-> NewTwoWayNode] /\ cursor = NoCursor
  BY DEF Init
<1>2. NewTwoWayNode \in TwoWayNode
  BY DEF NewTwoWayNode, TwoWayNode, invalid
<1>3. nodes \in [0 .. last -> TwoWayNode] /\ \A n \in 0 .. last : nodes[n] = NewTwoWayNode
  BY <1>1, <1>2
<1>4. cursor \in [node : 0 .. last, id : 0 .. last, seen : Seq(Nat)]
  <2>1. <<>> \in Seq(Nat)
    OBVIOUS
  <2> QED
    BY <1>1, <2>1 DEF NoCursor, invalid
<1>5. TypeOK
  BY <1>1, <1>3, <1>4 DEF TypeOK, NewTwoWayNode, invalid
<1>6. \A n \in IDs : Kids(n) = {}
  BY <1>1, <1>3 DEF Kids, IDs, NewTwoWayNode, invalid
<1>7. ASSUME NEW n \in IDs
      PROVE  ListEnds(Kids(n), nodes[n].head, nodes[n].tail, nodes[n].size) /\ Kids(n) = {}
  <2>1. nodes[n].head = 0 /\ nodes[n].tail = 0 /\ nodes[n].size = 0
    BY <1>1, <1>3 DEF NewTwoWayNode, IDs, invalid
  <2>2. Kids(n) = {} /\ Cardinality(Kids(n)) = 0
    BY <1>6, FS_EmptySet
  <2> QED
    BY <2>1, <2>2 DEF ListEnds, invalid
<1>8. ListsExact
  BY <1>7 DEF ListsExact
<1> QED
  BY <1>1, <1>3, <1>5, <1>8 DEF TreeInv

\* add_node appends the new node to the children of its source.
LEMMA AddNodeKeeps == TreeInv /\ AddNode => TreeInv'
<1> SUFFICES ASSUME TreeInv, AddNode PROVE TreeInv'
  OBVIOUS
<1> DEFINE id == last + 1
<1>1. /\ last \in Nat /\ nodes \in [0 .. last -> TwoWayNode]
      /\ \A n \in 0 .. last :
           {nodes[n].up, nodes[n].prev, nodes[n].next, nodes[n].head, nodes[n].tail} \subseteq 0 .. last
      /\ cursor \in [node : 0 .. last, id : 0 .. last, seen : Seq(Nat)]
      /\ last = 0 => nodes[0] = NewTwoWayNode
  BY DEF TreeInv, TypeOK
<1>2. PICK source \in Sources : nodes' = add_node(nodes, source, id)
  BY DEF AddNode
<1>3. last' = id /\ cursor' = cursor
  BY DEF AddNode
<1>4. source \in 0 .. id /\ (source = 0 \/ source = id => last = 0)
  BY <1>1, <1>2 DEF Sources, IDs, root_node, invalid
<1>5. PICK O : O = emplace_back(nodes, id)
  OBVIOUS
<1>6. PICK tail : tail = IF O[source].head = invalid THEN invalid ELSE O[source].tail
  OBVIOUS
<1> HIDE DEF id
<1>7. id = last + 1 /\ id \in Nat \ {0} /\ source \in 0 .. last + 1
  BY <1>1, <1>4 DEF id
<1>8. /\ O \in [0 .. id -> TwoWayNode] /\ O[id] = NewTwoWayNode
      /\ \A n \in 0 .. last : O[n] = nodes[n]
      /\ nodes' \in [0 .. id -> TwoWayNode]
      /\ \A n \in 0 .. id :
           /\ nodes'[n].up = IF n = id THEN source ELSE O[n].up
           /\ nodes'[n].prev = IF n = id THEN tail ELSE O[n].prev
           /\ nodes'[n].next = IF n = tail /\ tail # invalid THEN id ELSE O[n].next
           /\ nodes'[n].head = IF n = source /\ tail = invalid THEN id ELSE O[n].head
           /\ nodes'[n].tail = IF n = source THEN id ELSE O[n].tail
           /\ nodes'[n].size = IF n = source THEN O[n].size + 1 ELSE O[n].size
  \* The fields of the longer vector, but for the new node, its source and the old
  \* tail.
  <2>1. NewTwoWayNode \in TwoWayNode
    BY DEF NewTwoWayNode, TwoWayNode, invalid
  <2>2. O \in [0 .. id -> TwoWayNode] /\ O[id] = NewTwoWayNode /\ \A n \in 0 .. last : O[n] = nodes[n]
    BY <1>1, <1>5, <1>7, <2>1 DEF emplace_back
  <2>3. tail \in Nat
    BY <1>6, <1>7, <2>2 DEF TwoWayNode, invalid
  <2>4. nodes' = hang(O, source, id)
    BY <1>2, <1>5 DEF add_node, id
  <2>5. nodes' = [n \in 0 .. id |-> hung(O[n], n, source, tail, id)]
    BY <1>6, <2>2, <2>4 DEF hang
  <2>6. ASSUME NEW n \in 0 .. id
        PROVE  hung(O[n], n, source, tail, id) \in TwoWayNode
    <3>1. O[n] \in TwoWayNode /\ id \in Nat /\ source \in Nat
      BY <1>4, <1>7, <2>2 DEF id
    <3> QED
      BY <2>3, <3>1 DEF hung, TwoWayNode
  <2> QED
    BY <2>2, <2>5, <2>6 DEF hung
<1>9. /\ O[id].up = 0 /\ O[id].prev = 0 /\ O[id].next = 0
      /\ O[id].head = 0 /\ O[id].tail = 0 /\ O[id].size = 0
  BY <1>8 DEF NewTwoWayNode, invalid
<1>10. tail \in 0 .. last
  <2>1. CASE source = id
    BY <1>1, <1>6, <1>9, <2>1 DEF invalid
  <2>2. CASE source \in 0 .. last
    BY <1>1, <1>6, <1>8, <2>2 DEF invalid
  <2> QED
    BY <1>4, <1>7, <2>1, <2>2, <1>1
<1>11. TypeOK'
  <2>1. ASSUME NEW n \in 0 .. id
        PROVE  {nodes'[n].up, nodes'[n].prev, nodes'[n].next, nodes'[n].head, nodes'[n].tail} \subseteq 0 .. id
    <3>1. /\ O[n].up \in 0 .. id /\ O[n].prev \in 0 .. id /\ O[n].next \in 0 .. id
          /\ O[n].head \in 0 .. id /\ O[n].tail \in 0 .. id
      <4>1. CASE n = id
        BY <1>7, <1>9, <4>1
      <4>2. CASE n \in 0 .. last
        BY <1>1, <1>7, <1>8, <4>2
      <4> QED
        BY <1>1, <1>7, <4>1, <4>2
    <3>2. source \in 0 .. id /\ tail \in 0 .. id /\ id \in 0 .. id
      BY <1>1, <1>7, <1>10
    <3> QED
      BY <1>8, <3>1, <3>2
  <2>2. cursor' \in [node : 0 .. id, id : 0 .. id, seen : Seq(Nat)]
    BY <1>1, <1>3, <1>7
  <2> QED
    BY <1>3, <1>7, <1>8, <2>1, <2>2 DEF TypeOK
<1>12. ASSUME NEW n \in 1 .. id
       PROVE  /\ ListEnds(Kids(n)', nodes'[n].head, nodes'[n].tail, nodes'[n].size)
              /\ \A a \in Kids(n)' : /\ IsNext(Kids(n)', a, nodes'[a].next)
                                     /\ IsPrev(Kids(n)', a, nodes'[a].prev)
  <2>1. Kids(n)' = {m \in 1 .. id : nodes'[m].up = n}
    BY <1>3 DEF Kids, IDs
  <2>2. /\ source # n => Kids(n)' = {m \in 1 .. last : nodes[m].up = n}
        /\ source = n => Kids(n)' = {m \in 1 .. last : nodes[m].up = n} \union {id}
    BY <1>1, <1>7, <1>8, <2>1
  <2>3. CASE n = id
    <3>1. {m \in 1 .. last : nodes[m].up = n} = {}
      BY <1>1, <1>7, <2>3
    <3>2. CASE source = n
      <4>1. Kids(n)' = {id}
        BY <2>2, <3>1, <3>2
      <4>2. /\ nodes'[n].head = id /\ nodes'[n].tail = id /\ nodes'[n].size = 1
            /\ nodes'[id].next = 0 /\ nodes'[id].prev = 0
        BY <1>6, <1>7, <1>8, <1>9, <2>3, <3>2 DEF invalid
      <4>3. Cardinality({id}) = 1
        BY FS_Singleton
      <4>4. ListEnds({id}, id, id, 1)
        BY <1>7, <4>3 DEF ListEnds
      <4>5. IsNext({id}, id, 0) /\ IsPrev({id}, id, 0)
        BY <1>7 DEF IsNext, IsPrev, invalid
      <4> QED
        BY <4>1, <4>2, <4>4, <4>5
    <3>3. CASE source # n
      <4>1. Kids(n)' = {}
        BY <2>2, <3>1, <3>3
      <4>2. nodes'[n].head = 0 /\ nodes'[n].tail = 0 /\ nodes'[n].size = 0
        BY <1>7, <1>8, <1>9, <2>3, <3>3
      <4> QED
        BY <4>1, <4>2, FS_EmptySet DEF ListEnds, invalid
    <3> QED
      BY <3>2, <3>3
  <2>4. CASE n \in 1 .. last
    <3>1. PICK S : S = {m \in 1 .. last : nodes[m].up = n}
      OBVIOUS
    <3>2. PICK s \in Nat : s = nodes[n].size
      BY <1>1, <2>4 DEF TwoWayNode
    <3>3. /\ S = Kids(n) /\ S \in SUBSET (Nat \ {0}) /\ S \in SUBSET (1 .. last)
          /\ \A a \in S : a < id
      BY <1>1, <1>7, <3>1 DEF Kids, IDs
    <3>4. IsFiniteSet(S)
      <4>1. IsFiniteSet(1 .. last)
        BY <1>1, FS_Interval
      <4> QED
        BY <3>3, <4>1, FS_Subset
    <3>5. PICK head \in Nat, old \in Nat : head = nodes[n].head /\ old = nodes[n].tail
      BY <1>1, <2>4
    <3>6. /\ ListEnds(S, head, old, s)
          /\ \A a \in S : IsNext(S, a, nodes[a].next) /\ IsPrev(S, a, nodes[a].prev)
      BY <2>4, <3>2, <3>3, <3>5 DEF TreeInv, ListsExact, IDs
    <3>7. O[n] = nodes[n] /\ n # id /\ \A a \in S : O[a] = nodes[a] /\ a # id
      BY <1>1, <1>7, <1>8, <2>4, <3>3
    <3>8. CASE source = n
      <4>1. tail = old /\ (tail = invalid <=> head = invalid)
        BY <1>6, <3>3, <3>5, <3>6, <3>7, <3>8 DEF ListEnds, invalid
      <4>2. /\ nodes'[n].head = IF head = invalid THEN id ELSE head
            /\ nodes'[n].tail = id /\ nodes'[n].size = s + 1
        BY <1>7, <1>8, <3>2, <3>5, <3>7, <3>8, <4>1, <2>4
      <4>3. Kids(n)' = S \union {id}
        BY <2>2, <3>1, <3>8
      <4>4. ListEnds(S \union {id}, IF head = invalid THEN id ELSE head, id, s + 1)
        BY <1>7, <3>3, <3>4, <3>6, AppendEnds
      <4>5. ASSUME NEW a \in S
            PROVE  /\ IsNext(S \union {id}, a, nodes'[a].next)
                   /\ IsPrev(S \union {id}, a, nodes'[a].prev)
        <5>1. PICK next \in Nat, prev \in Nat : next = nodes[a].next /\ prev = nodes[a].prev
          <6>1. a \in 0 .. last
            BY <1>1, <3>3
          <6> QED
            BY <1>1, <6>1
        <5>2. /\ nodes'[a].next = IF a = old THEN id ELSE next
              /\ nodes'[a].prev = prev
          <6>1. a \in 0 .. id /\ a # invalid
            BY <1>7, <3>3 DEF invalid
          <6> QED
            BY <1>8, <3>7, <4>1, <5>1, <6>1
        <5>3. IsNext(S, a, next) /\ IsPrev(S, a, prev)
          BY <3>6, <5>1
        <5>4. IsNext(S \union {id}, a, IF a = old THEN id ELSE next)
          BY <1>7, <3>3, <3>6, <5>3, AppendNext
        <5>5. IsPrev(S \union {id}, a, prev)
          BY <1>7, <3>3, <3>6, <5>3, AppendPrev
        <5> QED
          BY <5>2, <5>4, <5>5
      <4>6. IsNext(S \union {id}, id, nodes'[id].next)
        <5>1. nodes'[id].next = invalid
          BY <1>1, <1>7, <1>8, <1>9, <1>10 DEF invalid
        <5> QED
          BY <1>7, <3>3, <5>1, AppendLast
      <4>7. IsPrev(S \union {id}, id, nodes'[id].prev)
        <5>1. nodes'[id].prev = old
          BY <1>7, <1>8, <4>1
        <5> QED
          BY <1>7, <3>3, <3>6, <5>1, AppendPrev
      <4> QED
        BY <4>2, <4>3, <4>4, <4>5, <4>6, <4>7
    <3>9. CASE source # n
      <4>1. Kids(n)' = S
        BY <2>2, <3>1, <3>9
      <4>2. nodes'[n].head = head /\ nodes'[n].tail = old /\ nodes'[n].size = s
        BY <1>7, <1>8, <2>4, <3>2, <3>5, <3>7, <3>9
      <4>3. ASSUME NEW a \in S PROVE nodes'[a].next = nodes[a].next /\ nodes'[a].prev = nodes[a].prev
        <5>1. a \in 0 .. id /\ nodes[a].up = n
          BY <1>7, <3>1, <3>3
        <5>2. a # tail \/ tail = invalid
          \* The old tail is a child of source.
          <6>1. CASE source \in 1 .. last
            <7>1. O[source] = nodes[source]
              BY <1>1, <1>7, <1>8, <6>1
            <7>2. ListEnds(Kids(source), nodes[source].head, nodes[source].tail, nodes[source].size)
              BY <6>1 DEF TreeInv, ListsExact, IDs
            <7>3. tail # invalid => nodes[tail].up = source
              BY <1>6, <7>1, <7>2 DEF ListEnds, Kids, invalid
            <7> QED
              BY <3>9, <5>1, <7>3
          <6>2. CASE source = id
            BY <1>6, <1>9, <6>2 DEF invalid
          <6>3. CASE source = 0
            <7>1. last = 0
              BY <1>4, <6>3
            <7> QED
              BY <1>10, <7>1 DEF invalid
          <6> QED
            BY <1>1, <1>4, <1>7, <6>1, <6>2, <6>3
        <5> QED
          BY <1>8, <3>7, <5>1, <5>2
      <4> QED
        BY <3>6, <4>1, <4>2, <4>3
    <3> QED
      BY <3>8, <3>9
  <2> QED
    BY <1>1, <1>7, <2>3, <2>4
<1>13. ListsExact'
  BY <1>3, <1>12 DEF ListsExact, IDs
<1> QED
  BY <1>1, <1>3, <1>7, <1>11, <1>13 DEF TreeInv

\* The iterator only reads, and every id it reads is in range.
LEMMA NextTreeInv == TreeInv /\ [Next]_vars => TreeInv'
<1> SUFFICES ASSUME TreeInv, [Next]_vars PROVE TreeInv'
  OBVIOUS
<1>1. /\ last \in Nat /\ nodes \in [0 .. last -> TwoWayNode]
      /\ \A n \in 0 .. last :
           {nodes[n].up, nodes[n].prev, nodes[n].next, nodes[n].head, nodes[n].tail} \subseteq 0 .. last
      /\ cursor \in [node : 0 .. last, id : 0 .. last, seen : Seq(Nat)]
  BY DEF TreeInv, TypeOK
<1>2. CASE AddNode
  BY <1>2, AddNodeKeeps
<1>3. ASSUME UNCHANGED <<nodes, last>>, cursor' \in [node : 0 .. last, id : 0 .. last, seen : Seq(Nat)]
      PROVE  TreeInv'
  BY <1>3 DEF TreeInv, TypeOK, ListsExact, Kids, IDs
<1>4. CASE BeginOut
  <2>1. PICK n \in IDs : cursor' = Begin(n)
    BY <1>4 DEF BeginOut
  <2>2. n \in 0 .. last /\ nodes[n].head \in 0 .. last /\ <<>> \in Seq(Nat)
    BY <1>1, <2>1 DEF IDs
  <2> QED
    BY <1>3, <1>4, <2>1, <2>2 DEF BeginOut, Begin
<1>5. CASE Advance
  <2>1. PICK next \in 0 .. last : next = nodes[cursor.id].next
    BY <1>1
  <2>2. PICK seen \in Seq(Nat) : seen = Append(cursor.seen, cursor.id)
    <3>1. cursor.seen \in Seq(Nat) /\ cursor.id \in Nat
      BY <1>1
    <3>2. Append(cursor.seen, cursor.id) \in Seq(Nat)
      BY <3>1
    <3> QED
      BY <3>2
  <2>3. cursor' = [cursor EXCEPT !.id = next, !.seen = seen]
    BY <1>5, <2>1, <2>2 DEF Advance
  <2>4. cursor' \in [node : 0 .. last, id : 0 .. last, seen : Seq(Nat)]
    BY <1>1, <2>1, <2>2, <2>3
  <2> QED
    BY <1>3, <1>5, <2>4 DEF Advance
<1>6. CASE UNCHANGED vars
  BY <1>1, <1>3, <1>6 DEF vars
<1> QED
  BY <1>2, <1>4, <1>5, <1>6 DEF Next

\* Whatever the client adds, from either constructor and for every size: each list is
\* exactly the children of its node, in both directions.
THEOREM ListsStayExact == Spec => []ListsExact
<1>1. TreeInv => ListsExact
  BY DEF TreeInv
<1> QED
  BY InitTreeInv, NextTreeInv, <1>1, PTL DEF Spec

\* Every id in the tree and in the iterator is one of an existing node, or
\* invalid.
THEOREM TypeCorrect == Spec => []TypeOK
<1>1. TreeInv => TypeOK
  BY DEF TreeInv
<1> QED
  BY InitTreeInv, NextTreeInv, <1>1, PTL DEF Spec

---------------------------------------------------------------------------
\* The children of the node the iterator walks, and what it has delivered.
kids == Kids(cursor.node)
seen == {cursor.seen[i] : i \in 1 .. Len(cursor.seen)}

CursorInv == TreeInv /\ CursorExact

\* add_node gives a node at most the new child.
LEMMA KidsGrow ==
  ASSUME TreeInv, AddNode, NEW n \in IDs
  PROVE  Kids(n)' = Kids(n) \/ Kids(n)' = Kids(n) \union {last + 1}
<1>1. last \in Nat /\ nodes \in [0 .. last -> TwoWayNode] /\ last' = last + 1
  BY DEF TreeInv, TypeOK, AddNode
<1>2. PICK source \in Sources : nodes' = add_node(nodes, source, last + 1)
  BY DEF AddNode
<1>3. PICK O : O = emplace_back(nodes, last + 1)
  OBVIOUS
<1>4. DOMAIN O = 0 .. last + 1 /\ \A m \in 1 .. last : O[m] = nodes[m]
  BY <1>1, <1>3 DEF emplace_back
<1>5. nodes' = hang(O, source, last + 1)
  BY <1>2, <1>3 DEF add_node
<1>6. \A m \in 1 .. last : nodes'[m].up = nodes[m].up
  BY <1>1, <1>4, <1>5 DEF hang, hung
<1>7. 1 .. last + 1 = (1 .. last) \union {last + 1}
  BY <1>1
<1> QED
  BY <1>1, <1>6, <1>7 DEF Kids, IDs

\* Growing the tree does not touch what an iterator has behind it.
LEMMA GrowthKeepsCursor == CursorInv /\ AddNode => CursorExact'
<1> SUFFICES ASSUME CursorInv, AddNode PROVE CursorExact'
  OBVIOUS
<1>1. /\ TreeInv /\ CursorExact /\ cursor' = cursor
      /\ last \in Nat /\ cursor.node \in 0 .. last
  BY DEF CursorInv, TreeInv, TypeOK, AddNode
<1>2. CASE cursor.node = invalid
  BY <1>1, <1>2 DEF CursorExact
<1>3. CASE cursor.node # invalid
  <2>1. /\ cursor.node \in IDs /\ kids \in SUBSET (1 .. last) /\ kids \in SUBSET Nat
        /\ kids' = kids \/ kids' = kids \union {last + 1}
    BY <1>1, <1>3, KidsGrow DEF kids, Kids, IDs, invalid
  <2>2. seen' = seen /\ (is_valid(cursor') <=> is_valid(cursor))
    BY <1>1 DEF seen, is_valid
  <2>3. /\ seen \subseteq kids
        /\ is_valid(cursor) => cursor.id \in kids /\ seen = {a \in kids : a < cursor.id}
        /\ ~ is_valid(cursor) => \A a \in kids \ seen : \A b \in seen : b < a
    BY <1>1, <1>3 DEF CursorExact, kids, seen
  <2>4. is_valid(cursor) => seen = {a \in kids' : a < cursor.id} /\ cursor.id \in kids'
    BY <1>1, <2>1, <2>3, PrefixGrow
  <2>5. ~ is_valid(cursor) => \A a \in kids' \ seen : \A b \in seen : b < a
    BY <1>1, <2>1, <2>3, SuffixGrow
  <2>6. seen \subseteq kids'
    BY <2>1, <2>3
  <2>7. \A i, j \in 1 .. Len(cursor.seen) : i < j => cursor.seen[i] < cursor.seen[j]
    BY <1>1, <1>3 DEF CursorExact
  <2> QED
    BY <1>1, <2>2, <2>4, <2>5, <2>6, <2>7 DEF CursorExact, kids, seen
<1> QED
  BY <1>2, <1>3

\* A step of the iterator delivers the child it stands on.
LEMMA AdvanceKeepsCursor == CursorInv /\ Advance => CursorExact'
<1> SUFFICES ASSUME CursorInv, Advance PROVE CursorExact'
  OBVIOUS
<1>1. /\ TreeInv /\ CursorExact /\ is_valid(cursor)
      /\ nodes' = nodes /\ last' = last /\ last \in Nat
      /\ nodes \in [0 .. last -> TwoWayNode]
      /\ cursor \in [node : 0 .. last, id : 0 .. last, seen : Seq(Nat)]
  BY DEF CursorInv, TreeInv, TypeOK, Advance
<1>2. PICK id \in 1 .. last : id = cursor.id
  BY <1>1 DEF is_valid, invalid
<1>3. PICK next \in Nat : next = nodes[id].next
  BY <1>1, <1>2 DEF TwoWayNode
<1>4. PICK longer : longer = Append(cursor.seen, id)
  OBVIOUS
<1>5. /\ cursor'.node = cursor.node /\ cursor'.id = next /\ cursor'.seen = longer
  <2>1. cursor' = [cursor EXCEPT !.id = next, !.seen = longer]
    BY <1>2, <1>3, <1>4 DEF Advance
  <2> QED
    BY <1>1, <2>1
<1>6. CASE cursor.node = invalid
  BY <1>5, <1>6 DEF CursorExact
<1>7. CASE cursor.node # invalid
  <2>1. /\ kids' = kids /\ kids \in SUBSET Nat /\ id \in kids
        /\ seen = {a \in kids : a < id} /\ cursor.node \in IDs
        /\ \A i, j \in 1 .. Len(cursor.seen) : i < j => cursor.seen[i] < cursor.seen[j]
    BY <1>1, <1>2, <1>5, <1>7 DEF CursorExact, kids, seen, Kids, IDs, invalid
  <2>2. IsNext(kids, id, next)
    BY <1>1, <1>3, <2>1 DEF TreeInv, ListsExact, kids
  <2>3. /\ seen' = seen \union {id}
        /\ \A i, j \in 1 .. Len(longer) : i < j => longer[i] < longer[j]
    <3>1. cursor.seen \in Seq(Nat) /\ id \in Nat
      BY <1>1, <1>2
    <3>2. \A i \in 1 .. Len(cursor.seen) : cursor.seen[i] < id
      BY <2>1 DEF seen
    <3>3. {longer[i] : i \in 1 .. Len(longer)} = seen \union {id}
      <4>1. {longer[i] : i \in 1 .. Len(longer)} = {cursor.seen[i] : i \in 1 .. Len(cursor.seen)} \union {id}
        BY ONLY <1>4, <3>1, AppendSeen
      <4> QED
        BY <4>1 DEF seen
    <3>4. seen' = {longer[i] : i \in 1 .. Len(longer)}
      BY <1>5 DEF seen
    <3>5. \A i, j \in 1 .. Len(longer) : i < j => longer[i] < longer[j]
      BY <1>1, <1>4, <2>1, <3>1, <3>2, AppendSeen
    <3> QED
      BY <3>3, <3>4, <3>5
  <2>4. CASE next = invalid
    <3>1. seen' = kids'
      BY <2>1, <2>2, <2>3, <2>4, PrefixEnd
    <3> QED
      BY <1>5, <2>3, <2>4, <3>1 DEF CursorExact, kids, seen, is_valid
  <2>5. CASE next # invalid
    <3>1. seen' = {a \in kids' : a < next} /\ next \in kids'
      BY <2>1, <2>2, <2>3, <2>5, PrefixStep DEF IsNext
    <3> QED
      BY <1>5, <2>3, <2>5, <3>1 DEF CursorExact, kids, seen, is_valid
  <2> QED
    BY <2>4, <2>5
<1> QED
  BY <1>6, <1>7

\* A new iterator stands at the head of its list, before all of it.
LEMMA BeginKeepsCursor == CursorInv /\ BeginOut => CursorExact'
<1> SUFFICES ASSUME CursorInv, BeginOut PROVE CursorExact'
  OBVIOUS
<1>1. PICK n \in IDs : cursor' = Begin(n)
  BY DEF BeginOut
<1>2. /\ cursor'.node = n /\ cursor'.id = nodes[n].head /\ cursor'.seen = <<>>
      /\ nodes' = nodes /\ last' = last /\ last \in Nat
  BY <1>1 DEF Begin, BeginOut, CursorInv, TreeInv, TypeOK
<1>3. seen' = {} /\ kids' = Kids(n) /\ Kids(n) \in SUBSET Nat
  BY <1>2 DEF seen, kids, Kids, IDs
<1>4. ListEnds(Kids(n), nodes[n].head, nodes[n].tail, nodes[n].size)
  BY DEF CursorInv, TreeInv, ListsExact
<1>5. ASSUME is_valid(cursor')
      PROVE  cursor'.id \in Kids(n) /\ {} = {a \in Kids(n) : a < cursor'.id}
  <2>1. cursor'.id \in Kids(n) /\ \A a \in Kids(n) : cursor'.id <= a
    BY <1>2, <1>4, <1>5 DEF ListEnds, is_valid
  <2>2. ASSUME NEW a \in Kids(n) PROVE ~ (a < cursor'.id)
    <3>1. a \in Nat /\ cursor'.id \in Nat /\ cursor'.id <= a
      BY <1>3, <2>1
    <3> QED
      BY <3>1
  <2> QED
    BY <2>1, <2>2
<1> QED
  BY <1>2, <1>3, <1>5 DEF CursorExact, kids, seen

\* Every step keeps the iterator where it should be.
LEMMA CursorSteps == CursorInv /\ [Next]_vars => CursorInv'
<1> SUFFICES ASSUME CursorInv, [Next]_vars PROVE CursorInv'
  OBVIOUS
<1>1. TreeInv'
  BY NextTreeInv DEF CursorInv
<1>2. CASE UNCHANGED vars
  <2>1. kids' = kids /\ seen' = seen /\ cursor' = cursor
    BY <1>2 DEF vars, kids, seen, Kids, IDs
  <2>2. CursorExact'
    BY <2>1 DEF CursorInv, CursorExact, kids, seen, is_valid
  <2> QED
    BY <1>1, <2>2 DEF CursorInv
<1> QED
  BY <1>1, <1>2, GrowthKeepsCursor, AdvanceKeepsCursor, BeginKeepsCursor
  DEF Next, CursorInv

\* However the client grows the tree under it, an iterator has delivered the
\* children before the one it stands on, each once and in order.
THEOREM CursorStaysExact == Spec => []CursorExact
<1>1. Init => CursorInv
  BY InitTreeInv DEF CursorInv, CursorExact, Init, NoCursor
<1>2. CursorInv => CursorExact
  BY DEF CursorInv
<1> QED
  BY <1>1, <1>2, CursorSteps, PTL DEF Spec

---------------------------------------------------------------------------
(***************************************************************************)
(* fsntu::SearchTree.  T is a vector with ids 0 .. k.                      *)
(***************************************************************************)
\* The fields have their types and every id in them is one of T.
UniTypes(T, k) ==
  /\ k \in Nat /\ T \in [0 .. k -> U!Node]
  /\ \A n \in 0 .. k : T[n].up \in 0 .. k /\ T[n].prev \in 0 .. k /\ T[n].tail \in 0 .. k

UniKids(T, k, n) == {m \in 1 .. k : T[m].up = n}

\* The list of n is its children; prev leads to older nodes, for the root too.
UniListed(T, k, n) ==
  /\ T[n].size = Cardinality(UniKids(T, k, n))
  /\ U!IsPrev(UniKids(T, k, n), k + 1, T[n].tail)
  /\ \A a \in UniKids(T, k, n) : U!IsPrev(UniKids(T, k, n), a, T[a].prev)

UniTree(T, k) ==
  /\ UniTypes(T, k)
  /\ \A n \in 1 .. k : /\ T[n].up <= n /\ (n # 1 => T[n].up < n)
                       /\ T[n].prev < n
                       /\ UniListed(T, k, n)

\* FiniteSets is one module, however often it is instantiated.
LEMMA UniCardinality == \A S : U!Cardinality(S) = Cardinality(S)
BY DEF U!Cardinality, Cardinality

\* The ids of a vector are what the code computes from its size.
LEMMA UniSize ==
  ASSUME NEW T, NEW k, UniTypes(T, k)
  PROVE  /\ DOMAIN T = 0 .. k /\ U!Last(T) = k /\ U!NodeIDs(T) = 1 .. k /\ k \in Nat
         /\ \A n : U!Kids(T, n) = UniKids(T, k, n)
<1>1. DOMAIN T = 0 .. k /\ k \in Nat
  BY DEF UniTypes
<1>2. Cardinality(0 .. k) = k + 1
  BY <1>1, FS_Interval
<1>3. U!Last(T) = k /\ U!NodeIDs(T) = 1 .. k
  BY <1>1, <1>2, UniCardinality DEF U!Last, U!NodeIDs
<1> QED
  BY <1>1, <1>3 DEF U!Kids, UniKids

\* What add_node writes, field by field.
UniWritten(W, T, k, source, d) ==
  \E tail \in 0 .. k :
    /\ tail = IF source = k + 1 THEN 0 ELSE T[source].tail
    /\ W \in [0 .. k + 1 -> U!Node]
    /\ \A n \in 0 .. k + 1 :
         /\ W[n].up = IF n = k + 1 THEN source ELSE T[n].up
         /\ W[n].prev = IF n = k + 1 THEN tail ELSE T[n].prev
         /\ W[n].data = IF n = k + 1 THEN d ELSE T[n].data
         /\ W[n].tail = IF n = source THEN k + 1 ELSE IF n = k + 1 THEN 0 ELSE T[n].tail
         /\ W[n].size = IF n = source THEN (IF n = k + 1 THEN 1 ELSE T[n].size + 1)
                        ELSE IF n = k + 1 THEN 0 ELSE T[n].size

\* It does: the fields that are not listed stay.
LEMMA UniWrites ==
  ASSUME NEW T, NEW k, UniTypes(T, k), NEW d \in Int,
         NEW source \in 0 .. k + 1, source = k + 1 => k = 0,
         NEW W, W = U!add_node(T, source, d)
  PROVE  UniWritten(W, T, k, source, d)
<1>1. /\ k \in Nat /\ T \in [0 .. k -> U!Node] /\ U!Last(T) = k
      /\ \A n \in 0 .. k : T[n].tail \in 0 .. k
  BY UniSize DEF UniTypes
<1>2. PICK id : id = k + 1
  OBVIOUS
<1>3. id \in 1 .. id /\ id \in Nat /\ id \in 0 .. id /\ source \in 0 .. id
  BY <1>1, <1>2
<1>4. PICK O : O = U!emplace_back(T, d)
  OBVIOUS
<1>5. U!NewNode(d) \in U!Node
  BY DEF U!NewNode, U!Node, U!invalid
<1>6. /\ O \in [0 .. id -> U!Node] /\ O[id] = U!NewNode(d) /\ \A n \in 0 .. k : O[n] = T[n]
  <2>1. O = [n \in 0 .. id |-> IF n \in 0 .. k THEN T[n] ELSE U!NewNode(d)]
    BY <1>1, <1>2, <1>4 DEF U!emplace_back
  <2>2. id \notin 0 .. k /\ \A n \in 0 .. k : n \in 0 .. id
    BY <1>1, <1>2
  <2> QED
    BY <1>1, <1>3, <1>5, <2>1, <2>2
<1>7. PICK tail : tail = O[source].tail
  OBVIOUS
<1>8. tail \in 0 .. k /\ tail = IF source = id THEN 0 ELSE T[source].tail
  <2>1. CASE source = id
    BY <1>1, <1>6, <1>7, <2>1 DEF U!NewNode, U!invalid
  <2>2. CASE source # id
    <3>1. source \in 0 .. k
      BY <1>1, <1>2, <1>3, <2>2
    <3> QED
      BY <1>1, <1>6, <1>7, <2>2, <3>1
  <2> QED
    BY <2>1, <2>2
<1>9. PICK P : P = [O EXCEPT ![id].up = source, ![id].prev = tail]
  OBVIOUS
<1>10. /\ P \in [0 .. id -> U!Node]
       /\ \A n \in 0 .. id : /\ n # id => P[n] = O[n]
                             /\ n = id => P[n] = [O[n] EXCEPT !.up = source, !.prev = tail]
  <2>1. [O[id] EXCEPT !.up = source, !.prev = tail] \in U!Node
    <3>1. O[id] \in U!Node /\ source \in Nat /\ tail \in Nat
      BY <1>1, <1>3, <1>6, <1>8
    <3> QED
      BY <3>1 DEF U!Node
  <2>2. P = [O EXCEPT ![id] = [O[id] EXCEPT !.up = source, !.prev = tail]]
    BY <1>3, <1>6, <1>9
  <2> QED
    BY <1>3, <1>6, <2>1, <2>2
<1>11. W = [P EXCEPT ![source].tail = id, ![source].size = @ + 1]
  BY <1>1, <1>2, <1>4, <1>7, <1>9 DEF U!add_node, U!hang
<1>12. PICK size \in Nat : size = P[source].size + 1
  <2>1. P[source].size \in Nat
    BY <1>3, <1>10 DEF U!Node
  <2> QED
    BY <2>1
<1>13. /\ W \in [0 .. id -> U!Node]
       /\ \A n \in 0 .. id : /\ n # source => W[n] = P[n]
                             /\ n = source => W[n] = [P[n] EXCEPT !.tail = id, !.size = size]
  <2>1. [P[source] EXCEPT !.tail = id, !.size = size] \in U!Node
    <3>1. P[source] \in U!Node /\ id \in Nat /\ size \in Nat
      BY <1>3, <1>10
    <3> QED
      BY ONLY <3>1 DEF U!Node
  <2>2. W = [P EXCEPT ![source] = [P[source] EXCEPT !.tail = id, !.size = size]]
    BY <1>3, <1>10, <1>11, <1>12
  <2>3. source \in 0 .. id /\ P \in [0 .. id -> U!Node]
    BY <1>3, <1>10
  <2> QED
    BY ONLY <2>1, <2>2, <2>3
<1>14. ASSUME NEW n \in 0 .. id
       PROVE  /\ W[n].up = IF n = id THEN source ELSE T[n].up
              /\ W[n].prev = IF n = id THEN tail ELSE T[n].prev
              /\ W[n].data = IF n = id THEN d ELSE T[n].data
              /\ W[n].tail = IF n = source THEN id ELSE IF n = id THEN 0 ELSE T[n].tail
              /\ W[n].size = IF n = source THEN (IF n = id THEN 1 ELSE T[n].size + 1)
                             ELSE IF n = id THEN 0 ELSE T[n].size
  <2>1. /\ P[n].up = IF n = id THEN source ELSE O[n].up
        /\ P[n].prev = IF n = id THEN tail ELSE O[n].prev
        /\ P[n].data = O[n].data /\ P[n].tail = O[n].tail /\ P[n].size = O[n].size
    <3>1. O[n] \in [up : Nat, prev : Nat, tail : Nat, size : Nat, data : Int]
      BY <1>6 DEF U!Node
    <3>2. CASE n = id
      BY <1>10, <3>1, <3>2
    <3>3. CASE n # id
      BY <1>10, <3>3
    <3> QED
      BY <3>2, <3>3
  <2>2. /\ W[n].up = P[n].up /\ W[n].prev = P[n].prev /\ W[n].data = P[n].data
        /\ W[n].tail = IF n = source THEN id ELSE P[n].tail
        /\ W[n].size = IF n = source THEN P[n].size + 1 ELSE P[n].size
    <3>1. P[n] \in [up : Nat, prev : Nat, tail : Nat, size : Nat, data : Int]
      BY <1>10 DEF U!Node
    <3>2. CASE n = source
      BY <1>12, <1>13, <3>1, <3>2
    <3>3. CASE n # source
      BY <1>13, <3>3
    <3> QED
      BY <3>2, <3>3
  <2>3. CASE n = id
    BY <1>6, <2>1, <2>2, <2>3 DEF U!NewNode, U!invalid
  <2>4. CASE n # id
    <3>1. n \in 0 .. k
      BY <1>1, <1>2, <2>4
    <3> QED
      BY <1>6, <2>1, <2>2, <2>4, <3>1
  <2> QED
    BY <2>3, <2>4
<1>15. tail \in 0 .. k /\ tail = IF source = id THEN 0 ELSE T[source].tail
  BY ONLY <1>8
<1>16. W \in [0 .. id -> U!Node]
  BY ONLY <1>13
<1> QED
  BY ONLY <1>2, <1>14, <1>15, <1>16 DEF UniWritten

\* add_node hangs the new node in front of the children of its source.
LEMMA UniAdd ==
  ASSUME NEW T, NEW k, UniTree(T, k), NEW d \in Int,
         NEW source \in 0 .. k + 1, source = k + 1 => k = 0,
         NEW W, W = U!add_node(T, source, d)
  PROVE  /\ UniTree(W, k + 1)
         /\ \A n : UniKids(W, k + 1, n) = UniKids(T, k, n) \union
                                            (IF n = source THEN {k + 1} ELSE {})
         /\ \A n \in 0 .. k : /\ W[n].prev = T[n].prev /\ W[n].data = T[n].data
                              /\ W[n].up = T[n].up
         /\ W[k + 1].data = d
<1>1. /\ UniTypes(T, k) /\ k \in Nat /\ T \in [0 .. k -> U!Node]
      /\ \A n \in 0 .. k : T[n].up \in 0 .. k /\ T[n].prev \in 0 .. k /\ T[n].tail \in 0 .. k
      /\ \A n \in 1 .. k : T[n].up <= n /\ (n # 1 => T[n].up < n) /\ T[n].prev < n
  BY DEF UniTree, UniTypes
<1>2. PICK id : id = k + 1
  OBVIOUS
<1>3. /\ id \in Nat \ {0} /\ source \in 0 .. id /\ (source = id => k = 0) /\ k < id
      /\ \A n \in 0 .. id : n = id \/ n \in 0 .. k
      /\ \A n \in 1 .. id : n = id \/ n \in 1 .. k
      /\ \A n \in 0 .. k : n # id /\ n \in 0 .. id
  BY <1>1, <1>2
<1>4. PICK tail \in 0 .. k :
        /\ tail = IF source = id THEN 0 ELSE T[source].tail
        /\ W \in [0 .. id -> U!Node]
        /\ \A n \in 0 .. id :
             /\ W[n].up = IF n = id THEN source ELSE T[n].up
             /\ W[n].prev = IF n = id THEN tail ELSE T[n].prev
             /\ W[n].data = IF n = id THEN d ELSE T[n].data
             /\ W[n].tail = IF n = source THEN id ELSE IF n = id THEN 0 ELSE T[n].tail
             /\ W[n].size = IF n = source THEN (IF n = id THEN 1 ELSE T[n].size + 1)
                            ELSE IF n = id THEN 0 ELSE T[n].size
  <2>1. UniWritten(W, T, k, source, d)
    BY <1>1, UniWrites
  <2> QED
    BY ONLY <1>2, <2>1 DEF UniWritten
<1>5. ASSUME NEW n \in 0 .. id
      PROVE  W[n].up \in 0 .. id /\ W[n].prev \in 0 .. id /\ W[n].tail \in 0 .. id
  <2>1. CASE n = id
    BY <1>3, <1>4, <2>1
  <2>2. CASE n \in 0 .. k
    <3>1. n # id /\ T[n].up \in 0 .. id /\ T[n].prev \in 0 .. id /\ T[n].tail \in 0 .. id
      BY <1>1, <1>3, <2>2
    <3>2. id \in 0 .. id
      BY <1>3
    <3> QED
      BY <1>4, <3>1, <3>2
  <2> QED
    BY <1>3, <2>1, <2>2
<1>6. UniTypes(W, id)
  BY <1>3, <1>4, <1>5 DEF UniTypes
<1>7. ASSUME NEW n \in 1 .. id
      PROVE  W[n].up <= n /\ (n # 1 => W[n].up < n) /\ W[n].prev < n
  <2>1. CASE n = id
    BY <1>1, <1>3, <1>4, <2>1
  <2>2. CASE n \in 1 .. k
    <3>1. n \in 0 .. id /\ n # id
      BY <1>1, <1>3, <2>2
    <3>2. W[n].up = T[n].up /\ W[n].prev = T[n].prev
      BY <1>4, <3>1
    <3> QED
      BY <1>1, <2>2, <3>2
  <2> QED
    BY <1>3, <2>1, <2>2
<1>8. ASSUME NEW n
      PROVE  UniKids(W, id, n) = UniKids(T, k, n) \union (IF n = source THEN {id} ELSE {})
  <2>1. W[id].up = source /\ \A m \in 1 .. k : W[m].up = T[m].up
    BY <1>1, <1>3, <1>4
  <2>2. 1 .. id = (1 .. k) \union {id}
    BY <1>1, <1>2
  <2> QED
    BY <2>1, <2>2 DEF UniKids
<1>9. ASSUME NEW n \in 1 .. id PROVE UniListed(W, id, n)
  <2>1. PICK S, R : S = UniKids(T, k, n) /\ R = UniKids(W, id, n)
    OBVIOUS
  <2>2. S \in SUBSET (1 .. k) /\ R = S \union (IF n = source THEN {id} ELSE {})
    BY <1>8, <2>1 DEF UniKids
  <2>3. IsFiniteSet(S) /\ id \notin S
    <3>1. IsFiniteSet(1 .. k)
      BY <1>1, FS_Interval
    <3>2. IsFiniteSet(S)
      BY <2>2, <3>1, FS_Subset
    <3>3. id \notin 1 .. k
      BY <1>1, <1>2
    <3> QED
      BY <2>2, <3>2, <3>3
  <2>4. \A a \in S : /\ W[a].prev = T[a].prev /\ T[a].prev \in Nat
                     /\ a \in 1 .. k /\ a \in Nat /\ a <= k /\ a < id
    BY <1>1, <1>3, <1>4, <2>2
  <2>5. CASE n = id
    <3>1. S = {}
      BY <1>1, <1>3, <2>1, <2>5 DEF UniKids
    <3>2. Cardinality({}) = 0 /\ Cardinality({id}) = 1
      BY FS_EmptySet, FS_Singleton
    <3>3. CASE n = source
      <4>1. W[n].size = 1 /\ W[n].tail = id /\ W[id].prev = 0 /\ R = {id}
        BY <1>3, <1>4, <2>2, <2>5, <3>1, <3>3
      <4>2. U!IsPrev({id}, id + 1, id) /\ U!IsPrev({id}, id, 0)
        BY <1>3 DEF U!IsPrev, U!invalid
      <4> QED
        BY <2>1, <3>2, <4>1, <4>2 DEF UniListed
    <3>4. CASE n # source
      <4>1. W[n].size = 0 /\ W[n].tail = 0 /\ R = {}
        BY <1>3, <1>4, <2>2, <2>5, <3>1, <3>4
      <4>2. U!IsPrev({}, id + 1, 0)
        BY DEF U!IsPrev, U!invalid
      <4> QED
        BY <2>1, <3>2, <4>1, <4>2 DEF UniListed
    <3> QED
      BY <3>3, <3>4
  <2>6. CASE n \in 1 .. k
    <3>1. /\ T[n].size = Cardinality(S) /\ U!IsPrev(S, id, T[n].tail)
          /\ \A a \in S : U!IsPrev(S, a, T[a].prev)
      BY <1>2, <2>1, <2>6 DEF UniTree, UniListed
    <3>2. n # id /\ n \in 0 .. k /\ n \in 0 .. id /\ T[n].tail \in 0 .. k
      BY <1>1, <1>3, <2>6
    <3>3. CASE n = source
      <4>1. /\ W[n].size = Cardinality(S) + 1 /\ W[n].tail = id /\ W[id].prev = T[n].tail
            /\ R = S \union {id}
        BY <1>3, <1>4, <2>2, <3>1, <3>2, <3>3
      <4>2. Cardinality(R) = Cardinality(S) + 1
        BY <2>3, <4>1, FS_AddElement
      <4>3. U!IsPrev(R, id + 1, id)
        BY <1>3, <2>4, <4>1 DEF U!IsPrev, U!invalid
      <4>4. U!IsPrev(R, id, T[n].tail)
        BY <1>3, <2>4, <3>1, <3>2, <4>1 DEF U!IsPrev, U!invalid
      <4>5. ASSUME NEW a \in S PROVE U!IsPrev(R, a, W[a].prev)
        BY <1>3, <2>4, <3>1, <4>1 DEF U!IsPrev, U!invalid
      <4> QED
        BY <2>1, <4>1, <4>2, <4>3, <4>4, <4>5 DEF UniListed
    <3>4. CASE n # source
      <4>1. W[n].size = Cardinality(S) /\ W[n].tail = T[n].tail /\ R = S
        BY <1>4, <2>2, <3>1, <3>2, <3>4
      <4>2. U!IsPrev(R, id + 1, T[n].tail)
        <5>1. T[n].tail = 0 => S = {}
          BY <2>4, <3>1, <1>3 DEF U!IsPrev, U!invalid
        <5> QED
          BY <1>3, <2>4, <3>1, <3>2, <4>1, <5>1 DEF U!IsPrev, U!invalid
      <4>3. \A a \in R : U!IsPrev(R, a, W[a].prev)
        BY <2>4, <3>1, <4>1
      <4> QED
        BY <2>1, <4>1, <4>2, <4>3 DEF UniListed
    <3> QED
      BY <3>3, <3>4
  <2> QED
    BY <1>3, <2>5, <2>6
<1>10. UniTree(W, id)
  BY <1>6, <1>7, <1>9 DEF UniTree
<1> QED
  BY <1>1, <1>2, <1>3, <1>4, <1>8, <1>10

\* A tree with a root and nothing else, and the one without a root.
LEMMA UniFresh ==
  /\ UniTree(U!Empty, 0)
  /\ \A d \in Int : /\ UniTree(U!Tree(d), 1)
                    /\ \A n \in Nat \ {0} : UniKids(U!Tree(d), 1, n) = {}
<1>1. \A d \in Int : U!NewNode(d) \in U!Node
  BY DEF U!NewNode, U!Node, U!invalid
<1>2. UniTree(U!Empty, 0)
  <2>1. U!Empty \in [0 .. 0 -> U!Node]
    BY <1>1 DEF U!Empty
  <2>2. \A n \in 0 .. 0 : U!Empty[n].up = 0 /\ U!Empty[n].prev = 0 /\ U!Empty[n].tail = 0
    BY DEF U!Empty, U!NewNode, U!invalid
  <2>3. \A n \in 0 .. 0 : U!Empty[n].up \in 0 .. 0 /\ U!Empty[n].prev \in 0 .. 0 /\ U!Empty[n].tail \in 0 .. 0
    BY <2>2
  <2>4. 1 .. 0 = {}
    OBVIOUS
  <2> QED
    BY <2>1, <2>3, <2>4 DEF UniTree, UniTypes
<1>3. ASSUME NEW d \in Int
      PROVE  /\ UniTree(U!Tree(d), 1)
             /\ \A n \in Nat \ {0} : UniKids(U!Tree(d), 1, n) = {}
  <2>1. PICK T : T = U!Tree(d)
    OBVIOUS
  <2>2. /\ T \in [0 .. 1 -> U!Node]
        /\ \A n \in 0 .. 1 : T[n].up = 0 /\ T[n].prev = 0 /\ T[n].tail = 0 /\ T[n].size = 0
    BY <1>1, <2>1 DEF U!Tree, U!NewNode, U!invalid
  <2>3. UniTypes(T, 1)
    BY <2>2 DEF UniTypes
  <2>4. ASSUME NEW n \in Nat \ {0} PROVE UniKids(T, 1, n) = {}
    BY <2>2 DEF UniKids
  <2>5. UniListed(T, 1, 1)
    <3>1. U!IsPrev({}, 2, 0)
      BY DEF U!IsPrev, U!invalid
    <3>2. T[1].size = 0 /\ T[1].tail = 0 /\ UniKids(T, 1, 1) = {}
      BY <2>2, <2>4
    <3> QED
      BY <3>1, <3>2, FS_EmptySet DEF UniListed
  <2>6. ASSUME NEW n \in 1 .. 1
        PROVE  T[n].up <= n /\ (n # 1 => T[n].up < n) /\ T[n].prev < n /\ UniListed(T, 1, n)
    <3>1. n = 1
      OBVIOUS
    <3> QED
      BY <2>2, <2>5, <3>1
  <2> QED
    BY <2>1, <2>3, <2>4, <2>6 DEF UniTree
<1> QED
  BY <1>2, <1>3

\* Moving a payload away changes nothing else.
LEMMA UniTake ==
  ASSUME NEW T, NEW k, UniTree(T, k), NEW i \in 0 .. k, NEW W, W = U!take(T, i)
  PROVE  /\ UniTree(W, k)
         /\ \A n : UniKids(W, k, n) = UniKids(T, k, n)
         /\ \A n \in 0 .. k : W[n].up = T[n].up /\ W[n].prev = T[n].prev /\ W[n].tail = T[n].tail
         /\ \A n \in 0 .. k : n # i => W[n].data = T[n].data
<1>1. /\ UniTypes(T, k) /\ k \in Nat /\ T \in [0 .. k -> U!Node]
  BY DEF UniTree, UniTypes
<1>2. W = [T EXCEPT ![i] = [T[i] EXCEPT !.data = -1]]
  BY <1>1 DEF U!take, U!Moved
<1>3. T[i] \in [up : Nat, prev : Nat, tail : Nat, size : Nat, data : Int]
  BY <1>1 DEF U!Node
<1>4. [T[i] EXCEPT !.data = -1] \in U!Node
  BY <1>3 DEF U!Node
<1>5. W \in [0 .. k -> U!Node]
  BY <1>1, <1>2, <1>4
<1>6. \A n \in 0 .. k : /\ W[n].up = T[n].up /\ W[n].prev = T[n].prev
                        /\ W[n].tail = T[n].tail /\ W[n].size = T[n].size
  BY <1>1, <1>2, <1>3
<1>7. ASSUME NEW n PROVE UniKids(W, k, n) = UniKids(T, k, n)
  BY <1>1, <1>6 DEF UniKids
<1>8. UniTypes(W, k)
  BY <1>1, <1>5, <1>6 DEF UniTypes
<1>9. ASSUME NEW n \in 1 .. k PROVE UniListed(W, k, n)
  <2>1. UniListed(T, k, n)
    BY DEF UniTree
  <2>2. n \in 0 .. k /\ \A a \in UniKids(T, k, n) : a \in 0 .. k
    BY <1>1 DEF UniKids
  <2> QED
    BY <1>6, <1>7, <2>1, <2>2 DEF UniListed
<1>10. ASSUME NEW n \in 1 .. k
       PROVE  W[n].up <= n /\ (n # 1 => W[n].up < n) /\ W[n].prev < n
  BY <1>1, <1>6 DEF UniTree
<1>11. \A n \in 0 .. k : n # i => W[n].data = T[n].data
  BY <1>1, <1>2
<1> QED
  BY <1>6, <1>7, <1>8, <1>9, <1>10, <1>11 DEF UniTree

\* from[a] is what a walk from a delivers.
Walks(from, T, k) ==
  /\ from[0] = <<>>
  /\ \A a \in 1 .. k : from[a] = <<a>> \o from[T[a].prev]
  /\ \A m : U!children(T, m) = from[T[m].tail]

\* The walks from all tails are one recursive function, unfolded.
LEMMA UniWalk == ASSUME NEW T, NEW k, UniTree(T, k) PROVE \E from : Walks(from, T, k)
<1>1. /\ k \in Nat /\ U!NodeIDs(T) = 1 .. k
      /\ \A a \in 1 .. k : T[a].prev \in Nat /\ T[a].prev < a
  <2>1. UniTypes(T, k) /\ \A a \in 1 .. k : T[a].prev < a
    BY DEF UniTree
  <2>2. U!NodeIDs(T) = 1 .. k
    BY <2>1, UniSize
  <2> QED
    BY <2>1, <2>2 DEF UniTypes
<1>2. PICK next : next = [m \in 1 .. k |-> T[m].prev]
  OBVIOUS
<1>3. \A a \in 1 .. k : next[a] \in Nat /\ next[a] < a /\ next[a] \in 0 .. k
  BY <1>1, <1>2
<1>4. PICK V, v0, F : V = Seq(1 .. k) /\ v0 = <<>> /\ F = [a \in 1 .. k |-> [w \in V |-> <<a>> \o w]]
  OBVIOUS
<1>5. v0 \in V /\ F \in [1 .. k -> [V -> V]]
  BY <1>4
<1>6. PICK g \in [0 .. k -> V] : g[0] = v0 /\ \A a \in 1 .. k : g[a] = F[a][g[next[a]]]
  <2>1. \E g : SolvesBack(g, next, k, V, v0, F)
    BY <1>1, <1>3, <1>5, BackRecursion
  <2> QED
    BY <2>1 DEF SolvesBack
<1>7. \A a \in 1 .. k : g[a] = <<a>> \o g[next[a]]
  BY <1>3, <1>4, <1>6
<1>8. DOMAIN next \union {U!invalid} = 0 .. k
  BY <1>1, <1>2 DEF U!invalid
<1>9. \A a \in 0 .. k : g[a] = IF a = U!invalid THEN <<>> ELSE <<a>> \o g[next[a]]
  <2>1. \A a \in 0 .. k : a = 0 \/ (a # 0 /\ a \in 1 .. k)
    BY <1>1
  <2> QED
    BY <1>4, <1>6, <1>7, <2>1 DEF U!invalid
<1>10. g = [a \in DOMAIN next \union {U!invalid} |->
              IF a = U!invalid THEN <<>> ELSE <<a>> \o g[next[a]]]
  BY <1>6, <1>8, <1>9
<1> DEFINE from == CHOOSE f : f = [a \in DOMAIN next \union {U!invalid} |->
                                     IF a = U!invalid THEN <<>> ELSE <<a>> \o f[next[a]]]
<1>11. from = [a \in DOMAIN next \union {U!invalid} |->
                 IF a = U!invalid THEN <<>> ELSE <<a>> \o from[next[a]]]
  BY <1>10
<1>12. \A m : U!children(T, m) = from[T[m].tail]
  BY <1>1, <1>2 DEF U!children, U!Walk
<1> HIDE DEF from
<1>13. from[0] = <<>> /\ \A a \in 1 .. k : from[a] = <<a>> \o from[next[a]]
  <2>1. 0 \in 0 .. k /\ \A a \in 1 .. k : a \in 0 .. k /\ a # 0
    BY <1>1
  <2> QED
    BY <1>8, <1>11, <2>1 DEF U!invalid
<1>14. \A a \in 1 .. k : next[a] = T[a].prev
  BY <1>2
<1> QED
  BY <1>12, <1>13, <1>14 DEF Walks

\* w delivers the elements of S, each once, the newer before the older.
Newest(w, S) ==
  /\ w \in Seq(Nat)
  /\ \A i, j \in 1 .. Len(w) : i < j => w[i] > w[j]
  /\ {w[i] : i \in 1 .. Len(w)} = S

\* An element in front of a delivery of older ones.
LEMMA NewestCons ==
  ASSUME NEW w, NEW S \in SUBSET Nat, Newest(w, S), NEW a \in Nat, \A b \in S : b < a
  PROVE  Newest(<<a>> \o w, {a} \union S)
<1> PICK v : v = <<a>> \o w
  OBVIOUS
<1>1. /\ w \in Seq(Nat) /\ Len(w) \in Nat
      /\ v \in Seq(Nat) /\ Len(v) = Len(w) + 1 /\ v[1] = a
      /\ \A i \in 2 .. Len(v) : i - 1 \in 1 .. Len(w) /\ v[i] = w[i - 1]
  BY DEF Newest
<1>2. \A i \in 1 .. Len(w) : w[i] \in S /\ i + 1 \in 2 .. Len(v) /\ v[i + 1] = w[i]
  BY <1>1 DEF Newest
<1>3. ASSUME NEW i \in 1 .. Len(v), NEW j \in 1 .. Len(v), i < j PROVE v[i] > v[j]
  <2>1. j \in 2 .. Len(v) /\ j - 1 \in 1 .. Len(w) /\ v[j] = w[j - 1]
    BY <1>1, <1>3
  <2>2. CASE i = 1
    BY <2>1, <2>2, <1>1, <1>2
  <2>3. CASE i # 1
    <3>1. i \in 2 .. Len(v) /\ i - 1 \in 1 .. Len(w) /\ v[i] = w[i - 1] /\ i - 1 < j - 1
      BY <2>3, <1>1, <1>3
    <3> QED
      BY <3>1, <2>1 DEF Newest
  <2> QED
    BY <2>2, <2>3
<1>4. {v[i] : i \in 1 .. Len(v)} = {a} \union S
  <2>1. ASSUME NEW i \in 1 .. Len(v) PROVE v[i] \in {a} \union S
    <3>1. i = 1 \/ i \in 2 .. Len(v)
      BY <1>1
    <3> QED
      BY <3>1, <1>1, <1>2
  <2>2. ASSUME NEW c \in {a} \union S PROVE \E i \in 1 .. Len(v) : v[i] = c
    <3>1. CASE c = a
      BY <3>1, <1>1
    <3>2. CASE c \in S
      <4>1. PICK i \in 1 .. Len(w) : w[i] = c
        BY <3>2 DEF Newest
      <4> QED
        BY <4>1, <1>1, <1>2
    <3> QED
      BY <3>1, <3>2
  <2> QED
    BY <2>1, <2>2
<1> QED
  BY <1>1, <1>3, <1>4 DEF Newest

\* Read backwards it is the list from the oldest to the newest.
LEMMA NewestReversed ==
  ASSUME NEW S \in SUBSET Nat, NEW w, Newest(w, S),
         NEW r, r = [i \in 1 .. Len(w) |-> w[Len(w) + 1 - i]]
  PROVE  Lists(r, S) /\ Len(r) = Len(w)
<1>1. PICK N \in Nat : N = Len(w)
  BY DEF Newest
<1>2. /\ \A i \in 1 .. N : w[i] \in S /\ w[i] \in Nat
      /\ \A i, j \in 1 .. N : i < j => w[i] > w[j]
      /\ \A a \in S : \E i \in 1 .. N : w[i] = a
  BY <1>1 DEF Newest
<1>3. \A i \in 1 .. N : N + 1 - i \in 1 .. N /\ N + 1 - (N + 1 - i) = i
  BY <1>1
<1>4. /\ r \in Seq(Nat) /\ Len(r) = N
      /\ \A i \in 1 .. N : r[i] = w[N + 1 - i]
  BY <1>1, <1>2, <1>3
<1>5. ASSUME NEW i \in 1 .. N, NEW j \in 1 .. N, i < j PROVE r[i] < r[j]
  <2>1. N + 1 - j < N + 1 - i
    BY <1>5
  <2>2. w[N + 1 - j] > w[N + 1 - i]
    BY <1>2, <1>3, <2>1
  <2> QED
    BY <1>2, <1>3, <1>4, <2>2
<1>6. {r[i] : i \in 1 .. N} = S
  <2>1. \A i \in 1 .. N : r[i] \in S
    BY <1>2, <1>3, <1>4
  <2>2. ASSUME NEW a \in S PROVE \E i \in 1 .. N : r[i] = a
    <3>1. PICK i \in 1 .. N : w[i] = a
      BY <1>2
    <3>2. r[N + 1 - i] = a
      BY <1>3, <1>4, <3>1
    <3> QED
      BY <1>3, <3>2
  <2> QED
    BY <2>1, <2>2
<1> QED
  BY <1>1, <1>4, <1>5, <1>6 DEF Lists

\* So it is as long as the set, and there is only one.
LEMMA NewestLength ==
  ASSUME NEW S \in SUBSET Nat, NEW w, Newest(w, S)
  PROVE  Cardinality(S) = Len(w)
<1>1. PICK r : r = [i \in 1 .. Len(w) |-> w[Len(w) + 1 - i]]
  OBVIOUS
<1>2. Lists(r, S) /\ Len(r) = Len(w)
  BY <1>1, NewestReversed
<1> QED
  BY <1>2, ListsLength

\* There is one sequence of a set, newest first.
LEMMA NewestUnique ==
  ASSUME NEW S \in SUBSET Nat, NEW v, Newest(v, S), NEW w, Newest(w, S)
  PROVE  v = w
<1>1. v \in Seq(Nat) /\ w \in Seq(Nat) /\ Len(v) = Len(w)
  <2>1. Cardinality(S) = Len(v) /\ Cardinality(S) = Len(w)
    BY NewestLength
  <2> QED
    BY <2>1 DEF Newest
<1>2. PICK N \in Nat : N = Len(v) /\ N = Len(w)
  BY <1>1
<1>3. PICK q, r : /\ q = [i \in 1 .. Len(v) |-> v[Len(v) + 1 - i]]
                  /\ r = [i \in 1 .. Len(w) |-> w[Len(w) + 1 - i]]
  OBVIOUS
<1>4. q = r
  <2>1. Lists(q, S) /\ Lists(r, S)
    BY <1>3, NewestReversed
  <2> QED
    BY <2>1, ListsUnique
<1>5. ASSUME NEW i \in 1 .. N PROVE v[i] = w[i]
  <2>1. N + 1 - i \in 1 .. N /\ N + 1 - (N + 1 - i) = i
    BY <1>2
  <2>2. q[N + 1 - i] = v[i] /\ r[N + 1 - i] = w[i]
    BY <1>2, <1>3, <2>1
  <2> QED
    BY <1>4, <2>2
<1> QED
  BY <1>1, <1>2, <1>5

\* What an out_iterator delivers: the children of the node, the newest first.
LEMMA UniNewest ==
  ASSUME NEW T, NEW k, UniTree(T, k), NEW n \in 1 .. k
  PROVE  Newest(U!children(T, n), UniKids(T, k, n))
<1>1. PICK S : S = UniKids(T, k, n)
  OBVIOUS
<1>2. /\ k \in Nat /\ S \in SUBSET (1 .. k) /\ T[n].tail \in 0 .. k
      /\ U!IsPrev(S, k + 1, T[n].tail) /\ \A a \in S : U!IsPrev(S, a, T[a].prev)
  <2>1. k \in Nat /\ T[n].tail \in 0 .. k /\ UniListed(T, k, n)
    BY DEF UniTree, UniTypes
  <2>2. S \in SUBSET (1 .. k)
    BY <1>1, <2>1 DEF UniKids
  <2> QED
    BY <1>1, <2>1, <2>2 DEF UniListed
<1>3. \A a \in S : a \in Nat /\ 1 <= a /\ a <= k
  BY <1>2
<1>4. PICK from : /\ from[0] = <<>>
                  /\ \A a \in 1 .. k : from[a] = <<a>> \o from[T[a].prev]
                  /\ U!children(T, n) = from[T[n].tail]
  <2>1. PICK f : Walks(f, T, k)
    BY UniWalk
  <2> QED
    BY ONLY <2>1 DEF Walks
<1> DEFINE Upto(b) == {c \in S : c <= b}
           Good == {b \in 0 .. k : \A a \in 0 .. b : a = 0 \/ a \in S => Newest(from[a], Upto(a))}
<1>5. Newest(from[0], Upto(0))
  <2>1. Upto(0) = {}
    BY ONLY <1>3
  <2>2. from[0] = <<>>
    BY <1>4
  <2> QED
    BY <2>1, <2>2 DEF Newest
<1>6. 0 \in Good
  <2>1. \A a \in 0 .. 0 : a = 0
    OBVIOUS
  <2> QED
    BY <1>2, <1>5, <2>1
<1>7. ASSUME NEW b \in 1 .. k, b - 1 \in Good PROVE b \in Good
  <2>1. ASSUME b \in S PROVE Newest(from[b], Upto(b))
    <3>1. PICK p : p = T[b].prev
      OBVIOUS
    <3>2. p \in Nat /\ p < b /\ (p = 0 \/ p \in S)
          /\ (p = 0 => \A c \in S : c >= b) /\ (p # 0 => \A c \in S : c < b => c <= p)
      <4>1. p \in Nat /\ p < b
        BY <1>2, <3>1 DEF UniTree, UniTypes
      <4>2. U!IsPrev(S, b, p)
        BY <1>2, <2>1, <3>1
      <4> QED
        BY <4>1, <4>2 DEF U!IsPrev, U!invalid
    <3>3. p \in 0 .. b - 1
      BY <3>2
    <3>4. Newest(from[p], Upto(p))
      BY <1>7, <3>2, <3>3
    <3>5. Upto(b) = {b} \union Upto(p)
      <4>1. \A c \in S : c <= b <=> (c = b \/ c <= p)
        BY ONLY <1>3, <3>2
      <4> QED
        BY <2>1, <4>1
    <3>6. Upto(p) \in SUBSET Nat /\ \A c \in Upto(p) : c < b
      BY ONLY <1>3, <3>2
    <3>7. from[b] = <<b>> \o from[p]
      BY <1>4, <3>1
    <3> HIDE DEF Upto
    <3>8. Newest(<<b>> \o from[p], {b} \union Upto(p))
      BY <3>4, <3>6, NewestCons
    <3> QED
      BY <3>5, <3>7, <3>8
  <2>2. \A a \in 0 .. b : a = b \/ a \in 0 .. b - 1
    OBVIOUS
  <2> HIDE DEF Upto
  <2> QED
    BY <1>2, <1>7, <2>1, <2>2
<1>8. \A b \in 0 .. k : b \in Good
  <2> HIDE DEF Good
  <2> QED
    BY <1>2, <1>6, <1>7, SetInduction
<1>9. PICK t : t = T[n].tail
  OBVIOUS
<1>10. t \in 0 .. t /\ t \in 0 .. k /\ (t = 0 \/ t \in S) /\ Upto(t) = S
  <2>1. t \in 0 .. t /\ t \in 0 .. k /\ U!IsPrev(S, k + 1, t)
    BY <1>2, <1>9
  <2>2. CASE t = 0
    <3>1. \A c \in S : c >= k + 1
      BY <2>1, <2>2 DEF U!IsPrev, U!invalid
    <3>2. S = {}
      BY <1>2, <1>3, <3>1
    <3> QED
      BY <2>1, <2>2, <3>2
  <2>3. CASE t # 0
    <3>1. t \in S /\ \A c \in S : c < k + 1 => c <= t
      BY <2>1, <2>3 DEF U!IsPrev, U!invalid
    <3>2. \A c \in S : c <= t
      BY <1>2, <1>3, <3>1
    <3> QED
      BY <2>1, <3>1, <3>2
  <2> QED
    BY <2>2, <2>3
<1>11. Newest(from[t], Upto(t))
  BY <1>8, <1>10
<1> HIDE DEF Upto
<1> QED
  BY <1>1, <1>4, <1>9, <1>10, <1>11

\* They are nodes of the tree, as many as its size says.
LEMMA UniChildren ==
  ASSUME NEW T, NEW k, UniTree(T, k), NEW n \in 1 .. k
  PROVE  /\ U!children(T, n) \in Seq(1 .. k)
         /\ T[n].size = Len(U!children(T, n))
<1>1. PICK w, S : w = U!children(T, n) /\ S = UniKids(T, k, n)
  OBVIOUS
<1>2. Newest(w, S) /\ S \in SUBSET (1 .. k) /\ T[n].size = Cardinality(S)
  <2>1. Newest(w, S) /\ UniListed(T, k, n)
    BY <1>1, UniNewest DEF UniTree
  <2> QED
    BY <1>1, <2>1 DEF UniListed, UniKids
<1>3. w \in Seq(Nat) /\ Len(w) \in Nat /\ \A i \in 1 .. Len(w) : w[i] \in S
  BY <1>2 DEF Newest
<1>4. w \in Seq(1 .. k)
  <2>1. \A i \in 1 .. Len(w) : w[i] \in 1 .. k
    BY <1>2, <1>3
  <2>2. [i \in 1 .. Len(w) |-> w[i]] \in Seq(1 .. k)
    BY ONLY <1>3, <2>1
  <2>3. w = [i \in 1 .. Len(w) |-> w[i]]
    BY ONLY <1>3
  <2> QED
    BY <2>2, <2>3
<1>5. Cardinality(S) = Len(w)
  BY <1>2, NewestLength
<1> QED
  BY <1>1, <1>2, <1>4, <1>5

\* X is a root with data d and N leaves under it.
TwoLevels(X, N, d, data) ==
  /\ UniTree(X, N + 1)
  /\ UniKids(X, N + 1, 1) = 2 .. N + 1
  /\ \A n \in 2 .. N + 1 : UniKids(X, N + 1, n) = {}
  /\ X[1].data = d
  /\ \A i \in 1 .. N : X[i + 1].data = data[i]

\* One leaf more.
LEMMA LeafAdded ==
  ASSUME NEW X, NEW N \in Nat, NEW i \in 1 .. N, NEW d, NEW data, data[i] \in Int,
         TwoLevels(X, i - 1, d, data)
  PROVE  TwoLevels(U!add_node(X, 1, data[i]), i, d, data)
<1>1. PICK W : W = U!add_node(X, 1, data[i])
  OBVIOUS
<1>2. i - 1 + 1 = i
  OBVIOUS
<1>3. /\ UniTree(X, i) /\ UniKids(X, i, 1) = 2 .. i
      /\ \A n \in 2 .. i : UniKids(X, i, n) = {}
      /\ X[1].data = d /\ \A j \in 1 .. i - 1 : X[j + 1].data = data[j]
  BY <1>2 DEF TwoLevels
<1>4. /\ UniTree(W, i + 1)
      /\ \A n : UniKids(W, i + 1, n) = UniKids(X, i, n) \union (IF n = 1 THEN {i + 1} ELSE {})
      /\ \A n \in 0 .. i : W[n].data = X[n].data
      /\ W[i + 1].data = data[i]
  <2>1. 1 \in 0 .. i + 1 /\ 1 # i + 1
    OBVIOUS
  <2> QED
    BY <1>1, <1>3, <2>1, UniAdd
<1>5. UniKids(W, i + 1, 1) = 2 .. i + 1
  <2>1. 2 .. i + 1 = (2 .. i) \union {i + 1}
    OBVIOUS
  <2> QED
    BY <1>3, <1>4, <2>1
<1>6. ASSUME NEW n \in 2 .. i + 1 PROVE UniKids(W, i + 1, n) = {}
  <2>1. n # 1 /\ (n \in 2 .. i \/ n = i + 1)
    OBVIOUS
  <2>2. UniKids(X, i, i + 1) = {}
    <3>1. ASSUME NEW m \in 1 .. i PROVE X[m].up # i + 1
      <4>1. X[m].up \in 0 .. i
        BY <1>3 DEF UniTree, UniTypes
      <4> QED
        BY <4>1
    <3> QED
      BY <3>1 DEF UniKids
  <2> QED
    BY <1>3, <1>4, <2>1, <2>2
<1>7. ASSUME NEW j \in 1 .. i PROVE W[j + 1].data = data[j]
  <2>1. CASE j = i
    BY <1>4, <2>1
  <2>2. CASE j # i
    <3>1. j \in 1 .. i - 1 /\ j + 1 \in 0 .. i
      BY <2>2
    <3> QED
      BY <1>3, <1>4, <3>1
  <2> QED
    BY <2>1, <2>2
<1>8. W[1].data = d
  <2>1. 1 \in 0 .. i
    OBVIOUS
  <2> QED
    BY <1>3, <1>4, <2>1
<1> QED
  BY <1>1, <1>4, <1>5, <1>6, <1>7, <1>8 DEF TwoLevels

\* flatten makes such a tree, with a leaf for each child of the root.
LEMMA UniFlatten ==
  ASSUME NEW T, NEW k, UniTree(T, k), 1 \in 1 .. k,
         NEW w, w = U!children(T, U!root_node)
  PROVE  \E data : /\ TwoLevels(U!flatten(T), Len(w), T[1].data, data)
                   /\ \A i \in 1 .. Len(w) : w[i] # 1 => data[i] = T[w[i]].data
<1>1. /\ k \in Nat /\ UniTypes(T, k) /\ T \in [0 .. k -> U!Node] /\ 1 \in 0 .. k
  BY DEF UniTree, UniTypes
<1>2. PICK offspring : offspring = U!children(T, U!root_node) /\ offspring = w
  OBVIOUS
<1>3. offspring \in Seq(1 .. k)
  BY <1>2, UniChildren DEF U!root_node
<1>4. PICK N \in Nat : N = Len(offspring)
  BY <1>3
<1>5. PICK R : R = U!take(T, U!root_node)
  OBVIOUS
<1>6. /\ UniTree(R, k) /\ R \in [0 .. k -> U!Node]
      /\ \A n \in 0 .. k : n # 1 => R[n].data = T[n].data
  <2>1. UniTree(R, k) /\ \A n \in 0 .. k : n # 1 => R[n].data = T[n].data
    BY <1>1, <1>5, UniTake DEF U!root_node
  <2> QED
    BY <2>1 DEF UniTree, UniTypes
<1>7. PICK data : data = [i \in 1 .. N |-> R[offspring[i]].data]
  OBVIOUS
<1>8. ASSUME NEW i \in 1 .. N PROVE data[i] \in Int /\ data[i] = R[offspring[i]].data
  <2>1. offspring[i] \in 0 .. k
    BY <1>1, <1>3, <1>4
  <2> QED
    BY <1>6, <1>7, <2>1 DEF U!Node
<1>9. PICK V : V = {X \in UNION {[0 .. j -> U!Node] : j \in Nat} : \E j \in Nat \ {0} : UniTree(X, j)}
  OBVIOUS
<1>10. \A X : X \in V <=> \E j \in Nat \ {0} : UniTree(X, j)
  BY <1>9 DEF UniTree, UniTypes
<1>11. PICK v0 : v0 = U!Tree(T[1].data)
  OBVIOUS
<1>12. v0 \in V
  <2>1. T[1].data \in Int
    BY <1>1 DEF U!Node
  <2>2. UniTree(v0, 1)
    BY <1>11, <2>1, UniFresh
  <2> QED
    BY <1>10, <2>2
<1>13. ASSUME NEW X \in V, NEW i \in 1 .. N PROVE U!add_node(X, 1, data[i]) \in V
  <2>1. PICK j \in Nat \ {0} : UniTree(X, j)
    BY <1>10
  <2>2. 1 \in 0 .. j + 1 /\ 1 # j + 1 /\ j + 1 \in Nat \ {0}
    BY <2>1
  <2>3. UniTree(U!add_node(X, 1, data[i]), j + 1)
    BY <1>8, <2>1, <2>2, UniAdd
  <2> QED
    BY <1>10, <2>2, <2>3
<1>14. PICK F, before : /\ F = [i \in 1 .. N |-> [X \in V |-> U!add_node(X, 1, data[i])]]
                        /\ before = [i \in 1 .. N |-> i - 1]
  OBVIOUS
<1>15. /\ F \in [1 .. N -> [V -> V]]
       /\ \A i \in 1 .. N : before[i] \in Nat /\ before[i] < i /\ before[i] = i - 1
  BY <1>13, <1>14
<1>16. PICK g : SolvesBack(g, before, N, V, v0, F)
  BY <1>12, <1>15, BackRecursion
<1>17. \A i \in 0 .. N : g[i] = IF i = 0 THEN v0 ELSE U!add_node(g[i - 1], 1, data[i])
  <2>1. ASSUME NEW i \in 1 .. N PROVE g[i] = U!add_node(g[i - 1], 1, data[i])
    <3>1. g[i - 1] \in V
      BY <1>16 DEF SolvesBack
    <3> QED
      BY <1>14, <1>15, <1>16, <3>1 DEF SolvesBack
  <2>2. \A i \in 0 .. N : i = 0 \/ (i # 0 /\ i \in 1 .. N)
    OBVIOUS
  <2> QED
    BY <1>16, <2>1, <2>2 DEF SolvesBack
<1> DEFINE Step(c, i) == IF i = 0 THEN U!Tree(T[U!root_node].data)
                         ELSE U!add_node(c[i - 1], U!root_node, U!take(T, U!root_node)[offspring[i]].data)
<1>18. ASSUME NEW c, NEW i \in 0 .. N
       PROVE  Step(c, i) = IF i = 0 THEN v0 ELSE U!add_node(c[i - 1], 1, data[i])
  BY <1>5, <1>8, <1>11 DEF U!root_node
<1>19. g = [i \in 0 .. Len(offspring) |-> Step(g, i)]
  <2>1. \A i \in 0 .. N : g[i] = Step(g, i)
    BY <1>17, <1>18
  <2> HIDE DEF Step
  <2> QED
    BY <1>4, <1>16, <2>1 DEF SolvesBack
<1> DEFINE copy == CHOOSE c : c = [i \in 0 .. Len(offspring) |-> Step(c, i)]
<1>20. copy = [i \in 0 .. Len(offspring) |-> Step(copy, i)]
  BY <1>19
<1>21. U!flatten(T) = copy[N]
  BY <1>2, <1>4 DEF U!flatten
<1> HIDE DEF copy
<1>22. \A i \in 0 .. N : copy[i] = Step(copy, i)
  BY <1>4, <1>20
<1>23. /\ copy[0] = v0
       /\ \A i \in 1 .. N : copy[i] = U!add_node(copy[i - 1], 1, data[i])
  <2>1. 0 \in 0 .. N /\ \A i \in 1 .. N : i \in 0 .. N /\ i # 0
    OBVIOUS
  <2> HIDE DEF Step
  <2> QED
    BY <1>18, <1>22, <2>1
<1> DEFINE Good == {i \in 0 .. N : TwoLevels(copy[i], i, T[1].data, data)}
<1>24. 0 \in Good
  <2>1. PICK d \in Int : d = T[1].data
    BY <1>1 DEF U!Node
  <2>2. /\ UniTree(v0, 1) /\ UniKids(v0, 1, 1) = {}
    BY <1>11, <2>1, UniFresh
  <2>3. v0[1].data = d
    BY <1>11, <2>1 DEF U!Tree, U!NewNode
  <2>4. 0 + 1 = 1 /\ 2 .. 1 = {} /\ 1 .. 0 = {} /\ 0 \in 0 .. N
    OBVIOUS
  <2>5. TwoLevels(v0, 0, d, data)
    BY <2>2, <2>3, <2>4 DEF TwoLevels
  <2> QED
    BY <1>23, <2>1, <2>4, <2>5
<1>25. \A i \in 1 .. N : i - 1 \in Good => i \in Good
  BY <1>8, <1>23, LeafAdded
<1>26. \A i \in 0 .. N : i \in Good
  <2> HIDE DEF Good
  <2> QED
    BY <1>24, <1>25, SetInduction
<1>27. TwoLevels(copy[N], N, T[1].data, data)
  BY <1>26
<1>28. ASSUME NEW i \in 1 .. N, w[i] # 1 PROVE data[i] = T[w[i]].data
  <2>1. w[i] \in 0 .. k
    BY <1>1, <1>2, <1>3, <1>4
  <2> QED
    BY <1>2, <1>6, <1>8, <1>28, <2>1
<1> QED
  BY <1>2, <1>4, <1>21, <1>27, <1>28

---------------------------------------------------------------------------
\* The iterator stands in the list it was created on, in front of what it has
\* delivered; what was added since is newer than all of it.
SnapshotInv(k) ==
  /\ ucursor \in [node : Nat, id : 0 .. k, seen : Seq(Nat), kids : SUBSET Nat]
  /\ ucursor.kids \subseteq UniKids(unodes, k, ucursor.node)
  /\ \A a \in UniKids(unodes, k, ucursor.node) \ ucursor.kids : \A b \in ucursor.kids : b < a
  /\ ucursor.id # 0 => ucursor.id \in ucursor.kids /\ ucursor.node \in 1 .. k
  /\ U!DeliversSnapshot

\* What root knows of its stack and of the node it walks: they are nodes of the old
\* tree that have their id in the new one.
LoopsInv(k, s) ==
  /\ pc \in {"while", "for"} =>
       /\ ucursor = U!NoCursor
       /\ visited \in [1 .. k -> 0 .. s] /\ stack \in Seq(1 .. k)
       /\ \A n \in Entries(stack) : visited[n] # 0
  /\ pc = "for" => parent \in 1 .. k /\ visited[parent] # 0 /\ child \in 0 .. k

UniInv(k, s, o) ==
  /\ UniTree(unodes, k) /\ UniTree(sub, s) /\ UniTypes(orig, o)
  /\ pc \in {"client", "while", "for"} /\ added \in Nat
  /\ SnapshotInv(k) /\ LoopsInv(k, s)

SomeUniInv == \E k, s, o : UniInv(k, s, o)

\* Without an iterator nothing is promised of one.
LEMMA UniNoCursor ==
  ASSUME NEW k \in Nat
  PROVE  /\ ucursor = U!NoCursor => SnapshotInv(k)
         /\ ucursor' = U!NoCursor => SnapshotInv(k)'
<1>1. PICK c : c = U!NoCursor
  OBVIOUS
<1>2. c = [node |-> 0, id |-> 0, seen |-> <<>>, kids |-> {}] /\ <<>> \in Seq(Nat) /\ 0 \in 0 .. k
  BY <1>1 DEF U!NoCursor, U!invalid
<1>3. /\ c \in [node : Nat, id : 0 .. k, seen : Seq(Nat), kids : SUBSET Nat]
      /\ c.kids = {} /\ c.id = 0 /\ Len(c.seen) = 0
  BY <1>2
<1>4. ASSUME ucursor = c PROVE SnapshotInv(k)
  BY <1>3, <1>4 DEF SnapshotInv, U!DeliversSnapshot
<1>5. ASSUME ucursor' = c PROVE SnapshotInv(k)'
  BY <1>3, <1>5 DEF SnapshotInv, U!DeliversSnapshot
<1> QED
  BY <1>1, <1>4, <1>5

\* A new fsntu tree and no iterator.
LEMMA UniInit == U!Init => SomeUniInv
<1> SUFFICES ASSUME U!Init PROVE SomeUniInv
  OBVIOUS
<1>1. \E k \in Nat : UniTree(unodes, k)
  BY UniFresh DEF U!Init
<1>2. UniTree(sub, 0) /\ UniTypes(orig, 0)
  BY UniFresh DEF U!Init, UniTree
<1>3. PICK k \in Nat : UniTree(unodes, k)
  BY <1>1
<1>4. SnapshotInv(k)
  BY UniNoCursor DEF U!Init
<1>5. UniInv(k, 0, 0)
  BY <1>2, <1>3, <1>4 DEF UniInv, LoopsInv, U!Init
<1> QED
  BY <1>5 DEF SomeUniInv

\* What every step below starts from.
LEMMA UniFacts ==
  ASSUME NEW k, NEW s, NEW o, UniInv(k, s, o)
  PROVE  /\ k \in Nat /\ s \in Nat /\ o \in Nat
         /\ U!NodeIDs(unodes) = 1 .. k /\ U!NodeIDs(sub) = 1 .. s
         /\ U!Last(unodes) = k /\ U!Last(sub) = s
         /\ unodes \in [0 .. k -> U!Node] /\ added \in Nat
         /\ \A n \in 0 .. k : unodes[n].tail \in 0 .. k /\ unodes[n].prev \in 0 .. k
                              /\ unodes[n].data \in Int
         /\ \A n : U!Kids(unodes, n) = UniKids(unodes, k, n)
<1>1. UniTypes(unodes, k) /\ UniTypes(sub, s) /\ UniTypes(orig, o) /\ added \in Nat
  BY DEF UniInv, UniTree
<1>2. /\ U!NodeIDs(unodes) = 1 .. k /\ U!NodeIDs(sub) = 1 .. s
      /\ U!Last(unodes) = k /\ U!Last(sub) = s
      /\ \A n : U!Kids(unodes, n) = UniKids(unodes, k, n)
  BY <1>1, UniSize
<1> QED
  BY <1>1, <1>2 DEF UniTypes, U!Node

\* Nodes are added at the newer end of a list, behind the iterator.
LEMMA UniAddStep ==
  ASSUME NEW k, NEW s, NEW o, UniInv(k, s, o), U!AddNode
  PROVE  UniInv(k + 1, s, o)'
<1>1. /\ k \in Nat /\ U!NodeIDs(unodes) = 1 .. k /\ added \in Nat /\ UniTree(unodes, k)
  BY UniFacts DEF UniInv
<1>2. PICK source \in U!Sources : unodes' = U!add_node(unodes, source, added + 1)
  BY DEF U!AddNode
<1>3. source \in 0 .. k + 1 /\ (source = k + 1 => k = 0)
  <2>1. CASE k = 0
    <3>1. 1 .. k = {}
      BY <2>1
    <3>2. source \in {0, 1}
      BY <1>1, <1>2, <3>1 DEF U!Sources, U!invalid, U!root_node
    <3> QED
      BY <2>1, <3>2
  <2>2. CASE k # 0
    <3>1. 1 \in 1 .. k
      BY <1>1, <2>2
    <3>2. source \in 1 .. k
      BY <1>1, <1>2, <3>1 DEF U!Sources
    <3> QED
      BY <1>1, <3>2
  <2> QED
    BY <2>1, <2>2
<1>4. PICK W : W = unodes'
  OBVIOUS
<1>5. /\ UniTree(W, k + 1)
      /\ \A n : UniKids(W, k + 1, n) = UniKids(unodes, k, n) \union
                                         (IF n = source THEN {k + 1} ELSE {})
  <2>1. added + 1 \in Int
    BY <1>1
  <2> QED
    BY <1>1, <1>2, <1>3, <1>4, <2>1, UniAdd
<1>6. /\ pc = "client" /\ pc' = pc /\ ucursor' = ucursor /\ sub' = sub /\ orig' = orig
      /\ added' \in Nat
  BY <1>1 DEF U!AddNode, U!loopVars
<1>7. SnapshotInv(k + 1)'
  <2>1. /\ ucursor \in [node : Nat, id : 0 .. k, seen : Seq(Nat), kids : SUBSET Nat]
        /\ ucursor.kids \subseteq UniKids(unodes, k, ucursor.node)
        /\ \A a \in UniKids(unodes, k, ucursor.node) \ ucursor.kids : \A b \in ucursor.kids : b < a
        /\ ucursor.id # 0 => ucursor.id \in ucursor.kids /\ ucursor.node \in 1 .. k + 1
        /\ U!DeliversSnapshot
    BY <1>1 DEF UniInv, SnapshotInv
  <2>2. ucursor \in [node : Nat, id : 0 .. k + 1, seen : Seq(Nat), kids : SUBSET Nat]
    BY <1>1, <2>1
  <2>3. \A b \in ucursor.kids : b < k + 1
    BY <1>1, <2>1 DEF UniKids
  <2>4. /\ ucursor.kids \subseteq UniKids(W, k + 1, ucursor.node)
        /\ \A a \in UniKids(W, k + 1, ucursor.node) \ ucursor.kids : \A b \in ucursor.kids : b < a
    BY <1>5, <2>1, <2>3
  <2>5. U!DeliversSnapshot'
    BY <1>6, <2>1 DEF U!DeliversSnapshot, U!is_valid
  <2> QED
    BY <1>4, <1>6, <2>1, <2>2, <2>4, <2>5 DEF SnapshotInv
<1> QED
  BY <1>4, <1>5, <1>6, <1>7 DEF UniInv, LoopsInv

\* A new iterator stands at the newest child.
LEMMA UniBeginStep ==
  ASSUME NEW k, NEW s, NEW o, UniInv(k, s, o), U!BeginOut
  PROVE  UniInv(k, s, o)'
<1>1. /\ k \in Nat /\ U!NodeIDs(unodes) = 1 .. k /\ UniTree(unodes, k)
      /\ \A n : U!Kids(unodes, n) = UniKids(unodes, k, n)
      /\ \A n \in 0 .. k : unodes[n].tail \in 0 .. k
  BY UniFacts DEF UniInv
<1>2. PICK n \in 1 .. k : ucursor' = U!Begin(unodes, n)
  BY <1>1 DEF U!BeginOut
<1>3. PICK S, tail : S = UniKids(unodes, k, n) /\ tail = unodes[n].tail
  OBVIOUS
<1>4. S \in SUBSET Nat /\ tail \in 0 .. k /\ n \in Nat /\ <<>> \in Seq(Nat)
  BY <1>1, <1>3 DEF UniKids
<1>5. ucursor' = [node |-> n, id |-> tail, seen |-> <<>>, kids |-> S]
  BY <1>1, <1>2, <1>3 DEF U!Begin
<1>6. /\ ucursor' \in [node : Nat, id : 0 .. k, seen : Seq(Nat), kids : SUBSET Nat]
      /\ ucursor'.node = n /\ ucursor'.id = tail /\ Len(ucursor'.seen) = 0 /\ ucursor'.kids = S
  BY <1>4, <1>5
<1>7. U!IsPrev(S, k + 1, tail)
  BY <1>3 DEF UniInv, UniTree, UniListed
<1>8. (tail # 0 => tail \in S /\ \A a \in S : a <= tail) /\ (tail = 0 => S = {})
  <2>1. \A a \in S : a < k + 1 /\ a \in Nat
    BY <1>1, <1>3 DEF UniKids
  <2> QED
    BY <1>1, <1>4, <1>7, <2>1 DEF U!IsPrev, U!invalid
<1>9. U!DeliversSnapshot'
  <2>1. {a \in S : tail # 0 => a > tail} = {}
    <3>1. CASE tail = 0
      BY <1>8, <3>1
    <3>2. CASE tail # 0
      <4>1. ASSUME NEW a \in S PROVE ~ (a > tail)
        <5>1. a \in Nat /\ tail \in Nat /\ a <= tail
          BY <1>4, <1>8, <3>2
        <5> QED
          BY <5>1
      <4> QED
        BY <3>2, <4>1
    <3> QED
      BY <3>1, <3>2
  <2>2. 1 .. Len(ucursor'.seen) = {}
    BY <1>6
  <2> QED
    BY <1>6, <2>1, <2>2 DEF U!DeliversSnapshot, U!is_valid, U!invalid
<1>10. unodes' = unodes /\ sub' = sub /\ orig' = orig /\ pc = "client" /\ pc' = pc /\ added' = added
  BY DEF U!BeginOut, U!loopVars
<1>11. SnapshotInv(k)'
  BY <1>3, <1>6, <1>8, <1>9, <1>10 DEF SnapshotInv
<1> QED
  BY <1>10, <1>11 DEF UniInv, LoopsInv

\* A step delivers the child the iterator stands on and goes to the next older one.
LEMMA UniAdvanceStep ==
  ASSUME NEW k, NEW s, NEW o, UniInv(k, s, o), U!Advance
  PROVE  UniInv(k, s, o)'
<1>1. /\ k \in Nat /\ \A n \in 0 .. k : unodes[n].prev \in 0 .. k
  BY UniFacts
<1>2. /\ ucursor \in [node : Nat, id : 0 .. k, seen : Seq(Nat), kids : SUBSET Nat]
      /\ ucursor.kids \subseteq UniKids(unodes, k, ucursor.node)
      /\ \A a \in UniKids(unodes, k, ucursor.node) \ ucursor.kids : \A b \in ucursor.kids : b < a
      /\ ucursor.id # 0 => ucursor.id \in ucursor.kids /\ ucursor.node \in 1 .. k
      /\ U!DeliversSnapshot
  BY DEF UniInv, SnapshotInv
<1>3. PICK id, w, S, n : id = ucursor.id /\ w = ucursor.seen /\ S = ucursor.kids /\ n = ucursor.node
  OBVIOUS
<1>4. id # 0
  BY <1>3 DEF U!Advance, U!is_valid, U!invalid
<1>5. /\ id \in S /\ id \in 1 .. k /\ w \in Seq(Nat) /\ S \in SUBSET Nat /\ n \in 1 .. k
      /\ S \subseteq UniKids(unodes, k, n)
      /\ \A a \in UniKids(unodes, k, n) \ S : \A b \in S : b < a
  <2>1. id \in UniKids(unodes, k, n)
    BY <1>2, <1>3, <1>4
  <2>2. id \in 1 .. k /\ unodes[id].up = n
    BY <2>1 DEF UniKids
  <2> QED
    BY <1>2, <1>3, <1>4, <2>1, <2>2
<1>6. PICK prev, v : prev = unodes[id].prev /\ v = Append(w, id)
  OBVIOUS
<1>7. unodes[id].prev \in 0 .. k /\ prev \in 0 .. k /\ prev \in Nat
  <2>1. id \in 0 .. k
    BY <1>1, <1>5
  <2> QED
    BY <1>1, <1>6, <2>1
<1>8. /\ prev = 0 => \A c \in S : c >= id
      /\ prev # 0 => prev \in S /\ prev < id /\ \A c \in S : c < id => c <= prev
  <2>1. PICK K : K = UniKids(unodes, k, n)
    OBVIOUS
  <2>2. U!IsPrev(K, id, prev)
    BY <1>5, <1>6, <2>1 DEF UniInv, UniTree, UniListed
  <2>3. /\ K \in SUBSET Nat /\ S \subseteq K /\ \A a \in K \ S : \A b \in S : b < a
    <3>1. K \in SUBSET Nat
      BY <1>1, <2>1 DEF UniKids
    <3> QED
      BY ONLY <1>5, <2>1, <3>1
  <2>4. ASSUME prev # 0 PROVE prev \in S
    <3>1. prev \in K /\ prev < id
      BY <2>2, <2>4 DEF U!IsPrev, U!invalid
    <3>2. prev \notin S => id < prev
      BY <1>5, <2>3, <3>1
    <3> QED
      BY <1>5, <1>7, <3>1, <3>2
  <2> QED
    BY <2>2, <2>3, <2>4 DEF U!IsPrev, U!invalid
<1>9. /\ \A i, j \in 1 .. Len(w) : i < j => w[i] > w[j]
      /\ {w[i] : i \in 1 .. Len(w)} = {a \in S : a > id}
  BY <1>2, <1>3, <1>4 DEF U!DeliversSnapshot, U!is_valid, U!invalid
<1>10. /\ v \in Seq(Nat) /\ Len(w) \in Nat /\ Len(v) = Len(w) + 1 /\ v[Len(w) + 1] = id
       /\ \A i \in 1 .. Len(w) : v[i] = w[i] /\ w[i] \in S /\ w[i] > id
  <2>1. \A i \in 1 .. Len(w) : w[i] \in S /\ w[i] > id
    BY <1>9
  <2>2. id \in Nat
    BY <1>5
  <2> QED
    BY <1>5, <1>6, <2>1, <2>2
<1>11. \A i \in 1 .. Len(v) : i \in 1 .. Len(w) \/ i = Len(w) + 1
  BY <1>10
<1>12. ASSUME NEW i \in 1 .. Len(v), NEW j \in 1 .. Len(v), i < j PROVE v[i] > v[j]
  <2>1. i \in 1 .. Len(w)
    BY <1>10, <1>12
  <2> QED
    BY <1>9, <1>10, <1>11, <1>12, <2>1
<1>13. {v[i] : i \in 1 .. Len(v)} = {a \in S : prev # 0 => a > prev}
  <2>1. {v[i] : i \in 1 .. Len(v)} = {w[i] : i \in 1 .. Len(w)} \union {id}
    <3>1. 1 .. Len(v) = (1 .. Len(w)) \union {Len(w) + 1}
      BY <1>10
    <3> QED
      BY <1>10, <3>1
  <2>2. ASSUME NEW a \in S PROVE (a > id \/ a = id) <=> (prev # 0 => a > prev)
    <3>1. a \in Nat /\ id \in Nat /\ prev \in Nat
      BY <1>5, <1>7
    <3>2. CASE prev = 0
      BY <1>8, <3>1, <3>2
    <3>3. CASE prev # 0
      BY <1>8, <3>1, <3>3
    <3> QED
      BY <3>2, <3>3
  <2> QED
    BY <1>5, <1>9, <2>1, <2>2
<1>14. ucursor' = [ucursor EXCEPT !.id = prev, !.seen = v]
  BY <1>3, <1>6 DEF U!Advance
<1>15. /\ ucursor' \in [node : Nat, id : 0 .. k, seen : Seq(Nat), kids : SUBSET Nat]
       /\ ucursor'.node = n /\ ucursor'.id = prev /\ ucursor'.seen = v /\ ucursor'.kids = S
  BY <1>2, <1>3, <1>7, <1>10, <1>14
<1>16. U!DeliversSnapshot'
  BY <1>12, <1>13, <1>15 DEF U!DeliversSnapshot, U!is_valid, U!invalid
<1>17. unodes' = unodes /\ sub' = sub /\ orig' = orig /\ pc = "client" /\ pc' = pc /\ added' = added
  BY DEF U!Advance, U!loopVars
<1>18. SnapshotInv(k)'
  BY <1>5, <1>8, <1>15, <1>16, <1>17 DEF SnapshotInv
<1> QED
  BY <1>17, <1>18 DEF UniInv, LoopsInv

\* flatten and root leave the client without an iterator.
LEMMA UniFlattenStep ==
  ASSUME NEW k, NEW s, NEW o, UniInv(k, s, o), U!Flatten
  PROVE  \E j : UniInv(j, s, o)'
<1>1. UniTree(unodes, k) /\ U!NodeIDs(unodes) = 1 .. k /\ k \in Nat
  BY UniFacts DEF UniInv
<1>2. 1 \in 1 .. k
  <2>1. 1 .. k # {}
    BY <1>1 DEF U!Flatten
  <2> QED
    BY <1>1, <2>1
<1>3. PICK j \in Nat : UniTree(U!flatten(unodes), j)
  <2>1. PICK w : w = U!children(unodes, U!root_node)
    OBVIOUS
  <2>2. UniTree(U!flatten(unodes), Len(w) + 1)
    BY <1>1, <1>2, <2>1, UniFlatten DEF TwoLevels
  <2>3. w \in Seq(1 .. k)
    BY <1>1, <1>2, <2>1, UniChildren DEF U!root_node
  <2> QED
    BY <2>2, <2>3
<1>4. /\ unodes' = U!flatten(unodes) /\ ucursor' = U!NoCursor
      /\ sub' = sub /\ orig' = orig /\ pc = "client" /\ pc' = pc /\ added' = added
  BY DEF U!Flatten, U!loopVars
<1>5. PICK W : W = unodes' /\ UniTree(W, j)
  BY <1>3, <1>4
<1>6. SnapshotInv(j)'
  BY <1>3, <1>4, UniNoCursor
<1>7. UniInv(j, s, o)'
  BY <1>4, <1>5, <1>6 DEF UniInv, LoopsInv
<1> QED
  BY <1>7

\* root starts with a tree of the new root and the old root on the stack.
LEMMA UniCallStep ==
  ASSUME NEW k, NEW s, NEW o, UniInv(k, s, o), NEW r \in U!NodeIDs(unodes), U!Call(r)
  PROVE  UniInv(k, 1, k)'
<1>1. /\ UniTree(unodes, k) /\ k \in Nat /\ r \in 1 .. k /\ r \in 0 .. k
      /\ U!NodeIDs(unodes) = 1 .. k /\ unodes[r].data \in Int /\ added \in Nat
  BY UniFacts DEF UniInv
<1>2. /\ sub' = U!Tree(unodes[r].data) /\ unodes' = U!take(unodes, r) /\ orig' = unodes
      /\ visited' = [n \in 1 .. k |-> IF n = r THEN 1 ELSE 0] /\ stack' = <<r>>
      /\ ucursor' = U!NoCursor /\ pc' = "while" /\ added' = added
  BY <1>1 DEF U!Call, U!root_node, U!invalid
<1>3. PICK W, S : W = unodes' /\ S = sub'
  OBVIOUS
<1>4. UniTree(W, k) /\ UniTree(S, 1)
  BY <1>1, <1>2, <1>3, UniTake, UniFresh
<1>5. UniTypes(orig', k)
  BY <1>1, <1>2 DEF UniTree
<1>6. SnapshotInv(k)'
  BY <1>1, <1>2, UniNoCursor
<1>7. LoopsInv(k, 1)'
  <2>1. visited' \in [1 .. k -> 0 .. 1] /\ visited'[r] # 0
    BY <1>1, <1>2
  <2>2. stack' \in Seq(1 .. k) /\ \A n \in Entries(stack') : n = r
    BY <1>1, <1>2 DEF Entries
  <2> QED
    BY <1>2, <2>1, <2>2 DEF LoopsInv
<1> QED
  BY <1>1, <1>2, <1>3, <1>4, <1>5, <1>6, <1>7 DEF UniInv

\* The node that is popped has its new id.
LEMMA UniPopStep ==
  ASSUME NEW k, NEW s, NEW o, UniInv(k, s, o), U!Pop
  PROVE  UniInv(k, s, o)'
<1>1. /\ k \in Nat /\ \A n \in 0 .. k : unodes[n].tail \in 0 .. k
  BY UniFacts
<1>2. /\ pc = "while" /\ stack # <<>> /\ parent' = stack[Len(stack)]
      /\ stack' = SubSeq(stack, 1, Len(stack) - 1) /\ child' = unodes[parent'].tail /\ pc' = "for"
      /\ unodes' = unodes /\ ucursor' = ucursor /\ sub' = sub /\ visited' = visited
      /\ orig' = orig /\ added' = added
  BY DEF U!Pop
<1>3. /\ ucursor = U!NoCursor /\ visited \in [1 .. k -> 0 .. s] /\ stack \in Seq(1 .. k)
      /\ \A n \in Entries(stack) : visited[n] # 0
  BY <1>2 DEF UniInv, LoopsInv
<1>4. Extends(stack, stack', parent', 1 .. k)
  BY <1>2, <1>3, PoppedBack
<1>5. parent' \in 1 .. k /\ parent' \in 0 .. k /\ stack' \in Seq(1 .. k)
  BY <1>1, <1>4 DEF Extends
<1>6. visited[parent'] # 0 /\ \A n \in Entries(stack') : visited[n] # 0
  BY <1>3, <1>4 DEF Extends
<1>7. LoopsInv(k, s)'
  BY <1>1, <1>2, <1>3, <1>5, <1>6 DEF LoopsInv
<1>8. SnapshotInv(k)'
  BY <1>1, <1>2, <1>3, UniNoCursor
<1> QED
  BY <1>2, <1>7, <1>8 DEF UniInv

\* The child moves to the end of the new tree, under the new id of its parent.
LEMMA UniVisitStep ==
  ASSUME NEW k, NEW s, NEW o, UniInv(k, s, o), U!Visit
  PROVE  UniInv(k, s + 1, o)'
<1>1. /\ UniTree(unodes, k) /\ UniTree(sub, s) /\ k \in Nat /\ s \in Nat
      /\ U!Last(sub) = s /\ added \in Nat
      /\ \A n \in 0 .. k : unodes[n].prev \in 0 .. k /\ unodes[n].data \in Int
  BY UniFacts DEF UniInv
<1>2. /\ pc = "for" /\ child # 0 /\ sub' = U!add_node(sub, visited[parent], unodes[child].data)
      /\ unodes' = U!take(unodes, child) /\ visited' = [visited EXCEPT ![child] = s + 1]
      /\ stack' = Append(stack, child) /\ child' = unodes[child].prev
      /\ ucursor' = ucursor /\ parent' = parent /\ orig' = orig /\ pc' = pc /\ added' = added
  BY <1>1 DEF U!Visit, U!invalid, U!newParent, U!nextID
<1>3. /\ ucursor = U!NoCursor /\ visited \in [1 .. k -> 0 .. s] /\ stack \in Seq(1 .. k)
      /\ \A n \in Entries(stack) : visited[n] # 0
      /\ parent \in 1 .. k /\ visited[parent] # 0 /\ child \in 0 .. k
  BY <1>2 DEF UniInv, LoopsInv
<1>4. child \in 1 .. k /\ s + 1 \in Nat
  BY <1>1, <1>2, <1>3
<1>5. PICK W, S : W = unodes' /\ S = sub'
  OBVIOUS
<1>6. UniTree(W, k)
  BY <1>1, <1>2, <1>3, <1>5, UniTake
<1>7. UniTree(S, s + 1)
  <2>1. visited[parent] \in 0 .. s + 1 /\ visited[parent] # s + 1
    BY <1>1, <1>3
  <2>2. unodes[child].data \in Int
    BY <1>1, <1>3
  <2> QED
    BY <1>1, <1>2, <1>5, <2>1, <2>2, UniAdd
<1>8. LoopsInv(k, s + 1)'
  <2>1. /\ visited' \in [1 .. k -> 0 .. s + 1]
        /\ \A n \in 1 .. k : (visited[n] # 0 \/ n = child) => visited'[n] # 0
    BY <1>1, <1>2, <1>3
  <2>2. Extends(stack', stack, child, 1 .. k)
    BY <1>2, <1>3, <1>4, Pushed
  <2>3. /\ stack' \in Seq(1 .. k) /\ Entries(stack) \in SUBSET (1 .. k)
        /\ \A n \in Entries(stack') : visited'[n] # 0
    <3>1. Entries(stack) \in SUBSET (1 .. k)
      <4>1. PICK w, N : w = stack /\ N = 1 .. k
        OBVIOUS
      <4>2. w \in Seq(N)
        BY <1>3, <4>1
      <4>3. \A i \in 1 .. Len(w) : w[i] \in N
        BY ONLY <4>2
      <4> QED
        BY ONLY <4>1, <4>3 DEF Entries
    <3> QED
      BY <1>3, <1>4, <2>1, <2>2, <3>1 DEF Extends
  <2>4. child' \in 0 .. k /\ visited'[parent] # 0
    BY <1>1, <1>2, <1>3, <2>1
  <2> QED
    BY <1>2, <1>3, <2>1, <2>2, <2>3, <2>4 DEF LoopsInv
<1>9. SnapshotInv(k)'
  BY <1>1, <1>2, <1>3, UniNoCursor
<1> QED
  BY <1>1, <1>2, <1>5, <1>6, <1>7, <1>8, <1>9 DEF UniInv

\* A child that was met before is passed; the for-loop ends.
LEMMA UniPassStep ==
  ASSUME NEW k, NEW s, NEW o, UniInv(k, s, o), U!Skip \/ U!EndFor
  PROVE  UniInv(k, s, o)'
<1>1. /\ k \in Nat /\ \A n \in 0 .. k : unodes[n].prev \in 0 .. k
  BY UniFacts
<1>2. /\ pc = "for" /\ child' \in {child, unodes[child].prev} /\ pc' \in {"while", "for"}
      /\ unodes' = unodes /\ ucursor' = ucursor /\ sub' = sub /\ visited' = visited
      /\ stack' = stack /\ parent' = parent /\ orig' = orig /\ added' = added
  BY DEF U!Skip, U!EndFor, U!loopVars
<1>3. /\ ucursor = U!NoCursor /\ visited \in [1 .. k -> 0 .. s] /\ stack \in Seq(1 .. k)
      /\ \A n \in Entries(stack) : visited[n] # 0
      /\ parent \in 1 .. k /\ visited[parent] # 0 /\ child \in 0 .. k
  BY <1>2 DEF UniInv, LoopsInv
<1>4. child' \in 0 .. k
  BY <1>1, <1>2, <1>3
<1>5. LoopsInv(k, s)'
  BY <1>2, <1>3, <1>4 DEF LoopsInv
<1>6. SnapshotInv(k)'
  BY <1>1, <1>2, <1>3, UniNoCursor
<1> QED
  BY <1>2, <1>5, <1>6 DEF UniInv

\* The client gets the new tree.
LEMMA UniReturnStep ==
  ASSUME NEW k, NEW s, NEW o, UniInv(k, s, o), U!Return
  PROVE  UniInv(s, 0, 0)'
<1>1. UniTree(sub, s) /\ s \in Nat /\ UniTree(U!Empty, 0)
  BY UniFacts, UniFresh DEF UniInv
<1>2. /\ pc = "while" /\ unodes' = sub /\ sub' = U!Empty /\ orig' = U!Empty
      /\ pc' = "client" /\ ucursor' = ucursor /\ added' = added
  BY DEF U!Return
<1>3. ucursor' = U!NoCursor
  BY <1>2 DEF UniInv, LoopsInv
<1>4. SnapshotInv(s)'
  BY <1>1, <1>3, UniNoCursor
<1>5. UniTypes(U!Empty, 0)
  BY <1>1 DEF UniTree
<1> QED
  BY <1>1, <1>2, <1>4, <1>5 DEF UniInv, LoopsInv

\* Every step of the fsntu tree keeps its invariant.
LEMMA UniNext == SomeUniInv /\ [U!Next]_uniVars => SomeUniInv'
<1> SUFFICES ASSUME SomeUniInv, [U!Next]_uniVars PROVE SomeUniInv'
  OBVIOUS
<1>1. PICK k, s, o : UniInv(k, s, o)
  BY DEF SomeUniInv
<1>2. CASE U!AddNode
  BY <1>1, <1>2, UniAddStep DEF SomeUniInv
<1>3. CASE U!BeginOut
  BY <1>1, <1>3, UniBeginStep DEF SomeUniInv
<1>4. CASE U!Advance
  BY <1>1, <1>4, UniAdvanceStep DEF SomeUniInv
<1>5. CASE U!Flatten
  BY <1>1, <1>5, UniFlattenStep DEF SomeUniInv
<1>6. ASSUME NEW r \in U!NodeIDs(unodes), U!Call(r) PROVE SomeUniInv'
  BY <1>1, <1>6, UniCallStep DEF SomeUniInv
<1>7. CASE U!Pop
  BY <1>1, <1>7, UniPopStep DEF SomeUniInv
<1>8. CASE U!Visit
  BY <1>1, <1>8, UniVisitStep DEF SomeUniInv
<1>9. CASE U!Skip \/ U!EndFor
  BY <1>1, <1>9, UniPassStep DEF SomeUniInv
<1>10. CASE U!Return
  BY <1>1, <1>10, UniReturnStep DEF SomeUniInv
<1>11. CASE UNCHANGED uniVars
  BY <1>1, <1>11 DEF uniVars, SomeUniInv, UniInv, SnapshotInv, LoopsInv, U!DeliversSnapshot, U!is_valid
<1> QED
  BY <1>2, <1>3, <1>4, <1>5, <1>6, <1>7, <1>8, <1>9, <1>10, <1>11 DEF U!Next, U!Root

---------------------------------------------------------------------------
\* What the runs check, from the invariant.
LEMMA UniMeans ==
  ASSUME SomeUniInv
  PROVE  U!TypeOK /\ U!TreeExact /\ U!DeliversSnapshot
<1>1. PICK k, s, o : UniInv(k, s, o)
  BY DEF SomeUniInv
<1>2. /\ UniTree(unodes, k) /\ UniTree(sub, s) /\ UniTypes(orig, o)
      /\ UniTypes(unodes, k) /\ UniTypes(sub, s)
      /\ pc \in {"client", "while", "for"} /\ SnapshotInv(k) /\ LoopsInv(k, s)
  BY <1>1 DEF UniInv, UniTree
<1>3. ASSUME NEW T, NEW j, UniTypes(T, j)
      PROVE  /\ DOMAIN T = 0 .. U!Last(T)
             /\ \A n \in DOMAIN T : T[n] \in U!Node /\ {T[n].up, T[n].prev, T[n].tail} \subseteq DOMAIN T
  <2>1. DOMAIN T = 0 .. j /\ U!Last(T) = j
    BY <1>3, UniSize
  <2> QED
    BY <1>3, <2>1 DEF UniTypes
<1>4. ASSUME NEW T, NEW j, UniTree(T, j)
      PROVE  /\ \A n \in U!NodeIDs(T) :
                  /\ T[n].size = U!Cardinality(U!Kids(T, n))
                  /\ U!IsPrev(U!Kids(T, n), U!Last(T) + 1, T[n].tail)
                  /\ \A a \in U!Kids(T, n) : U!IsPrev(U!Kids(T, n), a, T[a].prev)
             /\ \A n \in U!NodeIDs(T) \ {U!root_node} : T[n].up < n
  <2>1. /\ U!Last(T) = j /\ U!NodeIDs(T) = 1 .. j
        /\ \A n : U!Kids(T, n) = UniKids(T, j, n)
    BY <1>4, UniSize DEF UniTree
  <2> QED
    BY <1>4, <2>1, UniCardinality DEF UniTree, UniListed, U!root_node
<1>5. U!TreeExact
  BY <1>2, <1>4 DEF U!TreeExact, U!ListsExact, U!ParentIsOlder
<1>6. U!TypeOK
  <2>1. /\ DOMAIN unodes = 0 .. k /\ DOMAIN sub = 0 .. s /\ U!NodeIDs(unodes) = 1 .. k
    BY <1>2, UniSize
  <2>2. ucursor.id \in DOMAIN unodes
    BY <1>2, <2>1 DEF SnapshotInv
  <2>3. U!Running => /\ visited \in [U!NodeIDs(unodes) -> DOMAIN sub]
                     /\ stack \in Seq(U!NodeIDs(unodes))
    BY <1>2, <2>1 DEF U!Running, LoopsInv
  <2>4. pc = "for" => /\ parent \in U!NodeIDs(unodes) /\ visited[parent] # U!invalid
                      /\ child \in DOMAIN unodes
    BY <1>2, <2>1 DEF LoopsInv, U!invalid
  <2>5. \A T \in {unodes, sub, orig} :
          /\ DOMAIN T = 0 .. U!Last(T)
          /\ \A n \in DOMAIN T : /\ T[n] \in U!Node
                                 /\ {T[n].up, T[n].prev, T[n].tail} \subseteq DOMAIN T
    BY <1>2, <1>3
  <2>6. pc \in {"client", "while", "for"}
    BY <1>2
  <2> QED
    BY ONLY <2>2, <2>3, <2>4, <2>5, <2>6 DEF U!TypeOK
<1> QED
  BY <1>2, <1>5, <1>6 DEF SnapshotInv

\* The ids 2 .. N + 1, the newest first.
LEMMA CountedDown ==
  ASSUME NEW N \in Nat, NEW w, Newest(w, 2 .. N + 1)
  PROVE  Len(w) = N /\ \A i \in 1 .. N : w[i] = N + 2 - i
<1>1. PICK v : v = [i \in 1 .. N |-> N + 2 - i]
  OBVIOUS
<1>2. \A i \in 1 .. N : N + 2 - i \in Nat /\ N + 2 - i \in 2 .. N + 1
  OBVIOUS
<1>3. v \in Seq(Nat) /\ Len(v) = N /\ \A i \in 1 .. N : v[i] = N + 2 - i
  BY <1>1, <1>2
<1>4. {v[i] : i \in 1 .. N} = 2 .. N + 1
  <2>1. ASSUME NEW a \in 2 .. N + 1 PROVE \E i \in 1 .. N : v[i] = a
    <3>1. PICK i \in 1 .. N : N + 2 - i = a
      <4>1. N + 2 - a \in 1 .. N /\ N + 2 - (N + 2 - a) = a
        OBVIOUS
      <4> QED
        BY ONLY <4>1
    <3> QED
      BY <1>3, <3>1
  <2>2. ASSUME NEW i \in 1 .. N PROVE v[i] \in 2 .. N + 1
    BY <1>2, <1>3
  <2> QED
    BY ONLY <2>1, <2>2
<1>5. Newest(v, 2 .. N + 1)
  <2>1. \A i, j \in 1 .. N : i < j => v[i] > v[j]
    BY <1>3
  <2> QED
    BY <1>3, <1>4, <2>1 DEF Newest
<1>6. (2 .. N + 1) \in SUBSET Nat
  OBVIOUS
<1> QED
  BY <1>3, <1>5, <1>6, NewestUnique

\* What flatten makes is what it promises.
LEMMA UniFlattenMeans == SomeUniInv => U!FlattenStep
<1> SUFFICES ASSUME SomeUniInv, U!Flatten,
                    NEW old, old = U!children(unodes, U!root_node),
                    NEW new, new = U!children(unodes', U!root_node)
             PROVE  /\ Len(new) = Len(old) /\ U!Last(unodes)' = Len(old) + 1
                    /\ unodes'[U!root_node].data = unodes[U!root_node].data
                    /\ \A i \in 1 .. Len(old) :
                         /\ old[Len(old) + 1 - i] # U!root_node =>
                              unodes'[new[i]].data = unodes[old[Len(old) + 1 - i]].data
                         /\ U!arity(unodes', new[i]) = 0
  BY DEF U!FlattenStep
<1>1. PICK k, s, o : UniInv(k, s, o)
  BY DEF SomeUniInv
<1>2. UniTree(unodes, k) /\ U!NodeIDs(unodes) = 1 .. k /\ k \in Nat
  BY <1>1, UniFacts DEF UniInv
<1>3. 1 \in 1 .. k
  <2>1. 1 .. k # {}
    BY <1>2 DEF U!Flatten
  <2> QED
    BY <1>2, <2>1
<1>4. PICK W : W = unodes' /\ W = U!flatten(unodes)
  BY DEF U!Flatten
<1>5. PICK N \in Nat : N = Len(old)
  BY <1>2, <1>3, UniChildren DEF U!root_node
<1>6. PICK data : /\ TwoLevels(W, N, unodes[1].data, data)
                  /\ \A i \in 1 .. N : old[i] # 1 => data[i] = unodes[old[i]].data
  BY <1>2, <1>3, <1>4, <1>5, UniFlatten
<1>7. /\ UniTree(W, N + 1) /\ UniKids(W, N + 1, 1) = 2 .. N + 1
      /\ \A n \in 2 .. N + 1 : UniKids(W, N + 1, n) = {}
      /\ W[1].data = unodes[1].data /\ \A i \in 1 .. N : W[i + 1].data = data[i]
  BY <1>6 DEF TwoLevels
<1>8. U!Last(W) = N + 1
  BY <1>7, UniSize DEF UniTree
<1>9. Len(new) = N /\ \A i \in 1 .. N : new[i] = N + 2 - i
  <2>1. 1 \in 1 .. N + 1
    OBVIOUS
  <2>2. Newest(new, 2 .. N + 1)
    BY <1>4, <1>7, <2>1, UniNewest DEF U!root_node
  <2> QED
    BY <2>2, CountedDown
<1>10. ASSUME NEW i \in 1 .. N
       PROVE  /\ old[N + 1 - i] # 1 => W[new[i]].data = unodes[old[N + 1 - i]].data
              /\ W[new[i]].size = 0
  <2>1. PICK j \in 1 .. N : j = N + 1 - i
    OBVIOUS
  <2>2. new[i] = j + 1 /\ j + 1 \in 2 .. N + 1 /\ j + 1 \in 1 .. N + 1
    BY <1>9, <2>1
  <2>3. W[j + 1].size = Cardinality({})
    BY <1>7, <2>2 DEF UniTree, UniListed
  <2> QED
    BY <1>6, <1>7, <2>1, <2>2, <2>3, FS_EmptySet
<1>11. U!Last(unodes)' = N + 1
  BY <1>4, <1>8 DEF U!Last
<1> QED
  BY <1>4, <1>5, <1>7, <1>9, <1>10, <1>11 DEF U!root_node, U!arity

---------------------------------------------------------------------------
(***************************************************************************)
(* root.  T is the tree of the call, W what is left of it (the payloads    *)
(* are moved one by one), S the tree it builds; v is visited, r the new    *)
(* root, q the stack, p the node whose children are walked (0 if none is)  *)
(* and c where the walk is.                                                *)
(***************************************************************************)
\* The nodes that have their id in S.
Known(v) == {n \in DOMAIN v : v[n] # 0}

\* The children of n that root has to move.
Others(T, k, n) == UniKids(T, k, n) \ {n}

\* Below, for a vector with ids 0 .. k.
Under(T, k, r) ==
  {n \in 1 .. k :
     \A A \in SUBSET (1 .. k) : r \in A /\ (\A m \in A : UniKids(T, k, m) \subseteq A) => n \in A}

SameLists(T, W, k) ==
  \A n \in 0 .. k : W[n].up = T[n].up /\ W[n].prev = T[n].prev /\ W[n].tail = T[n].tail

\* The ids of S are given to one node each, which took its payload along; the
\* others have theirs still.
Numbered(T, W, S, k, s, v, r) ==
  /\ r \in Known(v) /\ v[r] = 1
  /\ \A m, n \in Known(v) : v[m] = v[n] => m = n
  /\ \A i \in 1 .. s : \E n \in Known(v) : v[n] = i
  /\ \A n \in Known(v) : S[v[n]].data = T[n].data
  /\ \A n \in 1 .. k : n \notin Known(v) => W[n].data = T[n].data

\* The children in S are those that have moved, in the opposite order.
Copied(T, S, k, s, v) ==
  \A n \in Known(v) :
    /\ UniKids(S, s, v[n]) = {v[a] : a \in Others(T, k, n) \cap Known(v)}
    /\ \A a, b \in Others(T, k, n) \cap Known(v) : a < b => v[b] < v[a]

\* Of a node on the stack no child has moved, of one that was popped every child has.
Worked(T, k, v, q, p) ==
  /\ NoneTwice(q)
  /\ \A n \in Entries(q) : n \in Known(v) /\ Others(T, k, n) \cap Known(v) = {}
  /\ \A n \in Known(v) \ Entries(q) : n # p => Others(T, k, n) \subseteq Known(v)

\* Of the node that is walked those have moved that are newer than where it is.
Walking(T, k, v, q, p, c) ==
  /\ p \in Known(v) \ Entries(q)
  /\ c # 0 => c \in UniKids(T, k, p)
  /\ \A a \in Others(T, k, p) : a \in Known(v) <=> c < a

\* Nothing moves but what is below r, and that is no older than r.
Reached(T, k, v, r) ==
  /\ Known(v) \subseteq Under(T, k, r)
  /\ \A n \in Known(v) : r <= n /\ (n # r => T[n].up \in Known(v))

RootState(T, W, S, k, s, v, r, q, p) ==
  /\ UniTree(T, k) /\ SameLists(T, W, k) /\ v \in [1 .. k -> 0 .. s]
  /\ Numbered(T, W, S, k, s, v, r)
  /\ Copied(T, S, k, s, v)
  /\ Worked(T, k, v, q, p)
  /\ Reached(T, k, v, r)

\* At the call the new root has moved, and nothing else.
LEMMA RootStarts ==
  ASSUME NEW T, NEW k, UniTree(T, k), NEW r \in 1 .. k,
         NEW W, W = U!take(T, r), NEW S, S = U!Tree(T[r].data),
         NEW v, v = [n \in 1 .. k |-> IF n = r THEN 1 ELSE 0], NEW q, q = <<r>>
  PROVE  RootState(T, W, S, k, 1, v, r, q, 0)
<1>1. k \in Nat /\ r \in 0 .. k /\ T[r].data \in Int
  BY DEF UniTree, UniTypes, U!Node
<1>2. /\ v \in [1 .. k -> 0 .. 1] /\ v[r] = 1 /\ Known(v) = {r}
  BY DEF Known
<1>3. SameLists(T, W, k) /\ \A n \in 0 .. k : n # r => W[n].data = T[n].data
  <2>1. ASSUME NEW n \in 0 .. k
        PROVE  W[n].up = T[n].up /\ W[n].prev = T[n].prev /\ W[n].tail = T[n].tail
    BY ONLY <1>1, UniTree(T, k), W = U!take(T, r), UniTake
  <2>2. \A n \in 0 .. k : n # r => W[n].data = T[n].data
    BY <1>1, UniTake
  <2> QED
    BY <2>1, <2>2 DEF SameLists
<1>4. S[1].data = T[r].data /\ UniKids(S, 1, 1) = {}
  BY <1>1, UniFresh DEF U!Tree, U!NewNode
<1>5. Numbered(T, W, S, k, 1, v, r)
  <2>1. \A i \in 1 .. 1 : i = 1
    OBVIOUS
  <2>2. \A n \in 1 .. k : n \in 0 .. k
    OBVIOUS
  <2> QED
    BY <1>2, <1>3, <1>4, <2>1, <2>2 DEF Numbered
<1>6. Others(T, k, r) \cap {r} = {}
  BY DEF Others
<1>7. Copied(T, S, k, 1, v)
  BY <1>2, <1>4, <1>6 DEF Copied
<1>8. Entries(q) = {r} /\ NoneTwice(q)
  BY DEF Entries, NoneTwice
<1>9. Worked(T, k, v, q, 0)
  BY <1>2, <1>6, <1>8 DEF Worked
<1>10. Reached(T, k, v, r)
  BY <1>1, <1>2 DEF Reached, Under
<1> QED
  BY <1>2, <1>3, <1>5, <1>7, <1>9, <1>10 DEF RootState

\* What the fields of the invariant say of the single nodes.
LEMMA RootFields ==
  ASSUME NEW T, NEW W, NEW S, NEW k, NEW s, NEW v, NEW r, NEW q, NEW p,
         RootState(T, W, S, k, s, v, r, q, p)
  PROVE  /\ k \in Nat /\ v \in [1 .. k -> 0 .. s]
         /\ Known(v) \in SUBSET (1 .. k) /\ \A n \in 1 .. k : n \in Known(v) <=> v[n] # 0
         /\ \A n : UniKids(T, k, n) \in SUBSET (1 .. k)
         /\ \A n \in 1 .. k : n \in UniKids(T, k, T[n].up) /\ T[n].up <= n
         /\ \A n : \A a \in UniKids(T, k, n) : T[a].up = n
         /\ \A n \in 1 .. k : /\ U!IsPrev(UniKids(T, k, n), k + 1, W[n].tail)
                              /\ \A a \in UniKids(T, k, n) : U!IsPrev(UniKids(T, k, n), a, W[a].prev)
         /\ \A n \in 0 .. k : W[n].tail \in 0 .. k /\ W[n].prev \in 0 .. k
<1>1. /\ k \in Nat /\ v \in [1 .. k -> 0 .. s]
      /\ \A n \in 1 .. k : T[n].up <= n /\ UniListed(T, k, n)
      /\ \A n \in 0 .. k : T[n].tail \in 0 .. k /\ T[n].prev \in 0 .. k
      /\ \A n \in 0 .. k : W[n].prev = T[n].prev /\ W[n].tail = T[n].tail
  BY DEF RootState, UniTree, UniTypes, SameLists
<1>2. /\ Known(v) \in SUBSET (1 .. k) /\ \A n \in 1 .. k : n \in Known(v) <=> v[n] # 0
  BY <1>1 DEF Known
<1>3. /\ \A n : UniKids(T, k, n) \in SUBSET (1 .. k)
      /\ \A n \in 1 .. k : n \in UniKids(T, k, T[n].up)
      /\ \A n : \A a \in UniKids(T, k, n) : T[a].up = n
  BY DEF UniKids
<1>4. \A n \in 1 .. k : n \in 0 .. k
  BY <1>1
<1>5. ASSUME NEW n \in 1 .. k
      PROVE  /\ U!IsPrev(UniKids(T, k, n), k + 1, W[n].tail)
             /\ \A a \in UniKids(T, k, n) : U!IsPrev(UniKids(T, k, n), a, W[a].prev)
  <2>1. \A a \in UniKids(T, k, n) : a \in 0 .. k
    BY <1>3, <1>4
  <2> QED
    BY <1>1, <1>4, <2>1 DEF UniListed
<1> QED
  BY <1>1, <1>2, <1>3, <1>5

\* The node that is popped had no child moved: its walk starts at the newest.
LEMMA RootPops ==
  ASSUME NEW T, NEW W, NEW S, NEW k, NEW s, NEW v, NEW r, NEW q \in Seq(1 .. k),
         RootState(T, W, S, k, s, v, r, q, 0), q # <<>>,
         NEW x, x = q[Len(q)], NEW y, y = SubSeq(q, 1, Len(q) - 1), NEW c, c = W[x].tail
  PROVE  RootState(T, W, S, k, s, v, r, y, x) /\ Walking(T, k, v, y, x, c)
<1>1. /\ Entries(q) = Entries(y) \union {x} /\ x \in 1 .. k
      /\ NoneTwice(y) /\ x \notin Entries(y)
  <2>1. Extends(q, y, x, 1 .. k)
    BY PoppedBack
  <2> QED
    BY <2>1 DEF RootState, Worked, Extends
<1>2. /\ \A n \in Entries(q) : n \in Known(v) /\ Others(T, k, n) \cap Known(v) = {}
      /\ \A n \in Known(v) \ Entries(q) : n # 0 => Others(T, k, n) \subseteq Known(v)
      /\ Known(v) \in SUBSET (1 .. k) /\ k \in Nat
  BY RootFields DEF RootState, Worked
<1>3. Worked(T, k, v, y, x)
  <2>1. \A n \in Known(v) : n # 0
    BY <1>2
  <2> QED
    BY <1>1, <1>2, <2>1 DEF Worked
<1>4. /\ UniKids(T, k, x) \in SUBSET (1 .. k) /\ U!IsPrev(UniKids(T, k, x), k + 1, c)
      /\ c \in 0 .. k
  <2>1. x \in 0 .. k
    BY <1>1
  <2> QED
    BY <1>1, <2>1, RootFields
<1>5. c # 0 => c \in UniKids(T, k, x)
  BY <1>4 DEF U!IsPrev, U!invalid
<1>6. ASSUME NEW a \in Others(T, k, x) PROVE a \in Known(v) <=> c < a
  <2>1. a \in UniKids(T, k, x) /\ a \in 1 .. k /\ a \notin Known(v)
    BY <1>1, <1>2, <1>4 DEF Others
  <2>2. ~ (c < a)
    <3>1. c = 0 => a >= k + 1
      BY <1>4, <2>1 DEF U!IsPrev, U!invalid
    <3>2. c # 0 => a <= c
      <4>1. a < k + 1
        BY <1>2, <2>1
      <4> QED
        BY <1>4, <2>1, <4>1 DEF U!IsPrev, U!invalid
    <3> QED
      BY <1>2, <1>4, <2>1, <3>1, <3>2
  <2> QED
    BY <2>1, <2>2
<1>7. Walking(T, k, v, y, x, c)
  BY <1>1, <1>2, <1>5, <1>6 DEF Walking
<1> QED
  BY <1>3, <1>7 DEF RootState

\* At the end of its list every child has moved.
LEMMA RootEndsWalk ==
  ASSUME NEW T, NEW W, NEW S, NEW k, NEW s, NEW v, NEW r, NEW q, NEW p,
         RootState(T, W, S, k, s, v, r, q, p), Walking(T, k, v, q, p, 0)
  PROVE  RootState(T, W, S, k, s, v, r, q, 0)
<1>1. \A a \in Others(T, k, p) : a \in Known(v) <=> 0 < a
  BY DEF Walking
<1>2. \A a \in Others(T, k, p) : 0 < a
  <2>1. UniKids(T, k, p) \in SUBSET (1 .. k) /\ k \in Nat
    BY RootFields
  <2>2. \A a \in 1 .. k : 0 < a
    BY <2>1
  <2> QED
    BY <2>1, <2>2 DEF Others
<1>3. Worked(T, k, v, q, 0)
  BY <1>1, <1>2 DEF RootState, Worked
<1> QED
  BY <1>3 DEF RootState

\* Only a root that is its own child is met twice, and it is passed.
LEMMA RootSkips ==
  ASSUME NEW T, NEW W, NEW S, NEW k, NEW s, NEW v, NEW r, NEW q, NEW p, NEW c,
         RootState(T, W, S, k, s, v, r, q, p), Walking(T, k, v, q, p, c),
         c # 0, v[c] # 0, NEW d, d = W[c].prev
  PROVE  Walking(T, k, v, q, p, d)
<1>1. /\ p \in Known(v) \ Entries(q) /\ c \in UniKids(T, k, p)
      /\ \A a \in Others(T, k, p) : a \in Known(v) <=> c < a
  BY DEF Walking
<1>2. /\ p \in 1 .. k /\ c \in 1 .. k /\ c \in Known(v) /\ k \in Nat
      /\ UniKids(T, k, p) \in SUBSET (1 .. k)
      /\ U!IsPrev(UniKids(T, k, p), c, d) /\ d \in 0 .. k
  <2>1. /\ p \in 1 .. k /\ c \in 1 .. k /\ k \in Nat
    BY <1>1, RootFields
  <2>2. c \in 0 .. k
    BY <2>1
  <2> QED
    BY <1>1, <2>1, <2>2, RootFields
<1>3. c = p
  <2>1. ~ (c < c)
    BY <1>2
  <2> QED
    BY <1>1, <1>2, <2>1 DEF Others
<1>4. d # 0 => d \in UniKids(T, k, p)
  BY <1>2 DEF U!IsPrev, U!invalid
<1>5. ASSUME NEW a \in Others(T, k, p) PROVE a \in Known(v) <=> d < a
  <2>1. a \in UniKids(T, k, p) /\ a \in 1 .. k /\ a # c
    BY <1>2, <1>3 DEF Others
  <2>2. d = 0 => a >= c
    BY <1>2, <2>1 DEF U!IsPrev, U!invalid
  <2>3. d # 0 => d < c /\ (a < c => a <= d)
    BY <1>2, <2>1 DEF U!IsPrev, U!invalid
  <2>4. c < a <=> d < a
    BY <1>2, <2>1, <2>2, <2>3
  <2> QED
    BY <1>1, <2>4
<1> QED
  BY <1>1, <1>4, <1>5 DEF Walking

\* The child that is met first moves to the end of S, under the new id of its parent.
LEMMA RootVisits ==
  ASSUME NEW T, NEW W, NEW S, NEW k, NEW s \in Nat, NEW v, NEW r, NEW q \in Seq(1 .. k),
         NEW p, NEW c,
         RootState(T, W, S, k, s, v, r, q, p), Walking(T, k, v, q, p, c),
         UniTree(W, k), UniTree(S, s), c # 0, v[c] = 0,
         NEW W2, W2 = U!take(W, c), NEW S2, S2 = U!add_node(S, v[p], W[c].data),
         NEW v2, v2 = [v EXCEPT ![c] = s + 1], NEW q2, q2 = Append(q, c),
         NEW d, d = W[c].prev
  PROVE  RootState(T, W2, S2, k, s + 1, v2, r, q2, p) /\ Walking(T, k, v2, q2, p, d)
<1>1. /\ p \in Known(v) \ Entries(q) /\ c \in UniKids(T, k, p)
      /\ \A a \in Others(T, k, p) : a \in Known(v) <=> c < a
  BY DEF Walking
<1>2. /\ k \in Nat /\ v \in [1 .. k -> 0 .. s]
      /\ p \in 1 .. k /\ c \in 1 .. k /\ c \notin Known(v) /\ T[c].up = p /\ p <= c /\ c # p
      /\ Known(v) \in SUBSET (1 .. k) /\ \A n \in 1 .. k : n \in Known(v) <=> v[n] # 0
  <2>1. /\ k \in Nat /\ v \in [1 .. k -> 0 .. s]
        /\ Known(v) \in SUBSET (1 .. k) /\ \A n \in 1 .. k : n \in Known(v) <=> v[n] # 0
    BY RootFields
  <2>2. p \in 1 .. k /\ c \in 1 .. k /\ T[c].up = p /\ T[c].up <= c
    BY <1>1, <2>1, RootFields
  <2> QED
    BY <1>1, <2>1, <2>2
<1>3. /\ \A n : Others(T, k, n) \in SUBSET (1 .. k)
      /\ \A n : \A a \in Others(T, k, n) : T[a].up = n /\ a # n
      /\ \A a \in 1 .. k : a # T[a].up => a \in Others(T, k, T[a].up)
  BY RootFields DEF Others
<1>4. /\ r \in Known(v) /\ v[r] = 1
      /\ \A m, n \in Known(v) : v[m] = v[n] => m = n
      /\ \A i \in 1 .. s : \E n \in Known(v) : v[n] = i
      /\ \A n \in Known(v) : S[v[n]].data = T[n].data
      /\ \A n \in 1 .. k : n \notin Known(v) => W[n].data = T[n].data
  BY DEF RootState, Numbered
<1>5. /\ Known(v) \subseteq Under(T, k, r)
      /\ \A n \in Known(v) : r <= n /\ (n # r => T[n].up \in Known(v))
  BY DEF RootState, Reached
<1>6. /\ v2 \in [1 .. k -> 0 .. s + 1] /\ v2[c] = s + 1
      /\ \A n \in Known(v) : v2[n] = v[n] /\ n # c /\ v[n] \in 1 .. s /\ v[n] \in Nat
      /\ Known(v2) = Known(v) \union {c}
  <2>1. v2 \in [1 .. k -> 0 .. s + 1] /\ v2[c] = s + 1
    BY <1>2
  <2>2. \A n \in 1 .. k : n # c => v2[n] = v[n]
    BY <1>2
  <2>3. Known(v2) = Known(v) \union {c}
    BY <1>2, <2>1, <2>2 DEF Known
  <2>4. ASSUME NEW n \in Known(v)
        PROVE  v2[n] = v[n] /\ n # c /\ v[n] \in 1 .. s /\ v[n] \in Nat
    <3>1. n \in 1 .. k /\ n # c /\ v[n] # 0 /\ v[n] \in 0 .. s
      BY <1>2
    <3>2. v2[n] = v[n]
      BY <2>2, <3>1
    <3> QED
      BY <3>1, <3>2
  <2> QED
    BY <2>1, <2>3, <2>4
<1>7. /\ UniTree(W2, k) /\ SameLists(T, W2, k)
      /\ \A n \in 1 .. k : n # c => W2[n].data = W[n].data
  <2>1. c \in 0 .. k /\ \A n \in 1 .. k : n \in 0 .. k
    BY <1>2
  <2>2. UniTree(W2, k) /\ \A n \in 0 .. k : n # c => W2[n].data = W[n].data
    BY ONLY <2>1, UniTree(W, k), W2 = U!take(W, c), UniTake
  <2>3. ASSUME NEW n \in 0 .. k
        PROVE  W2[n].up = W[n].up /\ W2[n].prev = W[n].prev /\ W2[n].tail = W[n].tail
    BY ONLY <2>1, UniTree(W, k), W2 = U!take(W, c), UniTake
  <2> QED
    BY <2>1, <2>2, <2>3 DEF RootState, SameLists
<1>8. /\ \A n : UniKids(S2, s + 1, n) = UniKids(S, s, n) \union (IF n = v[p] THEN {s + 1} ELSE {})
      /\ \A n \in 0 .. s : S2[n].data = S[n].data
      /\ S2[s + 1].data = W[c].data
  <2>1. v[p] \in 0 .. s + 1 /\ v[p] # s + 1
    BY <1>1, <1>6
  <2>2. W[c].data \in Int
    <3>1. c \in 0 .. k
      BY <1>2
    <3> QED
      BY <3>1 DEF UniTree, UniTypes, U!Node
  <2>3. s \in Nat /\ UniTree(S, s) /\ S2 = U!add_node(S, v[p], W[c].data)
    OBVIOUS
  <2> QED
    BY ONLY <2>1, <2>2, <2>3, UniAdd
<1>9. Others(T, k, c) \cap Known(v2) = {}
  <2> SUFFICES ASSUME NEW a \in Others(T, k, c), a \in Known(v) PROVE FALSE
    BY <1>3, <1>6
  <2>1. T[a].up = c /\ a \in 1 .. k
    BY <1>3
  <2>2. a = r
    BY <1>2, <1>5, <2>1
  <2>3. T[r].up <= r /\ r <= p /\ r \in 1 .. k
    BY <1>1, <1>2, <1>4, <1>5, RootFields
  <2>4. c <= r /\ r <= p /\ p <= c /\ c \in Nat /\ r \in Nat /\ p \in Nat
    <3>1. c <= r
      BY <2>1, <2>2, <2>3
    <3>2. p <= c /\ c \in 1 .. k /\ p \in 1 .. k /\ k \in Nat
      BY <1>2
    <3> QED
      BY ONLY <2>3, <3>1, <3>2
  <2>5. c = r
    BY ONLY <2>4
  <2> QED
    BY <1>2, <1>4, <2>5
<1>10. /\ Others(T, k, p) \cap Known(v2) = (Others(T, k, p) \cap Known(v)) \union {c}
       /\ \A n : n # p => Others(T, k, n) \cap Known(v2) = Others(T, k, n) \cap Known(v)
  <2>1. c \in Others(T, k, p)
    BY <1>2, <1>3
  <2>2. \A n : n # p => c \notin Others(T, k, n)
    BY <1>2, <1>3
  <2>3. Known(v2) = Known(v) \union {c}
    BY <1>6
  <2> QED
    BY ONLY <2>1, <2>2, <2>3
<1>11. Numbered(T, W2, S2, k, s + 1, v2, r)
  <2>1. r \in Known(v2) /\ v2[r] = 1
    BY <1>4, <1>6
  <2>2. ASSUME NEW m \in Known(v2), NEW n \in Known(v2), v2[m] = v2[n] PROVE m = n
    <3>1. \A a \in Known(v) : v2[a] # s + 1 /\ v2[a] = v[a]
      BY <1>6
    <3>2. Known(v2) = Known(v) \union {c} /\ v2[c] = s + 1
      BY <1>6
    <3>3. \A a, b \in Known(v) : v[a] = v[b] => a = b
      BY <1>4
    <3> QED
      BY ONLY <2>2, <3>1, <3>2, <3>3, m \in Known(v2), n \in Known(v2)
  <2>3. ASSUME NEW i \in 1 .. s + 1 PROVE \E n \in Known(v2) : v2[n] = i
    <3>1. CASE i = s + 1
      BY <1>6, <3>1
    <3>2. CASE i # s + 1
      <4>1. i \in 1 .. s
        BY <3>2
      <4>2. PICK n \in Known(v) : v[n] = i
        BY <1>4, <4>1
      <4> QED
        BY <1>6, <4>2
    <3> QED
      BY <3>1, <3>2
  <2>4. ASSUME NEW n \in Known(v2) PROVE S2[v2[n]].data = T[n].data
    <3>1. CASE n = c
      BY <1>2, <1>4, <1>6, <1>8, <3>1
    <3>2. CASE n # c
      <4>1. n \in Known(v) /\ v2[n] = v[n]
        BY <1>6, <3>2
      <4>2. v[n] \in 0 .. s
        BY <1>6, <4>1
      <4> QED
        BY <1>4, <1>8, <4>1, <4>2
    <3> QED
      BY <3>1, <3>2
  <2>5. \A n \in 1 .. k : n \notin Known(v2) => W2[n].data = T[n].data
    BY <1>4, <1>6, <1>7
  <2> QED
    BY <2>1, <2>2, <2>3, <2>4, <2>5 DEF Numbered
<1>12. Copied(T, S2, k, s + 1, v2)
  <2>1. \A n \in Known(v) :
          /\ UniKids(S, s, v[n]) = {v[a] : a \in Others(T, k, n) \cap Known(v)}
          /\ \A a, b \in Others(T, k, n) \cap Known(v) : a < b => v[b] < v[a]
    BY DEF RootState, Copied
  <2>2. ASSUME NEW n \in Known(v2)
        PROVE  /\ UniKids(S2, s + 1, v2[n]) = {v2[a] : a \in Others(T, k, n) \cap Known(v2)}
               /\ \A a, b \in Others(T, k, n) \cap Known(v2) : a < b => v2[b] < v2[a]
    <3>1. \A A \in SUBSET Known(v) : {v2[a] : a \in A} = {v[a] : a \in A}
      BY <1>6
    <3>2. CASE n = c
      <4>1. UniKids(S, s, s + 1) = {}
        <5>1. ASSUME NEW m \in 1 .. s PROVE S[m].up # s + 1
          <6>1. S[m].up \in 0 .. s
            BY DEF UniTree, UniTypes
          <6> QED
            BY <6>1
        <5> QED
          BY <5>1 DEF UniKids
      <4>2. s + 1 # v[p]
        BY <1>1, <1>6
      <4>3. UniKids(S2, s + 1, v2[c]) = {}
        BY <1>6, <1>8, <4>1, <4>2
      <4> QED
        BY <1>9, <3>2, <4>3
    <3>3. CASE n = p
      <4>1. PICK A : A = Others(T, k, p) \cap Known(v)
        OBVIOUS
      <4>2. /\ UniKids(S, s, v[p]) = {v[a] : a \in A}
            /\ \A a, b \in A : a < b => v[b] < v[a]
        BY <1>1, <2>1, <4>1
      <4>3. A \in SUBSET Known(v) /\ \A a \in A : c < a /\ a \in Nat /\ v2[a] = v[a] /\ v[a] < s + 1
        BY <1>1, <1>2, <1>3, <1>6, <4>1
      <4>4. UniKids(S2, s + 1, v2[p]) = {v2[a] : a \in A \union {c}}
        BY <1>1, <1>6, <1>8, <3>1, <4>2, <4>3
      <4>5. ASSUME NEW a \in A \union {c}, NEW b \in A \union {c}, a < b PROVE v2[b] < v2[a]
        <5>1. CASE a = c
          <6>1. b \in A
            BY <1>2, <4>5, <5>1
          <6> QED
            BY <1>6, <4>3, <5>1, <6>1
        <5>2. CASE a # c
          <6>1. a \in A /\ c < a
            BY <4>3, <5>2
          <6>2. b \in A
            BY <1>2, <4>3, <4>5, <6>1
          <6> QED
            BY <4>2, <4>3, <4>5, <6>1, <6>2
        <5> QED
          BY <5>1, <5>2
      <4> QED
        BY <1>10, <3>3, <4>1, <4>4, <4>5
    <3>4. CASE n # c /\ n # p
      <4>1. n \in Known(v) /\ v2[n] = v[n] /\ v[n] # v[p]
        BY <1>1, <1>4, <1>6, <3>4
      <4>2. UniKids(S2, s + 1, v2[n]) = UniKids(S, s, v[n])
        <5>1. UniKids(S2, s + 1, v[n]) = UniKids(S, s, v[n]) \union {}
          BY <1>8, <4>1
        <5> QED
          BY <4>1, <5>1
      <4>3. PICK A \in SUBSET Known(v) : /\ A = Others(T, k, n) \cap Known(v)
                                         /\ A = Others(T, k, n) \cap Known(v2)
        BY <1>10, <3>4
      <4>4. \A a \in A : v2[a] = v[a]
        BY <1>6, <4>3
      <4> QED
        BY <2>1, <3>1, <4>1, <4>2, <4>3, <4>4
    <3> QED
      BY <3>2, <3>3, <3>4
  <2> QED
    BY <2>2 DEF Copied
<1>13. /\ NoneTwice(q)
       /\ \A n \in Entries(q) : n \in Known(v) /\ Others(T, k, n) \cap Known(v) = {}
       /\ \A n \in Known(v) \ Entries(q) : n # p => Others(T, k, n) \subseteq Known(v)
  BY DEF RootState, Worked
<1>14. Entries(q2) = Entries(q) \union {c} /\ NoneTwice(q2)
  <2>1. Extends(q2, q, c, 1 .. k)
    BY <1>2, Pushed
  <2>2. c \notin Entries(q)
    BY <1>2, <1>13
  <2> QED
    BY <1>13, <2>1, <2>2 DEF Extends
<1>15. Worked(T, k, v2, q2, p)
  <2>1. ASSUME NEW n \in Entries(q2) PROVE n \in Known(v2) /\ Others(T, k, n) \cap Known(v2) = {}
    <3>1. CASE n = c
      BY <1>6, <1>9, <3>1
    <3>2. CASE n \in Entries(q)
      BY <1>1, <1>6, <1>10, <1>13, <3>2
    <3> QED
      BY <1>14, <3>1, <3>2
  <2>2. ASSUME NEW n \in Known(v2) \ Entries(q2), n # p PROVE Others(T, k, n) \subseteq Known(v2)
    BY <1>6, <1>13, <1>14, <2>2
  <2> QED
    BY <1>14, <2>1, <2>2 DEF Worked
<1>16. Reached(T, k, v2, r)
  <2>1. r <= c
    BY <1>1, <1>2, <1>4, <1>5
  <2>2. c \in Under(T, k, r)
    <3>1. ASSUME NEW A \in SUBSET (1 .. k), r \in A, \A m \in A : UniKids(T, k, m) \subseteq A
          PROVE  c \in A
      <4>1. p \in Under(T, k, r)
        BY <1>1, <1>5
      <4>2. p \in A
        BY <3>1, <4>1 DEF Under
      <4> QED
        BY <1>1, <3>1, <4>2
    <3> QED
      BY <1>2, <3>1 DEF Under
  <2> QED
    BY <1>1, <1>2, <1>5, <1>6, <2>1, <2>2 DEF Reached
<1>17. Walking(T, k, v2, q2, p, d)
  <2>1. /\ U!IsPrev(UniKids(T, k, p), c, d) /\ d \in 0 .. k
        /\ UniKids(T, k, p) \in SUBSET (1 .. k)
    <3>1. c \in 0 .. k
      BY <1>2
    <3> QED
      BY <1>1, <1>2, <3>1, RootFields
  <2>2. d # 0 => d \in UniKids(T, k, p)
    BY <2>1 DEF U!IsPrev, U!invalid
  <2>3. ASSUME NEW a \in Others(T, k, p) PROVE a \in Known(v2) <=> d < a
    <3>1. a \in UniKids(T, k, p) /\ a \in 1 .. k
      BY <2>1 DEF Others
    <3>2. d = 0 => a >= c
      BY <2>1, <3>1 DEF U!IsPrev, U!invalid
    <3>3. d # 0 => d < c /\ (a < c => a <= d)
      BY <2>1, <3>1 DEF U!IsPrev, U!invalid
    <3>4. (c < a \/ a = c) <=> d < a
      BY <1>2, <2>1, <3>1, <3>2, <3>3
    <3> QED
      BY <1>1, <1>6, <3>4
  <2>4. p \in Known(v2) \ Entries(q2)
    BY <1>1, <1>2, <1>6, <1>14
  <2> QED
    BY <2>2, <2>3, <2>4 DEF Walking
<1> QED
  BY <1>6, <1>7, <1>11, <1>12, <1>15, <1>16, <1>17 DEF RootState

\* Without its oldest element.
LEMMA NewestFront ==
  ASSUME NEW S \in SUBSET Nat, NEW w, Newest(w, S), NEW m \in S, \A a \in S : m <= a,
         NEW x, x = SubSeq(w, 1, Len(w) - 1)
  PROVE  Newest(x, S \ {m})
<1>1. PICK N \in Nat : N = Len(w)
  BY DEF Newest
<1>2. /\ w \in Seq(Nat) /\ \A i \in 1 .. N : w[i] \in S /\ w[i] \in Nat
      /\ \A i, j \in 1 .. N : i < j => w[i] > w[j]
      /\ \A a \in S : \E i \in 1 .. N : w[i] = a
  BY <1>1 DEF Newest
<1>3. N \in 1 .. N /\ w[N] = m
  <2>1. PICK i \in 1 .. N : w[i] = m
    BY <1>2
  <2>2. N \in 1 .. N
    BY <2>1
  <2>3. i # N => w[i] > w[N]
    BY <1>2, <2>2
  <2>4. m <= w[N] /\ m \in Nat /\ w[N] \in Nat
    BY <1>2, <2>2
  <2> QED
    BY <2>1, <2>2, <2>3, <2>4
<1>4. /\ x \in Seq(Nat) /\ Len(x) = N - 1
      /\ \A i \in 1 .. N - 1 : x[i] = w[i] /\ i \in 1 .. N
  BY <1>1, <1>2, <1>3
<1>5. \A i, j \in 1 .. N - 1 : i < j => x[i] > x[j]
  BY <1>2, <1>4
<1>6. ASSUME NEW i \in 1 .. N - 1 PROVE x[i] \in S \ {m}
  <2>1. i < N /\ i \in 1 .. N
    BY <1>1
  <2>2. w[i] > w[N] /\ w[i] \in Nat /\ w[N] \in Nat
    BY <1>2, <1>3, <2>1
  <2> QED
    BY <1>2, <1>3, <1>4, <2>1, <2>2
<1>7. ASSUME NEW a \in S \ {m} PROVE \E i \in 1 .. N - 1 : x[i] = a
  <2>1. PICK i \in 1 .. N : w[i] = a
    BY <1>2
  <2>2. i # N
    BY <1>3, <2>1
  <2>3. i \in 1 .. N - 1
    BY <2>2
  <2> QED
    BY <1>4, <2>1, <2>3
<1>8. {x[i] : i \in 1 .. N - 1} = S \ {m}
  BY ONLY <1>6, <1>7
<1> QED
  BY <1>4, <1>5, <1>8 DEF Newest

\* The children of n but n, as the promise of root lists them.
LEMMA OthersListed ==
  ASSUME NEW T, NEW k, UniTree(T, k), NEW n \in 1 .. k, NEW x, x = U!others(T, n)
  PROVE  Newest(x, Others(T, k, n))
<1>1. PICK w, A : w = U!children(T, n) /\ A = UniKids(T, k, n)
  OBVIOUS
<1>2. Newest(w, A) /\ T[n].size = Len(w)
  BY <1>1, UniNewest, UniChildren
<1>3. /\ A \in SUBSET Nat /\ k \in Nat
      /\ (T[n].up = n => n \in A) /\ (T[n].up # n => n \notin A)
  <2>1. k \in Nat
    BY DEF UniTree, UniTypes
  <2> QED
    BY <1>1, <2>1 DEF UniKids
<1>4. CASE T[n].up = n
  <2>1. \A a \in A : n <= a
    BY <1>1 DEF UniTree, UniKids
  <2>2. x = SubSeq(w, 1, Len(w) - 1)
    BY <1>1, <1>2, <1>4 DEF U!others, U!arity
  <2>3. Newest(x, A \ {n})
    BY <1>2, <1>3, <1>4, <2>1, <2>2, NewestFront
  <2> QED
    BY <1>1, <2>3 DEF Others
<1>5. CASE T[n].up # n
  <2>1. x = SubSeq(w, 1, Len(w) - 0)
    BY <1>1, <1>2, <1>5 DEF U!others, U!arity
  <2>2. x = w
    <3>1. w \in Seq(Nat) /\ Len(w) \in Nat
      BY <1>2 DEF Newest
    <3> QED
      BY <2>1, <3>1
  <2>3. Others(T, k, n) = A
    BY <1>1, <1>3, <1>5 DEF Others
  <2> QED
    BY <1>2, <2>2, <2>3
<1> QED
  BY <1>4, <1>5

\* When the stack is empty: everything below r has moved, and only that.
LEMMA RootReaches ==
  ASSUME NEW T, NEW W, NEW S, NEW k, NEW s \in Nat, NEW v, NEW r, NEW q,
         RootState(T, W, S, k, s, v, r, q, 0), q = <<>>
  PROVE  /\ Known(v) = Under(T, k, r) /\ Cardinality(Known(v)) = s
         /\ \A n \in Known(v) : Others(T, k, n) \subseteq Known(v)
<1>1. /\ Known(v) \in SUBSET (1 .. k) /\ v \in [1 .. k -> 0 .. s] /\ k \in Nat
      /\ \A n \in Known(v) : v[n] # 0
  BY RootFields
<1>2. \A n \in Known(v) : Others(T, k, n) \subseteq Known(v)
  <2>1. Entries(q) = {}
    BY DEF Entries
  <2>2. \A n \in Known(v) : n # 0
    BY <1>1
  <2> QED
    BY <2>1, <2>2 DEF RootState, Worked
<1>3. r \in Known(v) /\ Known(v) \subseteq Under(T, k, r)
  BY DEF RootState, Numbered, Reached
<1>4. \A m \in Known(v) : UniKids(T, k, m) \subseteq Known(v)
  BY <1>2 DEF Others
<1>5. Under(T, k, r) \subseteq Known(v)
  BY <1>1, <1>3, <1>4 DEF Under
<1>6. /\ \A m, n \in Known(v) : v[m] = v[n] => m = n
      /\ \A i \in 1 .. s : \E n \in Known(v) : v[n] = i
      /\ \A n \in Known(v) : v[n] \in 1 .. s
  <2>1. \A n \in Known(v) : v[n] \in 1 .. s
    BY <1>1
  <2> QED
    BY <2>1 DEF RootState, Numbered
<1>7. PICK f : f = [i \in 1 .. s |-> CHOOSE n \in Known(v) : v[n] = i]
  OBVIOUS
<1>8. \A i \in 1 .. s : f[i] \in Known(v) /\ v[f[i]] = i
  BY <1>6, <1>7
<1>9. \A n \in Known(v) : f[v[n]] = n
  BY <1>6, <1>8
<1>10. f \in Bijection(1 .. s, Known(v))
  <2>1. f \in [1 .. s -> Known(v)]
    BY <1>7, <1>8
  <2>2. \A i, j \in 1 .. s : f[i] = f[j] => i = j
    BY <1>8
  <2>3. \A n \in Known(v) : \E i \in 1 .. s : f[i] = n
    BY <1>6, <1>9
  <2> QED
    BY <2>1, <2>2, <2>3 DEF Bijection, Injection, Surjection, IsInjective
<1>11. Cardinality(Known(v)) = s
  <2>1. ExistsBijection(1 .. s, Known(v))
    BY <1>10 DEF ExistsBijection
  <2> QED
    BY <2>1, FS_CountingElements
<1> QED
  BY <1>2, <1>3, <1>5, <1>11

\* w is old, under the ids of v, in the opposite order.
Reversed(w, old, v) ==
  Len(w) = Len(old) /\ \A i \in 1 .. Len(old) : w[i] = v[old[Len(old) + 1 - i]]

\* Then the children of a node in S are those it had, in the opposite order.
LEMMA RootReverses ==
  ASSUME NEW T, NEW W, NEW S, NEW k, NEW s \in Nat, NEW v, NEW r, NEW q,
         RootState(T, W, S, k, s, v, r, q, 0), UniTree(S, s), NEW n \in Known(v),
         Others(T, k, n) \subseteq Known(v),
         NEW old, old = U!others(T, n), NEW new, new = U!children(S, v[n])
  PROVE  Reversed(new, old, v)
<1>1. /\ n \in 1 .. k /\ v[n] \in 1 .. s /\ k \in Nat /\ v \in [1 .. k -> 0 .. s]
      /\ UniTree(T, k)
  <2>1. /\ n \in 1 .. k /\ v[n] \in 0 .. s /\ v[n] # 0 /\ k \in Nat /\ v \in [1 .. k -> 0 .. s]
    BY RootFields
  <2> QED
    BY <2>1 DEF RootState
<1>2. PICK A : A = Others(T, k, n)
  OBVIOUS
<1>3. /\ Newest(old, A) /\ Newest(new, {v[a] : a \in A})
      /\ \A a, b \in A : a < b => v[b] < v[a]
  <2>1. Newest(old, A)
    BY <1>1, <1>2, OthersListed
  <2>2. /\ UniKids(S, s, v[n]) = {v[a] : a \in A \cap Known(v)}
        /\ \A a, b \in A \cap Known(v) : a < b => v[b] < v[a]
    BY <1>2 DEF RootState, Copied
  <2>3. A \cap Known(v) = A
    BY <1>2
  <2>4. Newest(new, UniKids(S, s, v[n]))
    BY <1>1, UniNewest
  <2> QED
    BY <2>1, <2>2, <2>3, <2>4
<1>4. A \in SUBSET (1 .. k) /\ \A a \in A : v[a] \in Nat /\ a \in Nat
  <2>1. A \in SUBSET (1 .. k)
    BY <1>1, <1>2 DEF Others, UniKids
  <2> QED
    BY <1>1, <2>1
<1>5. PICK N \in Nat : N = Len(old)
  BY <1>3 DEF Newest
<1>6. /\ \A i \in 1 .. N : old[i] \in A /\ N + 1 - i \in 1 .. N /\ N + 1 - (N + 1 - i) = i
      /\ \A i, j \in 1 .. N : i < j => old[i] > old[j]
      /\ \A a \in A : \E i \in 1 .. N : old[i] = a
  BY <1>3, <1>5 DEF Newest
<1>7. PICK x : x = [i \in 1 .. N |-> v[old[N + 1 - i]]]
  OBVIOUS
<1>8. x \in Seq(Nat) /\ Len(x) = N /\ \A i \in 1 .. N : x[i] = v[old[N + 1 - i]]
  <2>1. \A i \in 1 .. N : v[old[N + 1 - i]] \in Nat
    BY <1>4, <1>6
  <2> QED
    BY <1>7, <2>1
<1>9. ASSUME NEW i \in 1 .. N, NEW j \in 1 .. N, i < j PROVE x[i] > x[j]
  <2>1. N + 1 - j < N + 1 - i
    BY <1>9
  <2>2. old[N + 1 - j] > old[N + 1 - i]
    BY <1>6, <2>1
  <2>3. old[N + 1 - i] < old[N + 1 - j]
    BY <1>4, <1>6, <2>2
  <2>4. v[old[N + 1 - j]] < v[old[N + 1 - i]]
    BY <1>3, <1>6, <2>3
  <2> QED
    BY <1>4, <1>6, <1>8, <2>4
<1>10. {x[i] : i \in 1 .. N} = {v[a] : a \in A}
  <2>1. ASSUME NEW i \in 1 .. N PROVE \E a \in A : x[i] = v[a]
    <3>1. old[N + 1 - i] \in A
      BY <1>6
    <3> QED
      BY <1>8, <3>1
  <2>2. ASSUME NEW a \in A PROVE \E i \in 1 .. N : x[i] = v[a]
    <3>1. PICK i \in 1 .. N : old[i] = a
      BY <1>6
    <3>2. x[N + 1 - i] = v[a]
      BY <1>6, <1>8, <3>1
    <3> QED
      BY <1>6, <3>2
  <2> QED
    BY <2>1, <2>2
<1>11. Newest(x, {v[a] : a \in A})
  BY <1>8, <1>9, <1>10 DEF Newest
<1>12. {v[a] : a \in A} \in SUBSET Nat
  BY <1>4
<1>13. new = x
  BY <1>3, <1>11, <1>12, NewestUnique
<1> QED
  BY <1>5, <1>8, <1>13 DEF Reversed

\* What root knows of the three trees while it runs.
RootInv(k, s) ==
  /\ pc = "while" => RootState(orig, unodes, sub, k, s, visited, root, stack, 0)
  /\ pc = "for" => /\ RootState(orig, unodes, sub, k, s, visited, root, stack, parent)
                   /\ Walking(orig, k, visited, stack, parent, child)

SomeRootInv == \E k, s, o : UniInv(k, s, o) /\ RootInv(k, s)

\* At the call.
LEMMA RootCallStep ==
  ASSUME NEW k, NEW s, NEW o, UniInv(k, s, o), NEW r \in U!NodeIDs(unodes), U!Call(r)
  PROVE  RootInv(k, 1)'
<1>1. /\ UniTree(unodes, k) /\ U!NodeIDs(unodes) = 1 .. k
  BY UniFacts DEF UniInv
<1>2. /\ sub' = U!Tree(unodes[r].data) /\ unodes' = U!take(unodes, r) /\ orig' = unodes
      /\ visited' = [n \in 1 .. k |-> IF n = r THEN 1 ELSE 0] /\ stack' = <<r>>
      /\ root' = r /\ pc' = "while"
  BY <1>1 DEF U!Call, U!root_node, U!invalid
<1>3. RootState(unodes, unodes', sub', k, 1, visited', r, stack', 0)
  BY <1>1, <1>2, RootStarts
<1> QED
  BY <1>2, <1>3 DEF RootInv

\* At the steps of the two loops.
LEMMA RootPopStep ==
  ASSUME NEW k, NEW s, NEW o, UniInv(k, s, o), RootInv(k, s), U!Pop
  PROVE  RootInv(k, s)'
<1>1. /\ pc = "while" /\ stack # <<>> /\ parent' = stack[Len(stack)]
      /\ stack' = SubSeq(stack, 1, Len(stack) - 1) /\ child' = unodes[parent'].tail /\ pc' = "for"
      /\ unodes' = unodes /\ sub' = sub /\ visited' = visited /\ root' = root /\ orig' = orig
  BY DEF U!Pop
<1>2. stack \in Seq(1 .. k) /\ RootState(orig, unodes, sub, k, s, visited, root, stack, 0)
  BY <1>1 DEF UniInv, LoopsInv, RootInv
<1>3. /\ RootState(orig, unodes, sub, k, s, visited, root, stack', parent')
      /\ Walking(orig, k, visited, stack', parent', child')
  BY ONLY <1>1, <1>2, RootPops
<1> QED
  BY <1>1, <1>3 DEF RootInv

\* root ( ) meets a child that has no copy.
LEMMA RootVisitStep ==
  ASSUME NEW k, NEW s, NEW o, UniInv(k, s, o), RootInv(k, s), U!Visit
  PROVE  RootInv(k, s + 1)'
<1>1. UniTree(unodes, k) /\ UniTree(sub, s) /\ s \in Nat /\ U!Last(sub) = s
  BY UniFacts DEF UniInv
<1>2. /\ pc = "for" /\ child # 0 /\ visited[child] = 0
      /\ sub' = U!add_node(sub, visited[parent], unodes[child].data)
      /\ unodes' = U!take(unodes, child) /\ visited' = [visited EXCEPT ![child] = s + 1]
      /\ stack' = Append(stack, child) /\ child' = unodes[child].prev
      /\ parent' = parent /\ root' = root /\ orig' = orig /\ pc' = pc
  BY <1>1 DEF U!Visit, U!invalid, U!newParent, U!nextID
<1>3. /\ stack \in Seq(1 .. k)
      /\ RootState(orig, unodes, sub, k, s, visited, root, stack, parent)
      /\ Walking(orig, k, visited, stack, parent, child)
  BY <1>2 DEF UniInv, LoopsInv, RootInv
<1>4. /\ RootState(orig, unodes', sub', k, s + 1, visited', root, stack', parent)
      /\ Walking(orig, k, visited', stack', parent, child')
  BY ONLY <1>1, <1>2, <1>3, RootVisits
<1> QED
  BY <1>2, <1>4 DEF RootInv

\* root ( ) passes a child that has one.
LEMMA RootSkipStep ==
  ASSUME NEW k, NEW s, NEW o, UniInv(k, s, o), RootInv(k, s), U!Skip
  PROVE  RootInv(k, s)'
<1>1. /\ pc = "for" /\ child # 0 /\ visited[child] # 0 /\ child' = unodes[child].prev
      /\ unodes' = unodes /\ sub' = sub /\ visited' = visited /\ stack' = stack
      /\ parent' = parent /\ root' = root /\ orig' = orig /\ pc' = pc
  BY DEF U!Skip, U!invalid
<1>2. /\ RootState(orig, unodes, sub, k, s, visited, root, stack, parent)
      /\ Walking(orig, k, visited, stack, parent, child)
  BY <1>1 DEF RootInv
<1>3. Walking(orig, k, visited, stack, parent, child')
  BY ONLY <1>1, <1>2, RootSkips
<1> QED
  BY <1>1, <1>2, <1>3 DEF RootInv

\* The end of the children of a node.
LEMMA RootEndForStep ==
  ASSUME NEW k, NEW s, NEW o, UniInv(k, s, o), RootInv(k, s), U!EndFor
  PROVE  RootInv(k, s)'
<1>1. /\ pc = "for" /\ child = 0 /\ pc' = "while"
      /\ unodes' = unodes /\ sub' = sub /\ visited' = visited /\ stack' = stack
      /\ root' = root /\ orig' = orig
  BY DEF U!EndFor, U!invalid, U!loopVars
<1>2. /\ RootState(orig, unodes, sub, k, s, visited, root, stack, parent)
      /\ Walking(orig, k, visited, stack, parent, 0)
  BY <1>1 DEF RootInv
<1>3. RootState(orig, unodes, sub, k, s, visited, root, stack, 0)
  BY ONLY <1>2, RootEndsWalk
<1> QED
  BY <1>1, <1>3 DEF RootInv

\* Every step of the fsntu tree keeps both invariants.
LEMMA RootNext == SomeRootInv /\ [U!Next]_uniVars => SomeRootInv'
<1> SUFFICES ASSUME SomeRootInv, [U!Next]_uniVars PROVE SomeRootInv'
  OBVIOUS
<1>1. PICK k, s, o : UniInv(k, s, o) /\ RootInv(k, s)
  BY DEF SomeRootInv
<1>2. ASSUME pc' = "client" PROVE SomeRootInv'
  <2>1. SomeUniInv'
    BY <1>1, UniNext DEF SomeUniInv
  <2>2. \A j, i : RootInv(j, i)'
    BY <1>2 DEF RootInv
  <2> QED
    BY <2>1, <2>2 DEF SomeUniInv, SomeRootInv
<1>3. CASE U!AddNode \/ U!BeginOut \/ U!Advance \/ U!Flatten \/ U!Return
  <2>1. pc' = "client"
    BY <1>3 DEF U!AddNode, U!BeginOut, U!Advance, U!Flatten, U!Return
  <2> QED
    BY <1>2, <2>1
<1>4. ASSUME NEW r \in U!NodeIDs(unodes), U!Call(r) PROVE SomeRootInv'
  BY <1>1, <1>4, UniCallStep, RootCallStep DEF SomeRootInv
<1>5. CASE U!Pop
  BY <1>1, <1>5, UniPopStep, RootPopStep DEF SomeRootInv
<1>6. CASE U!Visit
  BY <1>1, <1>6, UniVisitStep, RootVisitStep DEF SomeRootInv
<1>7. CASE U!Skip
  BY <1>1, <1>7, UniPassStep, RootSkipStep DEF SomeRootInv
<1>8. CASE U!EndFor
  BY <1>1, <1>8, UniPassStep, RootEndForStep DEF SomeRootInv
<1>9. CASE UNCHANGED uniVars
  <2>1. UniInv(k, s, o)'
    BY <1>1, <1>9 DEF uniVars, UniInv, SnapshotInv, LoopsInv, U!DeliversSnapshot, U!is_valid
  <2>2. RootInv(k, s)'
    BY <1>1, <1>9 DEF uniVars, RootInv
  <2> QED
    BY <2>1, <2>2 DEF SomeRootInv
<1> QED
  BY <1>3, <1>4, <1>5, <1>6, <1>7, <1>8, <1>9 DEF U!Next, U!Root

\* Below is Under.
LEMMA BelowIsUnder ==
  ASSUME NEW T, NEW k, UniTypes(T, k), NEW r
  PROVE  U!Below(T, r) = Under(T, k, r)
<1>1. U!NodeIDs(T) = 1 .. k /\ \A n : U!Kids(T, n) = UniKids(T, k, n)
  BY UniSize
<1>2. ASSUME NEW A
      PROVE  (\A m \in A : U!Kids(T, m) \subseteq A) <=> (\A m \in A : UniKids(T, k, m) \subseteq A)
  BY ONLY <1>1
<1> QED
  BY ONLY <1>1, <1>2 DEF U!Below, Under

\* What root makes is what it promises.
LEMMA RootMeans == SomeRootInv => U!RootStep
<1> SUFFICES ASSUME SomeRootInv, U!Return PROVE U!RootStep
  BY DEF U!RootStep
<1>1. PICK k, s, o : UniInv(k, s, o) /\ RootInv(k, s)
  BY DEF SomeRootInv
<1>2. /\ pc = "while" /\ stack = <<>> /\ unodes' = sub
  BY DEF U!Return
<1>3. /\ s \in Nat /\ UniTree(sub, s) /\ U!Last(sub) = s
      /\ RootState(orig, unodes, sub, k, s, visited, root, stack, 0)
  BY <1>1, <1>2, UniFacts DEF UniInv, RootInv
<1>4. /\ Known(visited) = Under(orig, k, root) /\ Cardinality(Known(visited)) = s
      /\ \A n \in Known(visited) : Others(orig, k, n) \subseteq Known(visited)
  BY ONLY <1>2, <1>3, RootReaches
<1>5. /\ UniTypes(orig, k) /\ U!NodeIDs(orig) = 1 .. k /\ DOMAIN visited = 1 .. k
  <2>1. UniTypes(orig, k) /\ visited \in [1 .. k -> 0 .. s]
    BY <1>3 DEF RootState, UniTree
  <2> QED
    BY <2>1, UniSize
<1>6. U!Below(orig, root) = Known(visited)
  BY <1>4, <1>5, BelowIsUnder
<1>7. {n \in U!NodeIDs(orig) : visited[n] # U!invalid} = Known(visited)
  BY <1>5 DEF Known, U!invalid
<1>8. U!Last(unodes)' = U!Cardinality(U!Below(orig, root))
  <2>1. U!Last(unodes)' = s
    BY <1>2, <1>3 DEF U!Last
  <2> QED
    BY <1>4, <1>6, <2>1, UniCardinality
<1>9. ASSUME NEW n \in Known(visited),
             NEW old, old = U!others(orig, n), NEW new, new = U!children(unodes', visited[n])
      PROVE  /\ unodes'[visited[n]].data = orig[n].data
             /\ Len(new) = Len(old)
             /\ \A i \in 1 .. Len(old) : new[i] = visited[old[Len(old) + 1 - i]]
  <2>1. new = U!children(sub, visited[n]) /\ Others(orig, k, n) \subseteq Known(visited)
    BY <1>2, <1>4, <1>9
  <2>2. Reversed(new, old, visited)
    BY ONLY <1>3, <1>9, <2>1, n \in Known(visited), RootReverses
  <2>3. sub[visited[n]].data = orig[n].data
    BY <1>3 DEF RootState, Numbered
  <2> QED
    BY <1>2, <2>2, <2>3 DEF Reversed
<1> QED
  BY <1>6, <1>7, <1>8, <1>9 DEF U!RootStep

\* The two trees start right.
LEMMA BothStart == BothInit => TreeInv /\ CursorExact /\ SomeUniInv
BY InitTreeInv, UniInit DEF BothInit, CursorExact, Init, NoCursor

\* A step of either tree keeps what is known of both.
LEMMA BothSteps ==
  CursorInv /\ SomeUniInv /\ [BothNext]_bothVars => CursorInv' /\ SomeUniInv'
<1>1. CursorInv /\ [Next]_vars => CursorInv'
  BY CursorSteps
<1>2. [BothNext]_bothVars => [Next]_vars /\ [U!Next]_uniVars
  BY DEF BothNext, bothVars
<1> QED
  BY <1>1, <1>2, UniNext

\* fsntu: ids stay in range, lists exact and parents older than their children,
\* whatever the client adds, flattens or makes the root, for trees of every size.
THEOREM TreesStayExact == BothSpec => []TreesExact
<1>1. BothInit => CursorInv /\ SomeUniInv
  BY BothStart DEF CursorInv
<1>2. CursorInv /\ SomeUniInv => TreesExact
  BY UniMeans DEF TreesExact, CursorInv, TreeInv
<1> QED
  BY <1>1, <1>2, BothSteps, PTL DEF BothSpec

\* An out_iterator of fsntu delivers the children its node had when it was created,
\* newest first, however the tree grows under it.
THEOREM SnapshotDelivered == BothSpec => []DeliversSnapshot
<1>1. BothInit => CursorInv /\ SomeUniInv
  BY BothStart DEF CursorInv
<1>2. SomeUniInv => DeliversSnapshot
  BY UniMeans DEF DeliversSnapshot
<1> QED
  BY <1>1, <1>2, BothSteps, PTL DEF BothSpec

\* flatten keeps the root and its children, in the opposite order, as leaves with
\* their payloads, however many there are.
THEOREM FlattenKeepsUpper == BothSpec => FlattenExact
<1>1. BothInit => CursorInv /\ SomeUniInv
  BY BothStart DEF CursorInv
<1>2. SomeUniInv => [U!FlattenStep]_uniVars
  BY UniFlattenMeans
<1> QED
  BY <1>1, <1>2, BothSteps, PTL DEF BothSpec, FlattenExact

\* root keeps what is below the new root and nothing else, each node with its
\* payload and its children, the siblings in the opposite order.
THEOREM RootKeepsBelow == BothSpec => RootExact
<1>1. BothInit => SomeRootInv
  <2>1. BothInit => SomeUniInv /\ pc = "client"
    BY BothStart DEF BothInit, U!Init
  <2> QED
    BY <2>1 DEF SomeUniInv, SomeRootInv, RootInv
<1>2. SomeRootInv /\ [BothNext]_bothVars => SomeRootInv'
  <2>1. [BothNext]_bothVars => [U!Next]_uniVars
    BY DEF BothNext, bothVars
  <2> QED
    BY <2>1, RootNext
<1>3. SomeRootInv => [U!RootStep]_uniVars
  BY RootMeans
<1> QED
  BY <1>1, <1>2, <1>3, PTL DEF BothSpec, RootExact

============================================================================
