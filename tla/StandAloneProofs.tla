------------------------- MODULE StandAloneProofs -------------------------
(***************************************************************************)
(* The two components that do not stand on the tree of FlatTree.           *)
(*                                                                         *)
(* ast::SearchTree, with its pools: each slot of a pool is alive or free,  *)
(* a pool has as many blocks as elements were alive at a time,             *)
(* the vectors of the nodes, the counts and link agree with the history of *)
(* calls, erase of a node is undefined exactly when a vector has more than *)
(* two arcs, and the destructor of the pool leaves out no live node but    *)
(* those behind the last free slot.  All of it for any number of blocks,   *)
(* nodes and arcs and any order of calls.                                  *)
(*                                                                         *)
(* uniform_int_distribution_fast: what it returns is in its interval, and  *)
(* each integer of the interval is returned for equally many words.        *)
(***************************************************************************)
EXTENDS AdjacencyTree, UniformInt, FiniteSetTheorems, TLAPS

\* For its lemmas on induction, recursion and ordered sequences.
Lemmas == INSTANCE FlatTreeTheorems

(***************************************************************************)
(* Pools.                                                                  *)
(***************************************************************************)
PoolTypes ==
  [m_current_block : Seq(Addresses), m_current_slot : Nat, m_last_slot : Nat,
   m_free_slots : Seq(Addresses)]

\* The slots of pool p are those of live and the free ones, each once, and no
\* slot of a block was never handed out: a block has one.
PoolOK(p, live) ==
  /\ p \in PoolTypes
  /\ p.m_current_slot = p.m_last_slot
  /\ p.m_current_block # <<>> => p.m_current_slot = p.m_current_block[1] + 1
  /\ Blocks(p) = live \union Free(p) /\ live \intersect Free(p) = {}
  /\ IsInjective(p.m_free_slots) /\ IsInjective(p.m_current_block)

\* k elements at most were alive at a time, and there are as many blocks.
Peaked(p, live, k) ==
  k \in Nat /\ Len(p.m_current_block) = k /\ Cardinality(live) <= k

\* A pool before its first block.
LEMMA NewPoolOK == PoolOK(NewPool, {})
BY DEF PoolOK, NewPool, Pool, PoolTypes, nullptr, Blocks, Free, ToSet, IsInjective

\* The entries of a sequence with one in front, and without the first.
LEMMA ConsEntries ==
  ASSUME NEW S, NEW s \in Seq(S), NEW e \in S
  PROVE  /\ <<e>> \o s \in Seq(S) /\ <<e>> \o s # <<>> /\ (<<e>> \o s)[1] = e
         /\ ToSet(<<e>> \o s) = {e} \union ToSet(s)
         /\ IsInjective(s) /\ e \notin ToSet(s) => IsInjective(<<e>> \o s)
<1>1. PICK w : w = <<e>> \o s
  OBVIOUS
<1>2. /\ w \in Seq(S) /\ Len(w) = Len(s) + 1 /\ Len(s) \in Nat /\ w[1] = e
      /\ \A i \in 1 .. Len(s) : w[i + 1] = s[i]
  BY <1>1
<1>3. DOMAIN w = 1 .. Len(s) + 1 /\ DOMAIN s = 1 .. Len(s)
  BY <1>2
<1>4. \A j \in DOMAIN w : j = 1 \/ (j - 1 \in DOMAIN s /\ w[j] = s[j - 1])
  BY <1>2, <1>3
<1>5. \A i \in DOMAIN s : i + 1 \in DOMAIN w /\ w[i + 1] = s[i]
  BY <1>2, <1>3
<1>6. ToSet(w) = {e} \union ToSet(s)
  <2>1. 1 \in DOMAIN w
    BY <1>2, <1>3
  <2>2. ASSUME NEW x \in ToSet(w) PROVE x \in {e} \union ToSet(s)
    BY <1>2, <1>4, <2>2 DEF ToSet
  <2>3. ASSUME NEW x \in {e} \union ToSet(s) PROVE x \in ToSet(w)
    BY <1>2, <1>5, <2>1, <2>3 DEF ToSet
  <2> QED
    BY <2>2, <2>3
<1>7. ASSUME IsInjective(s), e \notin ToSet(s), NEW i \in DOMAIN w, NEW j \in DOMAIN w,
             w[i] = w[j]
      PROVE  i = j
  <2>1. CASE i = 1 \/ j = 1
    BY <1>2, <1>4, <1>7, <2>1 DEF ToSet
  <2>2. CASE i # 1 /\ j # 1
    <3>1. i - 1 = j - 1
      BY <1>4, <1>7, <2>2 DEF IsInjective
    <3> QED
      BY <1>3, <3>1
  <2> QED
    BY <2>1, <2>2
<1>8. IsInjective(s) /\ e \notin ToSet(s) => IsInjective(w)
  BY <1>7 DEF IsInjective
<1>9. w # <<>>
  BY <1>2
<1> QED
  BY <1>1, <1>2, <1>6, <1>8, <1>9

\* The entries of a sequence without its first.
LEMMA TailEntries ==
  ASSUME NEW S, NEW s \in Seq(S), s # <<>>, IsInjective(s)
  PROVE  /\ Tail(s) \in Seq(S) /\ IsInjective(Tail(s)) /\ Head(s) \in ToSet(s)
         /\ ToSet(Tail(s)) = ToSet(s) \ {Head(s)}
<1>1. PICK w : w = Tail(s)
  OBVIOUS
<1>2. /\ w \in Seq(S) /\ Len(s) \in Nat \ {0} /\ Len(w) = Len(s) - 1
      /\ \A i \in 1 .. Len(w) : w[i] = s[i + 1]
  BY <1>1
<1>3. DOMAIN w = 1 .. Len(s) - 1 /\ DOMAIN s = 1 .. Len(s) /\ Head(s) = s[1]
  BY <1>2
<1>4. \A i \in DOMAIN w : i + 1 \in DOMAIN s /\ w[i] = s[i + 1] /\ i + 1 # 1
  BY <1>2, <1>3
<1>5. \A i \in DOMAIN s : i # 1 => i - 1 \in DOMAIN w /\ w[i - 1] = s[i]
  BY <1>2, <1>3
<1>6. 1 \in DOMAIN s
  BY <1>2, <1>3
<1>7. ToSet(w) = ToSet(s) \ {Head(s)}
  <2>1. ASSUME NEW x \in ToSet(w) PROVE x \in ToSet(s) \ {Head(s)}
    <3>1. PICK i \in DOMAIN w : x = w[i]
      BY <2>1 DEF ToSet
    <3>2. x = s[i + 1] /\ s[i + 1] # s[1]
      BY <1>4, <1>6, <3>1 DEF IsInjective
    <3> QED
      BY <1>3, <1>4, <3>1, <3>2 DEF ToSet
  <2>2. ASSUME NEW x \in ToSet(s) \ {Head(s)} PROVE x \in ToSet(w)
    BY <1>3, <1>5, <2>2 DEF ToSet
  <2> QED
    BY <2>1, <2>2
<1>8. IsInjective(w)
  <2>1. ASSUME NEW i \in DOMAIN w, NEW j \in DOMAIN w, w[i] = w[j] PROVE i = j
    <3>1. i + 1 = j + 1
      BY <1>4, <2>1 DEF IsInjective
    <3> QED
      BY <1>3, <3>1
  <2> QED
    BY <2>1 DEF IsInjective
<1>9. Head(s) \in ToSet(s)
  BY <1>3, <1>6 DEF ToSet
<1> QED
  BY <1>1, <1>2, <1>7, <1>8, <1>9

\* allocate returns a slot that is not alive, and makes it alive.
LEMMA AllocateKeeps ==
  ASSUME NEW p, NEW live, PoolOK(p, live), NEW slot \in allocate(p)
  PROVE  /\ slot \notin live /\ slot \in Addresses
         /\ PoolOK(allocated(p, slot), live \union {slot})
<1>1. /\ p.m_current_block \in Seq(Addresses) /\ p.m_free_slots \in Seq(Addresses)
      /\ p.m_current_slot \in Nat /\ p.m_last_slot = p.m_current_slot
      /\ p = Pool(p.m_current_block, p.m_current_slot, p.m_last_slot, p.m_free_slots)
      /\ Blocks(p) = live \union Free(p) /\ live \intersect Free(p) = {}
      /\ IsInjective(p.m_free_slots) /\ IsInjective(p.m_current_block)
      /\ p.m_current_block # <<>> => p.m_current_slot = p.m_current_block[1] + 1
  BY DEF PoolOK, PoolTypes, Pool
<1>2. CASE p.m_free_slots # <<>>
  <2>1. slot = Head(p.m_free_slots)
    BY <1>2 DEF allocate
  <2>2. PICK q : q = allocated(p, slot)
    OBVIOUS
  <2>3. q = Pool(p.m_current_block, p.m_current_slot, p.m_last_slot, Tail(p.m_free_slots))
    BY <1>1, <1>2, <2>2 DEF allocated, Pool
  <2>4. /\ Tail(p.m_free_slots) \in Seq(Addresses) /\ IsInjective(Tail(p.m_free_slots))
        /\ slot \in Free(p) /\ Free(q) = Free(p) \ {slot} /\ Blocks(q) = Blocks(p)
    BY <1>1, <1>2, <2>1, <2>3, TailEntries DEF Free, Blocks, Pool
  <2>5. slot \in Addresses
    BY <1>1, <1>2, <2>1
  <2>6. PoolOK(q, live \union {slot})
    BY <1>1, <2>3, <2>4 DEF PoolOK, PoolTypes, Pool
  <2> QED
    BY <1>1, <2>2, <2>4, <2>5, <2>6
<1>3. CASE p.m_free_slots = <<>>
  <2>1. slot \in Addresses /\ slot \notin Blocks(p)
    BY <1>1, <1>3 DEF allocate, virtual_alloc
  <2>2. PICK q : q = allocated(p, slot)
    OBVIOUS
  <2>3. q = Pool(<<slot>> \o p.m_current_block, slot + 1, slot + 1, p.m_free_slots)
    <3>1. q = [allocate_block(p, slot) EXCEPT !.m_current_slot = @ + 1]
      BY <1>1, <1>3, <2>2 DEF allocated
    <3> QED
      BY <3>1 DEF allocate_block, first_slot, last_slot, Pool
  <2>4. /\ <<slot>> \o p.m_current_block \in Seq(Addresses)
        /\ (<<slot>> \o p.m_current_block)[1] = slot
        /\ Blocks(q) = {slot} \union Blocks(p) /\ Free(q) = Free(p)
        /\ IsInjective(<<slot>> \o p.m_current_block)
    BY <1>1, <2>1, <2>3, ConsEntries DEF Blocks, Free, Pool
  <2>5. slot + 1 \in Nat
    BY <2>1, AddressAssumption
  <2>6. PoolOK(q, live \union {slot})
    BY <1>1, <2>1, <2>3, <2>4, <2>5 DEF PoolOK, PoolTypes, Pool
  <2> QED
    BY <1>1, <2>1, <2>2, <2>6
<1> QED
  BY <1>2, <1>3

\* deallocate frees a slot that was alive.
LEMMA DeallocateKeeps ==
  ASSUME NEW p, NEW live, PoolOK(p, live), NEW slot \in live
  PROVE  PoolOK(deallocate(p, slot), live \ {slot})
<1>1. /\ p.m_free_slots \in Seq(Addresses) /\ p.m_current_block \in Seq(Addresses)
      /\ p.m_current_slot \in Nat /\ p.m_last_slot \in Nat
      /\ p = Pool(p.m_current_block, p.m_current_slot, p.m_last_slot, p.m_free_slots)
      /\ Blocks(p) = live \union Free(p) /\ live \intersect Free(p) = {}
      /\ IsInjective(p.m_free_slots) /\ IsInjective(p.m_current_block)
  BY DEF PoolOK, PoolTypes, Pool
<1>2. slot \in Addresses /\ slot \notin ToSet(p.m_free_slots)
  BY <1>1 DEF Blocks, Free, ToSet
<1>3. PICK q : q = deallocate(p, slot)
  OBVIOUS
<1>4. q = Pool(p.m_current_block, p.m_current_slot, p.m_last_slot, <<slot>> \o p.m_free_slots)
  BY <1>1, <1>3 DEF deallocate, Pool
<1>5. /\ <<slot>> \o p.m_free_slots \in Seq(Addresses) /\ IsInjective(<<slot>> \o p.m_free_slots)
      /\ Free(q) = {slot} \union Free(p) /\ Blocks(q) = Blocks(p)
  BY <1>1, <1>2, <1>4, ConsEntries DEF Free, Blocks, Pool
<1>6. PoolOK(q, live \ {slot})
  BY <1>1, <1>4, <1>5 DEF PoolOK, PoolTypes, Pool
<1> QED
  BY <1>3, <1>6

\* The slots that were handed out are the blocks.
LEMMA SlotsAreBlocks ==
  ASSUME NEW p, NEW live, PoolOK(p, live)
  PROVE  slots(p) = live \union Free(p)
<1>1. /\ p.m_current_block \in Seq(Addresses)
      /\ p.m_current_block # <<>> => p.m_current_slot = p.m_current_block[1] + 1
      /\ Blocks(p) = live \union Free(p)
  BY DEF PoolOK, PoolTypes
<1>2. PICK blocks \in Seq(Addresses) : blocks = p.m_current_block
  BY <1>1
<1> DEFINE range1(i) == first_slot(blocks[i]) ..
                   (IF i = 1 THEN p.m_current_slot ELSE last_slot(blocks[i])) - 1
<1>3. ASSUME NEW i \in DOMAIN blocks PROVE range1(i) = {blocks[i]}
  <2>1. blocks[i] \in Nat
    <3>1. blocks[i] \in Addresses
      BY <1>3
    <3> QED
      BY <3>1, AddressAssumption
  <2>2. (IF i = 1 THEN p.m_current_slot ELSE last_slot(blocks[i])) - 1 = blocks[i]
    BY <1>1, <1>2, <1>3, <2>1 DEF last_slot
  <2> QED
    BY <2>1, <2>2 DEF first_slot
<1>4. slots(p) = UNION {range1(i) : i \in DOMAIN blocks}
  BY <1>2 DEF slots
<1>5. slots(p) = ToSet(blocks)
  <2> HIDE DEF range1
  <2> QED
    BY <1>3, <1>4 DEF ToSet
<1> QED
  BY <1>1, <1>2, <1>5 DEF Blocks

---------------------------------------------------------------------------
(***************************************************************************)
(* Vectors.                                                                *)
(***************************************************************************)
\* Min is a least number.
LEMMA MinIsLeast ==
  ASSUME NEW S \in SUBSET Nat, S # {}
  PROVE  Min(S) \in S /\ \A k \in S : Min(S) <= k
<1>1. \E m \in S : \A k \in S : m <= k
  BY Lemmas!Least
<1> QED
  BY <1>1 DEF Min

\* The entries of v are those of S, each once.
Holds(v, S) == v \in Seq(Addresses) /\ IsInjective(v) /\ ToSet(v) = S

\* A sequence that holds S has as many entries.
LEMMA HoldsSize ==
  ASSUME NEW S, NEW v, Holds(v, S)
  PROVE  /\ IsFiniteSet(S) /\ Cardinality(S) = Len(v) /\ Len(v) \in Nat
         /\ DOMAIN v = 1 .. Len(v) /\ \A i \in DOMAIN v : v[i] \in S
<1>1. v \in Seq(Addresses) /\ DOMAIN v = 1 .. Len(v) /\ Len(v) \in Nat
  BY DEF Holds
<1>2. \A i \in DOMAIN v : v[i] \in S
  BY DEF Holds, ToSet
<1>3. v \in [1 .. Len(v) -> S]
  BY <1>1, <1>2
<1>4. \A x \in S : \E i \in 1 .. Len(v) : v[i] = x
  BY <1>1 DEF Holds, ToSet
<1>5. \A i, j \in 1 .. Len(v) : v[i] = v[j] => i = j
  BY <1>1 DEF Holds, IsInjective
<1>6. ExistsBijection(1 .. Len(v), S)
  <2>1. v \in Bijection(1 .. Len(v), S)
    BY <1>3, <1>4, <1>5 DEF Bijection, Injection, Surjection, IsInjective
  <2> QED
    BY <2>1 DEF ExistsBijection
<1>7. IsFiniteSet(1 .. Len(v)) /\ Cardinality(1 .. Len(v)) = Len(v)
  BY <1>1, FS_Interval
<1>8. IsFiniteSet(S) /\ Cardinality(S) = Len(v)
  BY <1>6, <1>7, FS_Bijection, FS_CountingElements
<1> QED
  BY <1>1, <1>2, <1>8

\* The vector without its arc a: what is left keeps its place or moves up by one.
LEMMA RemovesOne ==
  ASSUME NEW S, NEW v, Holds(v, S), NEW a \in S, NEW w, w = RemoveFirst(v, a)
  PROVE  /\ Holds(w, S \ {a})
         /\ \E q \in DOMAIN v : \A i \in DOMAIN w :
              /\ i \in DOMAIN v /\ i + 1 \in DOMAIN v
              /\ w[i] = IF i < q THEN v[i] ELSE v[i + 1]
<1>1. PICK n \in Nat : n = Len(v) /\ DOMAIN v = 1 .. n /\ v \in Seq(Addresses)
  BY HoldsSize DEF Holds
<1>2. PICK I : I = {i \in 1 .. Len(v) : v[i] = a}
  OBVIOUS
<1>3. I \in SUBSET Nat /\ I # {}
  BY <1>1, <1>2 DEF Holds, ToSet
<1>4. PICK q : q = Min(I)
  OBVIOUS
<1>5. q \in 1 .. n /\ v[q] = a
  BY <1>1, <1>2, <1>3, <1>4, MinIsLeast
<1>6. w = RemoveAt(v, q)
  <2>1. \E i \in 1 .. Len(v) : v[i] = a
    BY <1>2, <1>3
  <2>2. w = RemoveAt(v, SelectInSeq(v, LAMBDA x : x = a))
    BY <2>1 DEF RemoveFirst
  <2>3. SelectInSeq(v, LAMBDA x : x = a) = q
    BY <1>2, <1>3, <1>4 DEF SelectInSeq
  <2> QED
    BY <2>2, <2>3
<1>7. /\ w \in Seq(Addresses) /\ Len(w) = n - 1
      /\ \A i \in 1 .. n - 1 : w[i] = IF i < q THEN v[i] ELSE v[i + 1]
  <2>1. PICK A, B : A = SubSeq(v, 1, q - 1) /\ B = SubSeq(v, q + 1, n)
    OBVIOUS
  <2>2. w = A \o B
    BY <1>1, <1>6, <2>1 DEF RemoveAt
  <2>3. /\ A \in Seq(Addresses) /\ Len(A) = q - 1
        /\ \A i \in 1 .. q - 1 : A[i] = v[i]
    BY <1>1, <1>5, <2>1
  <2>4. /\ B \in Seq(Addresses) /\ Len(B) = n - q
        /\ \A i \in 1 .. n - q : B[i] = v[q + i]
    BY <1>1, <1>5, <2>1
  <2>5. w \in Seq(Addresses) /\ Len(w) = n - 1
    BY <1>1, <1>5, <2>2, <2>3, <2>4
  <2>6. ASSUME NEW i \in 1 .. n - 1 PROVE w[i] = IF i < q THEN v[i] ELSE v[i + 1]
    <3>1. CASE i < q
      BY <1>1, <1>5, <2>2, <2>3, <2>4, <3>1
    <3>2. CASE ~ (i < q)
      <4>1. i - (q - 1) \in 1 .. n - q /\ q + (i - (q - 1)) = i + 1
        BY <1>1, <1>5, <3>2
      <4>2. w[i] = B[i - (q - 1)]
        BY <1>1, <1>5, <2>2, <2>3, <2>4, <3>2
      <4> QED
        BY <2>4, <3>2, <4>1, <4>2
    <3> QED
      BY <3>1, <3>2
  <2> QED
    BY <2>5, <2>6
<1>8. DOMAIN w = 1 .. n - 1
  BY <1>7
<1>9. \A i \in DOMAIN w : /\ i \in DOMAIN v /\ i + 1 \in DOMAIN v
                         /\ w[i] = IF i < q THEN v[i] ELSE v[i + 1]
  BY <1>1, <1>7, <1>8
<1>10. IsInjective(w)
  <2>1. ASSUME NEW i \in DOMAIN w, NEW j \in DOMAIN w, w[i] = w[j] PROVE i = j
    <3>1. (IF i < q THEN i ELSE i + 1) = (IF j < q THEN j ELSE j + 1)
      BY <1>9, <2>1 DEF Holds, IsInjective
    <3> QED
      BY <1>5, <1>8, <3>1
  <2> QED
    BY <2>1 DEF IsInjective
<1>11. ToSet(w) = S \ {a}
  <2>1. ASSUME NEW x \in ToSet(w) PROVE x \in S \ {a}
    <3>1. PICK i \in DOMAIN w : x = w[i]
      BY <2>1 DEF ToSet
    <3>2. PICK j \in DOMAIN v : x = v[j] /\ j # q
      BY <1>1, <1>5, <1>8, <1>9, <3>1
    <3> QED
      BY <1>1, <1>5, <3>2 DEF Holds, ToSet, IsInjective
  <2>2. ASSUME NEW x \in S, x # a PROVE x \in ToSet(w)
    <3>1. PICK j \in DOMAIN v : x = v[j]
      BY <2>2 DEF Holds, ToSet
    <3>2. j # q
      BY <1>5, <2>2, <3>1
    <3>3. PICK i : i = IF j < q THEN j ELSE j - 1
      OBVIOUS
    <3>4. i \in DOMAIN w /\ j = IF i < q THEN i ELSE i + 1
      BY <1>1, <1>5, <1>8, <3>1, <3>2, <3>3
    <3>5. w[i] = x
      BY <1>9, <3>1, <3>4
    <3> QED
      BY <3>4, <3>5 DEF ToSet
  <2> QED
    BY <2>1, <2>2
<1>12. Holds(w, S \ {a})
  BY <1>7, <1>10, <1>11 DEF Holds
<1>13. q \in DOMAIN v
  BY <1>1, <1>5
<1> QED
  BY <1>9, <1>12, <1>13

(***************************************************************************)
(* The history made is a sequence of entries; the order of a vector is     *)
(* that of its arcs in it.                                                 *)
(***************************************************************************)
Entry == [id : Addresses, arc : [source : Addresses, target : Addresses]]

Before(ms, a, b) ==
  \E k, l \in DOMAIN ms : k < l /\ ms[k].id = a /\ ms[l].id = b

InOrder(v, ms) == \A i, j \in DOMAIN v : i < j => Before(ms, v[i], v[j])

\* Removing an arc changes the order of no others.
LEMMA RemovesInOrder ==
  ASSUME NEW S, NEW v, Holds(v, S), NEW ms, InOrder(v, ms), NEW a \in S
  PROVE  InOrder(RemoveFirst(v, a), ms)
<1>1. PICK w : w = RemoveFirst(v, a)
  OBVIOUS
<1>2. /\ Holds(w, S \ {a})
      /\ \E q \in DOMAIN v : \A i \in DOMAIN w :
           /\ i \in DOMAIN v /\ i + 1 \in DOMAIN v
           /\ w[i] = IF i < q THEN v[i] ELSE v[i + 1]
  BY <1>1, RemovesOne
<1>3. PICK q \in DOMAIN v : \A i \in DOMAIN w :
           /\ i \in DOMAIN v /\ i + 1 \in DOMAIN v
           /\ w[i] = IF i < q THEN v[i] ELSE v[i + 1]
  BY <1>2
<1>4. /\ DOMAIN v = 1 .. Len(v) /\ Len(v) \in Nat
      /\ DOMAIN w = 1 .. Len(w) /\ Len(w) \in Nat
  BY <1>2, HoldsSize
<1>5. ASSUME NEW i \in DOMAIN w, NEW j \in DOMAIN w, i < j PROVE Before(ms, w[i], w[j])
  <2>1. PICK k \in DOMAIN v, l \in DOMAIN v : k < l /\ w[i] = v[k] /\ w[j] = v[l]
    <3>1. i < q \/ ~ (j < q)
      BY <1>3, <1>4, <1>5
    <3>2. CASE i < q /\ j < q
      BY <1>3, <1>5, <3>2
    <3>3. CASE i < q /\ ~ (j < q)
      <4>1. i < j + 1
        BY <1>4, <1>5
      <4> QED
        BY <1>3, <3>3, <4>1
    <3>4. CASE ~ (i < q) /\ ~ (j < q)
      <4>1. i + 1 < j + 1
        BY <1>4, <1>5
      <4> QED
        BY <1>3, <3>4, <4>1
    <3> QED
      BY <3>1, <3>2, <3>3, <3>4
  <2> QED
    BY <2>1 DEF InOrder
<1> QED
  BY <1>1, <1>5 DEF InOrder

\* those ( ms, P ) has the entries of ms that are in P, in their order.
LEMMA ThoseAre ==
  ASSUME NEW S, NEW ms \in Seq(S), NEW P, NEW w, w = those(ms, P)
  PROVE  /\ w \in Seq(S) /\ ToSet(w) = ToSet(ms) \intersect P
         /\ \A i, j \in DOMAIN w : i < j =>
              \E k, l \in DOMAIN ms : k < l /\ w[i] = ms[k] /\ w[j] = ms[l]
<1>1. PICK N : N = Len(ms)
  OBVIOUS
<1>2. N \in Nat /\ DOMAIN ms = 1 .. N /\ \A i \in 1 .. N : ms[i] \in S
  BY <1>1
<1>3. PICK F : F = [i \in 1 .. N |-> [v \in Seq(S) |-> IF ms[i] \in P THEN Append(v, ms[i]) ELSE v]]
  OBVIOUS
<1>4. F \in [1 .. N -> [Seq(S) -> Seq(S)]] /\ <<>> \in Seq(S)
  BY <1>2, <1>3
<1>5. PICK g : Lemmas!Iterates(g, N, Seq(S), <<>>, F)
  BY <1>2, <1>4, Lemmas!IterationDefined
<1>6. /\ g \in [0 .. N -> Seq(S)] /\ g[0] = <<>>
      /\ \A i \in 1 .. N : g[i] = F[i][g[i - 1]]
  BY <1>5 DEF Lemmas!Iterates
<1>7. ASSUME NEW i \in 1 .. N
      PROVE  g[i] = IF ms[i] \in P THEN Append(g[i - 1], ms[i]) ELSE g[i - 1]
  <2>1. g[i - 1] \in Seq(S)
    BY <1>2, <1>6
  <2> QED
    BY <1>3, <1>6, <2>1
<1>8. w = g[N]
  <2> DEFINE R(f) == [i \in 0 .. N |-> IF i = 0 THEN <<>> ELSE
                        IF ms[i] \in P THEN Append(f[i - 1], ms[i]) ELSE f[i - 1]]
             sel == CHOOSE f : f = R(f)
  <2>1. g = R(g)
    <3>1. \A i \in 0 .. N : i = 0 \/ i \in 1 .. N
      BY <1>2
    <3>2. \A i \in 0 .. N : g[i] = R(g)[i]
      BY <1>2, <1>6, <1>7, <3>1
    <3>3. R(g) = [i \in 0 .. N |-> R(g)[i]] /\ g = [i \in 0 .. N |-> g[i]]
      BY <1>6
    <3> HIDE DEF R
    <3> QED
      BY <3>2, <3>3
  <2>2. sel = R(sel)
    <3> HIDE DEF R
    <3> QED
      BY <2>1
  <2>3. w = sel[N]
    BY <1>1 DEF those
  <2>4. sel[0] = <<>>
    <3> HIDE DEF sel
    <3> QED
      BY <1>2, <2>2
  <2>5. ASSUME NEW i \in 1 .. N
        PROVE  sel[i] = IF ms[i] \in P THEN Append(sel[i - 1], ms[i]) ELSE sel[i - 1]
    <3> HIDE DEF sel
    <3>1. i \in 0 .. N /\ i # 0
      BY <1>2
    <3>2. sel[i] = R(sel)[i]
      BY <2>2
    <3> QED
      BY <3>1, <3>2
  <2> DEFINE Same == {i \in 0 .. N : sel[i] = g[i]}
  <2>6. 0 \in Same
    <3> HIDE DEF sel
    <3> QED
      BY <1>2, <1>6, <2>4
  <2>7. \A i \in 1 .. N : i - 1 \in Same => i \in Same
    <3> HIDE DEF sel
    <3> QED
      BY <1>2, <1>7, <2>5
  <2>8. N \in Same
    <3> HIDE DEF Same
    <3> QED
      BY <1>2, <2>6, <2>7, Lemmas!SetInduction
  <2> QED
    BY <2>3, <2>8
<1> DEFINE Part(v, n) ==
      /\ v \in Seq(S) /\ ToSet(v) = {ms[i] : i \in 1 .. n} \intersect P
      /\ \A i \in DOMAIN v : \E k \in 1 .. n : v[i] = ms[k]
      /\ \A i, j \in DOMAIN v : i < j =>
           \E k, l \in 1 .. n : k < l /\ v[i] = ms[k] /\ v[j] = ms[l]
           Good == {n \in 0 .. N : Part(g[n], n)}
<1>9. 0 \in Good
  BY <1>2, <1>6 DEF ToSet
<1>10. ASSUME NEW n \in 1 .. N, n - 1 \in Good PROVE n \in Good
  <2>1. PICK u \in Seq(S) : u = g[n - 1] /\ Part(u, n - 1)
    BY <1>10
  <2>2. n - 1 \in Nat /\ 1 .. n = 1 .. (n - 1) \union {n} /\ ms[n] \in S
    BY <1>2
  <2>3. CASE ms[n] \notin P
    <3>1. g[n] = u
      BY <1>7, <2>1, <2>3
    <3>2. Part(u, n)
      BY <2>1, <2>2, <2>3
    <3>3. n \in 0 .. N
      BY <1>2
    <3> HIDE DEF Part
    <3> QED
      BY <3>1, <3>2, <3>3
  <2>4. CASE ms[n] \in P
    <3>1. PICK v : v = Append(u, ms[n])
      OBVIOUS
    <3>2. /\ v \in Seq(S) /\ Len(v) = Len(u) + 1 /\ Len(u) \in Nat /\ v[Len(u) + 1] = ms[n]
          /\ \A i \in 1 .. Len(u) : v[i] = u[i]
          /\ DOMAIN u = 1 .. Len(u) /\ DOMAIN v = 1 .. Len(u) + 1
      BY <2>2, <3>1
    <3>3. \A i \in DOMAIN v : i = Len(u) + 1 \/ i \in DOMAIN u
      BY <3>2
    <3>4. ToSet(v) = ToSet(u) \union {ms[n]}
      <4>1. \A x \in ToSet(v) : x \in ToSet(u) \union {ms[n]}
        BY <3>2, <3>3 DEF ToSet
      <4>2. Len(u) + 1 \in DOMAIN v /\ \A i \in DOMAIN u : i \in DOMAIN v
        BY <3>2
      <4>3. \A x \in ToSet(u) \union {ms[n]} : x \in ToSet(v)
        BY <3>2, <4>2 DEF ToSet
      <4> QED
        BY <4>1, <4>3
    <3>5. ToSet(v) = {ms[i] : i \in 1 .. n} \intersect P
      BY <2>1, <2>2, <2>4, <3>4
    <3>6. \A i \in DOMAIN v : \E k \in 1 .. n : v[i] = ms[k]
      BY <2>1, <2>2, <3>2, <3>3
    <3>7. ASSUME NEW i \in DOMAIN v, NEW j \in DOMAIN v, i < j
          PROVE  \E k, l \in 1 .. n : k < l /\ v[i] = ms[k] /\ v[j] = ms[l]
      <4>1. i \in DOMAIN u
        BY <3>2, <3>7
      <4>2. CASE j \in DOMAIN u
        <5>1. PICK k, l \in 1 .. n - 1 : k < l /\ u[i] = ms[k] /\ u[j] = ms[l]
          BY <2>1, <3>7, <4>1, <4>2
        <5>2. k \in 1 .. n /\ l \in 1 .. n
          BY <2>2, <5>1
        <5> QED
          BY <3>2, <4>1, <4>2, <5>1, <5>2
      <4>3. CASE j = Len(u) + 1
        <5>1. PICK k \in 1 .. n - 1 : u[i] = ms[k]
          BY <2>1, <4>1
        <5>2. k < n /\ k \in 1 .. n /\ n \in 1 .. n
          BY <2>2, <5>1
        <5> QED
          BY <3>2, <4>1, <4>3, <5>1, <5>2
      <4> QED
        BY <3>3, <4>2, <4>3
    <3>8. g[n] = v
      BY <1>7, <2>1, <2>4, <3>1
    <3>9. Part(v, n)
      BY <3>2, <3>5, <3>6, <3>7
    <3>10. n \in 0 .. N
      BY <1>2
    <3> HIDE DEF Part
    <3> QED
      BY <3>8, <3>9, <3>10
  <2> QED
    BY <2>3, <2>4
<1>11. N \in Good
  <2> HIDE DEF Good
  <2> QED
    BY <1>2, <1>9, <1>10, Lemmas!SetInduction
<1>12. ToSet(ms) = {ms[i] : i \in 1 .. N}
  BY <1>2 DEF ToSet
<1>13. Part(w, N)
  <2> HIDE DEF Part
  <2> QED
    BY <1>8, <1>11
<1> QED
  BY <1>2, <1>12, <1>13

\* Order in a history without its entries outside P.
LEMMA ThoseInOrder ==
  ASSUME NEW ms \in Seq(Entry), IsInjective(ids(ms)), NEW P, NEW w, w = those(ms, P)
  PROVE  /\ w \in Seq(Entry) /\ IsInjective(ids(w))
         /\ ToSet(w) = ToSet(ms) \intersect P
         /\ InOrder(ids(w), ms)
         /\ \A a, b : /\ Before(ms, a, b)
                      /\ \E m \in ToSet(w) : m.id = a
                      /\ \E m \in ToSet(w) : m.id = b
                      => Before(w, a, b)
<1>1. /\ w \in Seq(Entry) /\ ToSet(w) = ToSet(ms) \intersect P
      /\ \A i, j \in DOMAIN w : i < j =>
           \E k, l \in DOMAIN ms : k < l /\ w[i] = ms[k] /\ w[j] = ms[l]
  BY ThoseAre
<1>2. /\ DOMAIN w = 1 .. Len(w) /\ Len(w) \in Nat /\ DOMAIN ms = 1 .. Len(ms) /\ Len(ms) \in Nat
      /\ DOMAIN ids(w) = DOMAIN w /\ DOMAIN ids(ms) = DOMAIN ms
      /\ \A i \in DOMAIN w : ids(w)[i] = w[i].id
      /\ \A i \in DOMAIN ms : ids(ms)[i] = ms[i].id
  BY <1>1 DEF ids
<1>3. \A k, l \in DOMAIN ms : ms[k].id = ms[l].id => k = l
  BY <1>2 DEF IsInjective
<1>4. InOrder(ids(w), ms)
  BY <1>1, <1>2 DEF InOrder, Before
<1>5. ASSUME NEW i \in DOMAIN w, NEW j \in DOMAIN w, i < j PROVE w[i].id # w[j].id
  <2>1. PICK k, l \in DOMAIN ms : k < l /\ w[i] = ms[k] /\ w[j] = ms[l]
    BY <1>1, <1>5
  <2> QED
    BY <1>2, <1>3, <2>1
<1>6. IsInjective(ids(w))
  <2>1. ASSUME NEW i \in DOMAIN w, NEW j \in DOMAIN w, w[i].id = w[j].id PROVE i = j
    <3>1. i < j \/ j < i \/ i = j
      BY <1>2
    <3> QED
      BY <1>5, <2>1, <3>1
  <2> QED
    BY <1>2, <2>1 DEF IsInjective
<1>7. ASSUME NEW a, NEW b, Before(ms, a, b),
             NEW i \in DOMAIN w, w[i].id = a, NEW j \in DOMAIN w, w[j].id = b
      PROVE  Before(w, a, b)
  <2>1. PICK k, l \in DOMAIN ms : k < l /\ ms[k].id = a /\ ms[l].id = b
    BY <1>7 DEF Before
  <2>2. i # j
    BY <1>2, <1>3, <1>7, <2>1
  <2>3. ~ (j < i)
    <3> SUFFICES ASSUME j < i PROVE FALSE
      OBVIOUS
    <3>1. PICK y, x \in DOMAIN ms : y < x /\ w[j] = ms[y] /\ w[i] = ms[x]
      BY <1>1
    <3>2. x = k /\ y = l
      BY <1>3, <1>7, <2>1, <3>1
    <3> QED
      BY <1>2, <2>1, <3>1, <3>2
  <2>4. i < j
    BY <1>2, <2>2, <2>3
  <2> QED
    BY <1>7, <2>4 DEF Before
<1>8. \A m \in ToSet(w) : \E i \in DOMAIN w : m = w[i]
  BY DEF ToSet
<1> QED
  BY <1>1, <1>4, <1>6, <1>7, <1>8

\* A history with one more entry.
LEMMA AppendInOrder ==
  ASSUME NEW ms \in Seq(Entry), IsInjective(ids(ms)),
         NEW e \in Entry, \A m \in ToSet(ms) : m.id # e.id,
         NEW w, w = Append(ms, e)
  PROVE  /\ w \in Seq(Entry) /\ IsInjective(ids(w)) /\ ToSet(w) = ToSet(ms) \union {e}
         /\ \A a, b : Before(ms, a, b) => Before(w, a, b)
         /\ \A m \in ToSet(ms) : Before(w, m.id, e.id)
<1>1. /\ w \in Seq(Entry) /\ Len(ms) \in Nat /\ DOMAIN ms = 1 .. Len(ms)
      /\ DOMAIN w = 1 .. Len(ms) + 1 /\ w[Len(ms) + 1] = e
      /\ \A i \in DOMAIN ms : w[i] = ms[i]
      /\ DOMAIN ids(w) = DOMAIN w /\ DOMAIN ids(ms) = DOMAIN ms
      /\ \A i \in DOMAIN w : ids(w)[i] = w[i].id
      /\ \A i \in DOMAIN ms : ids(ms)[i] = ms[i].id
  BY DEF ids
<1>2. /\ \A i \in DOMAIN w : i = Len(ms) + 1 \/ i \in DOMAIN ms
      /\ \A i \in DOMAIN ms : i \in DOMAIN w /\ i < Len(ms) + 1
      /\ Len(ms) + 1 \in DOMAIN w
  BY <1>1
<1>3. \A i \in DOMAIN ms : ms[i] \in ToSet(ms) /\ ms[i].id # e.id
  BY DEF ToSet
<1>4. IsInjective(ids(w))
  <2>1. \A i, j \in DOMAIN ms : ms[i].id = ms[j].id => i = j
    BY <1>1 DEF IsInjective
  <2>2. \A i, j \in DOMAIN w : w[i].id = w[j].id => i = j
    BY <1>1, <1>2, <1>3, <2>1
  <2> QED
    BY <1>1, <2>2 DEF IsInjective
<1>5. ToSet(w) = ToSet(ms) \union {e}
  <2>1. \A x \in ToSet(w) : x \in ToSet(ms) \union {e}
    BY <1>1, <1>2 DEF ToSet
  <2>2. \A x \in ToSet(ms) \union {e} : x \in ToSet(w)
    BY <1>1, <1>2 DEF ToSet
  <2> QED
    BY <2>1, <2>2
<1>6. \A a, b : Before(ms, a, b) => Before(w, a, b)
  BY <1>1, <1>2 DEF Before
<1>7. \A m \in ToSet(ms) : Before(w, m.id, e.id)
  BY <1>1, <1>2 DEF Before, ToSet
<1> QED
  BY <1>1, <1>4, <1>5, <1>6, <1>7

---------------------------------------------------------------------------
(***************************************************************************)
(* The tree.                                                               *)
(***************************************************************************)
\* The arcs of T into n, and out of it.
Into(T, n)  == {a \in DOMAIN T.arc : T.arc[a].target = n}
OutOf(T, n) == {a \in DOMAIN T.arc : T.arc[a].source = n}

\* The vectors of node n hold its arcs, in the order of ms.
Vectors(T, ms, n) ==
  /\ T.node[n] = Node(T.node[n].in, T.node[n].out)
  /\ Holds(T.node[n].in, Into(T, n)) /\ InOrder(T.node[n].in, ms)
  /\ Holds(T.node[n].out, OutOf(T, n)) /\ InOrder(T.node[n].out, ms)

\* What a tree is inside of a call: everything but the count of the arcs.
Whole(T, ms) ==
  /\ T = [m_arcs |-> T.m_arcs, m_nodes |-> T.m_nodes, arc |-> T.arc, node |-> T.node,
          m_arcs_size |-> T.m_arcs_size, m_nodes_size |-> T.m_nodes_size]
  /\ PoolOK(T.m_arcs, DOMAIN T.arc) /\ PoolOK(T.m_nodes, DOMAIN T.node)
  /\ T.arc \in [DOMAIN T.arc -> [source : DOMAIN T.node, target : DOMAIN T.node]]
  /\ T.node = [n \in DOMAIN T.node |-> T.node[n]]
  /\ \A n \in DOMAIN T.node : Vectors(T, ms, n)

\* A pool hands out finitely many slots.
LEMMA PoolFinite ==
  ASSUME NEW p, NEW live, PoolOK(p, live)
  PROVE  IsFiniteSet(live) /\ live \subseteq Addresses
<1>1. p.m_current_block \in Seq(Addresses) /\ live \subseteq ToSet(p.m_current_block)
  BY DEF PoolOK, PoolTypes, Blocks
<1>2. IsFiniteSet(ToSet(p.m_current_block))
  <2>1. PICK b, n : b = p.m_current_block /\ n = Len(b)
    OBVIOUS
  <2>2. n \in Nat /\ DOMAIN b = 1 .. n
    BY <1>1, <2>1
  <2>3. b \in Surjection(1 .. n, ToSet(b))
    BY <1>1, <2>1, <2>2 DEF ToSet, Surjection
  <2>4. IsFiniteSet(1 .. n)
    BY <2>2, FS_Interval
  <2> QED
    BY <2>1, <2>3, <2>4, FS_Surjection
<1>3. live \subseteq Addresses
  BY <1>1 DEF ToSet
<1> QED
  BY <1>1, <1>2, <1>3, FS_Subset

\* The blocks of the arcs.
arcBlocks(T) == T.m_arcs.m_current_block

\* What erase_impl leaves of a tree.
Erased(U, T, a) ==
  /\ DOMAIN U.node = DOMAIN T.node /\ DOMAIN U.arc = DOMAIN T.arc \ {a}
  /\ \A b \in DOMAIN U.arc : U.arc[b] = T.arc[b]
  /\ U.m_nodes = T.m_nodes /\ U.m_nodes_size = T.m_nodes_size /\ U.m_arcs_size = T.m_arcs_size
  /\ arcBlocks(U) = arcBlocks(T)

\* erase_impl leaves a whole tree, without the arc.
LEMMA EraseKeeps ==
  ASSUME NEW T, NEW ms, Whole(T, ms), NEW a \in DOMAIN T.arc, NEW U, U = erase_impl(T, a)
  PROVE  Whole(U, ms) /\ Erased(U, T, a)
<1>1. PICK s, t \in DOMAIN T.node : T.arc[a].source = s /\ T.arc[a].target = t
  BY DEF Whole
<1>2. PICK node : node = detached(T.node, s, t, a)
  OBVIOUS
<1>3. PICK arc : arc = drop(T.arc, a)
  OBVIOUS
<1>4. U = [m_arcs |-> deallocate(T.m_arcs, a), m_nodes |-> T.m_nodes, arc |-> arc, node |-> node,
           m_arcs_size |-> T.m_arcs_size, m_nodes_size |-> T.m_nodes_size]
  BY <1>1, <1>2, <1>3 DEF erase_impl, Whole
<1>5. DOMAIN arc = DOMAIN T.arc \ {a} /\ \A b \in DOMAIN arc : arc[b] = T.arc[b]
  BY <1>3 DEF drop, Restrict
<1>6. /\ DOMAIN node = DOMAIN T.node /\ node = [n \in DOMAIN T.node |-> node[n]]
      /\ \A n \in DOMAIN node :
           node[n] = Node(IF n = t THEN RemoveFirst(T.node[n].in, a) ELSE T.node[n].in,
                          IF n = s THEN RemoveFirst(T.node[n].out, a) ELSE T.node[n].out)
  <2>1. PICK M : M = [T.node EXCEPT ![t].in = RemoveFirst(@, a)]
    OBVIOUS
  <2>2. T.node = [n \in DOMAIN T.node |-> T.node[n]]
    BY DEF Whole
  <2>3. \A n \in DOMAIN T.node : T.node[n] = Node(T.node[n].in, T.node[n].out)
    BY DEF Whole, Vectors
  <2>4. /\ M = [n \in DOMAIN T.node |-> M[n]]
        /\ \A n \in DOMAIN T.node :
             M[n] = Node(IF n = t THEN RemoveFirst(T.node[n].in, a) ELSE T.node[n].in, T.node[n].out)
    <3>1. ASSUME NEW n \in DOMAIN T.node
          PROVE  M[n] = Node(IF n = t THEN RemoveFirst(T.node[n].in, a) ELSE T.node[n].in,
                             T.node[n].out)
      <4>1. PICK x, y : x = T.node[n].in /\ y = T.node[n].out
        OBVIOUS
      <4>2. T.node[n] = [in |-> x, out |-> y]
        BY <2>3, <4>1 DEF Node
      <4>3. CASE n = t
        <5>1. M[n] = [T.node[n] EXCEPT !.in = RemoveFirst(T.node[n].in, a)]
          BY <2>1, <4>3
        <5>2. M[n] = [in |-> RemoveFirst(x, a), out |-> y]
          BY <4>1, <4>2, <5>1
        <5> QED
          BY <4>1, <4>3, <5>2 DEF Node
      <4>4. CASE n # t
        BY <2>1, <2>3, <4>4
      <4> QED
        BY <4>3, <4>4
    <3> QED
      BY <2>1, <2>2, <3>1
  <2>5. node = [M EXCEPT ![s].out = RemoveFirst(@, a)]
    BY <1>2, <2>1 DEF detached
  <2>6. ASSUME NEW n \in DOMAIN T.node
        PROVE  node[n] = Node(IF n = t THEN RemoveFirst(T.node[n].in, a) ELSE T.node[n].in,
                              IF n = s THEN RemoveFirst(T.node[n].out, a) ELSE T.node[n].out)
    <3>1. PICK x, y : x = (IF n = t THEN RemoveFirst(T.node[n].in, a) ELSE T.node[n].in)
                      /\ y = T.node[n].out
      OBVIOUS
    <3>2. M[n] = [in |-> x, out |-> y]
      BY <2>4, <3>1 DEF Node
    <3>3. CASE n = s
      <4>1. node[n] = [M[n] EXCEPT !.out = RemoveFirst(M[n].out, a)]
        BY <2>4, <2>5, <3>3
      <4>2. node[n] = [in |-> x, out |-> RemoveFirst(y, a)]
        BY <3>2, <4>1
      <4> QED
        BY <3>1, <3>3, <4>2 DEF Node
    <3>4. CASE n # s
      <4>1. node[n] = M[n]
        BY <2>4, <2>5, <3>4
      <4> QED
        BY <3>1, <3>2, <3>4, <4>1 DEF Node
    <3> QED
      BY <3>3, <3>4
  <2>7. DOMAIN node = DOMAIN T.node /\ node = [n \in DOMAIN T.node |-> node[n]]
    BY <2>4, <2>5
  <2> QED
    BY <2>6, <2>7
<1>7. PoolOK(U.m_arcs, DOMAIN U.arc) /\ PoolOK(U.m_nodes, DOMAIN U.node)
  BY <1>4, <1>5, <1>6, DeallocateKeeps DEF Whole
<1>8. U.arc \in [DOMAIN U.arc -> [source : DOMAIN U.node, target : DOMAIN U.node]]
  <2>1. arc = [b \in DOMAIN T.arc \ {a} |-> T.arc[b]]
    BY <1>3 DEF drop, Restrict
  <2> QED
    BY <1>4, <1>5, <1>6, <2>1 DEF Whole
<1>9. ASSUME NEW n \in DOMAIN U.node PROVE Vectors(U, ms, n)
  <2>1. Vectors(T, ms, n)
    BY <1>4, <1>6, <1>9 DEF Whole
  <2>2. /\ U.node[n].in = IF n = t THEN RemoveFirst(T.node[n].in, a) ELSE T.node[n].in
        /\ U.node[n].out = IF n = s THEN RemoveFirst(T.node[n].out, a) ELSE T.node[n].out
        /\ U.node[n] = Node(U.node[n].in, U.node[n].out)
    <3>1. PICK x, y : /\ x = (IF n = t THEN RemoveFirst(T.node[n].in, a) ELSE T.node[n].in)
                      /\ y = (IF n = s THEN RemoveFirst(T.node[n].out, a) ELSE T.node[n].out)
      OBVIOUS
    <3>2. U.node[n] = [in |-> x, out |-> y]
      BY <1>4, <1>6, <1>9, <3>1 DEF Node
    <3> QED
      BY <3>1, <3>2 DEF Node
  <2>3. /\ Into(U, n) = Into(T, n) \ {a} /\ (a \in Into(T, n) <=> n = t)
        /\ OutOf(U, n) = OutOf(T, n) \ {a} /\ (a \in OutOf(T, n) <=> n = s)
    BY <1>1, <1>4, <1>5 DEF Into, OutOf
  <2>4. Holds(U.node[n].in, Into(U, n)) /\ InOrder(U.node[n].in, ms)
    <3>1. CASE n = t
      BY <2>1, <2>2, <2>3, <3>1, RemovesOne, RemovesInOrder DEF Vectors
    <3>2. CASE n # t
      <4>1. Into(U, n) = Into(T, n)
        BY <2>3, <3>2
      <4> QED
        BY <2>1, <2>2, <3>2, <4>1 DEF Vectors
    <3> QED
      BY <3>1, <3>2
  <2>5. Holds(U.node[n].out, OutOf(U, n)) /\ InOrder(U.node[n].out, ms)
    <3>1. CASE n = s
      BY <2>1, <2>2, <2>3, <3>1, RemovesOne, RemovesInOrder DEF Vectors
    <3>2. CASE n # s
      <4>1. OutOf(U, n) = OutOf(T, n)
        BY <2>3, <3>2
      <4> QED
        BY <2>1, <2>2, <3>2, <4>1 DEF Vectors
    <3> QED
      BY <3>1, <3>2
  <2> QED
    BY <2>2, <2>4, <2>5 DEF Vectors
<1>10. Erased(U, T, a)
  <2>1. T.m_arcs \in PoolTypes
    BY DEF Whole, PoolOK
  <2>2. arcBlocks(U) = arcBlocks(T)
    BY <1>4, <2>1 DEF arcBlocks, deallocate, PoolTypes
  <2> QED
    BY <1>4, <1>5, <1>6, <2>2 DEF Erased
<1>11. U.node = [n \in DOMAIN U.node |-> U.node[n]]
  BY <1>4, <1>6
<1>12. U = [m_arcs |-> U.m_arcs, m_nodes |-> U.m_nodes, arc |-> U.arc, node |-> U.node,
            m_arcs_size |-> U.m_arcs_size, m_nodes_size |-> U.m_nodes_size]
  BY <1>4
<1> QED
  BY <1>7, <1>8, <1>9, <1>10, <1>11, <1>12 DEF Whole

---------------------------------------------------------------------------
(***************************************************************************)
(* The loops of erase ( node ), over the memory of a vector list.          *)
(***************************************************************************)
\* The arcs of T that U has no more.
Gone(U, T) == DOMAIN T.arc \ DOMAIN U.arc

\* U is T without some arcs, as far as an inner erasure goes.
Thinned(U, T, ms) ==
  /\ Whole(U, ms) /\ DOMAIN U.node = DOMAIN T.node /\ DOMAIN U.arc \subseteq DOMAIN T.arc
  /\ \A b \in DOMAIN U.arc : U.arc[b] = T.arc[b]
  /\ U.m_nodes = T.m_nodes /\ U.m_nodes_size = T.m_nodes_size /\ U.m_arcs_size = T.m_arcs_size
  /\ arcBlocks(U) = arcBlocks(T)

\* After i passes without undefined behaviour i arcs are gone.  The first pass
\* leaves the second arc in the first place of the memory, where no later pass
\* looks; when there are more than two it is nowhere else, and never erased.
Passed(L, i, T, ms, list) ==
  /\ L = [tree |-> L.tree, mem |-> L.mem, len |-> L.len, defined |-> L.defined]
  /\ L.defined \in BOOLEAN
  /\ Len(list) <= 2 => L.defined
  /\ L.defined =>
       /\ L.len = Len(list) - i
       /\ Thinned(L.tree, T, ms)
       /\ Gone(L.tree, T) \subseteq ToSet(list)
       /\ IsFiniteSet(Gone(L.tree, T)) /\ Cardinality(Gone(L.tree, T)) = i
       /\ L.mem \in [1 .. Len(list) -> ToSet(list)]
       /\ i = 0 => L.mem = list
       /\ i = 1 /\ Len(list) = 2 => L.mem[2] = list[2] /\ Gone(L.tree, T) = {list[1]}
       /\ i > 0 /\ Len(list) > 2 =>
            /\ list[2] \notin Gone(L.tree, T) /\ L.mem[1] = list[2]
            /\ \A j \in 2 .. Len(list) : L.mem[j] # list[2]

\* new is old without its entry q.
Shifts(new, old, q, len, k) ==
  \A j \in 1 .. k : new[j] = IF q <= j /\ j < len THEN old[j + 1] ELSE old[j]

\* The memory after an erasure.
LEMMA ShiftsUp ==
  ASSUME NEW S, NEW k \in Nat, NEW mem \in [1 .. k -> S], NEW i \in 1 .. k,
         NEW len \in Int, len <= k, NEW N, N = shifted(mem, len, mem[i])
  PROVE  /\ N \in [1 .. k -> S]
         /\ \E q \in 1 .. k : mem[q] = mem[i] /\ Shifts(N, mem, q, len, k)
<1>1. PICK a : a = mem[i]
  OBVIOUS
<1>2. mem \in Seq(S) /\ Len(mem) = k /\ DOMAIN mem = 1 .. k
  OBVIOUS
<1>3. PICK I : I = {j \in 1 .. Len(mem) : mem[j] = a}
  OBVIOUS
<1>4. I \in SUBSET Nat /\ I # {}
  BY <1>1, <1>2, <1>3
<1>5. PICK q : q = Min(I)
  OBVIOUS
<1>6. q \in 1 .. k /\ mem[q] = a
  BY <1>2, <1>3, <1>4, <1>5, MinIsLeast
<1>7. SelectInSeq(mem, LAMBDA x : x = a) = q
  BY <1>3, <1>4, <1>5 DEF SelectInSeq
<1>8. N = [j \in 1 .. k |-> IF q <= j /\ j < len THEN mem[j + 1] ELSE mem[j]]
  <2>1. shifted(mem, len, a) =
          [j \in 1 .. k |-> IF q <= j /\ j < len THEN mem[j + 1] ELSE mem[j]]
    BY <1>2, <1>7 DEF shifted
  <2> QED
    BY <1>1, <2>1
<1>9. \A j \in 1 .. k : j < len => j + 1 \in 1 .. k
  OBVIOUS
<1>10. N \in [1 .. k -> S]
  BY <1>8, <1>9
<1> QED
  BY <1>1, <1>6, <1>8, <1>10 DEF Shifts

\* A pass of a loop of erase ( node ) keeps what Passed says of it.
LEMMA PassKeeps ==
  ASSUME NEW T, NEW ms, Whole(T, ms),
         NEW list, Holds(list, ToSet(list)), ToSet(list) \subseteq DOMAIN T.arc,
         NEW i \in 1 .. Len(list), NEW L, Passed(L, i - 1, T, ms, list),
         NEW M, M = pass(L, i)
  PROVE  Passed(M, i, T, ms, list)
<1>1. PICK k \in Nat : k = Len(list) /\ DOMAIN list = 1 .. k
  BY HoldsSize
<1>2. \A j \in 1 .. k : list[j] \in ToSet(list)
  BY <1>1 DEF ToSet
<1>3. \A x, y \in 1 .. k : list[x] = list[y] => x = y
  BY <1>1 DEF Holds, IsInjective
<1>4. i \in 1 .. k /\ i \in Nat
  BY <1>1
<1>5. PICK a : a = L.mem[i]
  OBVIOUS
<1>6. CASE ~ L.defined \/ a \notin DOMAIN L.tree.arc
  <2>1. M = [L EXCEPT !.defined = FALSE]
    BY <1>5, <1>6 DEF pass
  <2>2. M = [tree |-> L.tree, mem |-> L.mem, len |-> L.len, defined |-> FALSE]
    BY <2>1 DEF Passed
  <2>3. k > 2
    <3> SUFFICES ASSUME ~ (k > 2) PROVE FALSE
      OBVIOUS
    <3>1. L.defined /\ a \notin DOMAIN L.tree.arc /\ a \in ToSet(list) /\ a \in Gone(L.tree, T)
      BY <1>1, <1>4, <1>5, <1>6 DEF Passed, Gone
    <3>2. CASE i = 1
      <4>1. Cardinality(Gone(L.tree, T)) = 0 /\ IsFiniteSet(Gone(L.tree, T))
        BY <3>1, <3>2 DEF Passed
      <4> QED
        BY <3>1, <4>1, FS_EmptySet
    <3>3. CASE i = 2
      <4>1. k = 2 /\ i - 1 = 1
        BY <1>4, <3>3
      <4>2. a = list[2] /\ Gone(L.tree, T) = {list[1]}
        BY <1>1, <1>5, <3>1, <3>3, <4>1 DEF Passed
      <4>3. 1 \in 1 .. k /\ 2 \in 1 .. k
        BY <4>1
      <4> QED
        BY <1>3, <3>1, <4>2, <4>3
    <3> QED
      BY <1>4, <3>2, <3>3
  <2> QED
    BY <1>1, <2>2, <2>3 DEF Passed
<1>7. CASE L.defined /\ a \in DOMAIN L.tree.arc
  <2>1. /\ L.len = k - (i - 1) /\ Thinned(L.tree, T, ms)
        /\ L.mem \in [1 .. k -> ToSet(list)]
        /\ Gone(L.tree, T) \subseteq ToSet(list)
        /\ IsFiniteSet(Gone(L.tree, T)) /\ Cardinality(Gone(L.tree, T)) = i - 1
    BY <1>1, <1>7 DEF Passed
  <2>2. PICK U : U = erase_impl(L.tree, a)
    OBVIOUS
  <2>3. Whole(U, ms) /\ Erased(U, L.tree, a)
    BY <1>7, <2>1, <2>2, EraseKeeps DEF Thinned
  <2>4. Thinned(U, T, ms)
    BY <2>1, <2>3 DEF Thinned, Erased
  <2>5. a \in ToSet(list)
    BY <1>4, <1>5, <2>1
  <2>6. Gone(U, T) = Gone(L.tree, T) \union {a} /\ a \notin Gone(L.tree, T)
    BY <1>7, <2>1, <2>3 DEF Gone, Erased, Thinned
  <2>7. /\ Gone(U, T) \subseteq ToSet(list) /\ IsFiniteSet(Gone(U, T))
        /\ Cardinality(Gone(U, T)) = i
    BY <1>4, <2>1, <2>5, <2>6, FS_AddElement
  <2>8. PICK mem : mem = shifted(L.mem, L.len, a)
    OBVIOUS
  <2>9. M = [tree |-> U, mem |-> mem, len |-> k - i, defined |-> TRUE]
    <3>1. L.len - 1 = k - i
      BY <1>4, <2>1
    <3> QED
      BY <1>5, <1>7, <2>2, <2>8, <3>1 DEF pass, Loop
  <2>10. /\ mem \in [1 .. k -> ToSet(list)]
         /\ \E q \in 1 .. k : L.mem[q] = a /\ Shifts(mem, L.mem, q, k - i + 1, k)
    <3>1. PICK S, old, len : S = ToSet(list) /\ old = L.mem /\ len = k - i + 1
      OBVIOUS
    <3>2. /\ old \in [1 .. k -> S] /\ i \in 1 .. k /\ k \in Nat /\ len \in Int /\ len <= k
          /\ mem = shifted(old, len, old[i]) /\ a = old[i]
      BY <1>4, <1>5, <2>1, <2>8, <3>1
    <3>3. /\ mem \in [1 .. k -> S]
          /\ \E q \in 1 .. k : old[q] = old[i] /\ Shifts(mem, old, q, len, k)
      BY ONLY <3>2, ShiftsUp
    <3> QED
      BY <3>1, <3>2, <3>3
  <2>11. PICK q \in 1 .. k :
           /\ L.mem[q] = a
           /\ \A j \in 1 .. k :
                mem[j] = IF q <= j /\ j < k - i + 1 THEN L.mem[j + 1] ELSE L.mem[j]
    BY <2>10 DEF Shifts
  <2>12. \A j \in 1 .. k : j < k - i + 1 => j + 1 \in 1 .. k
    BY <1>4
  <2>13. CASE i = 1
    <3>1. L.mem = list
      BY <1>7, <2>13 DEF Passed
    <3>2. q = 1 /\ a = list[1]
      BY <1>3, <1>4, <1>5, <2>11, <2>13, <3>1
    <3>3. \A j \in 1 .. k : mem[j] = IF j < k THEN list[j + 1] ELSE list[j]
      BY <1>4, <2>11, <2>13, <3>1, <3>2
    <3>4. Gone(L.tree, T) = {}
      BY <2>1, <2>13, FS_EmptySet
    <3>5. Gone(U, T) = {list[1]}
      BY <2>6, <3>2, <3>4
    <3>6. k = 2 => mem[2] = list[2]
      <4>1. k = 2 => 2 \in 1 .. k /\ ~ (2 < k)
        OBVIOUS
      <4> QED
        BY <3>3, <4>1
    <3>7. ASSUME k > 2
          PROVE  /\ list[2] \notin Gone(U, T) /\ mem[1] = list[2]
                 /\ \A j \in 2 .. k : mem[j] # list[2]
      <4>1. 1 \in 1 .. k /\ 2 \in 1 .. k /\ k \in 1 .. k /\ 1 < k /\ 1 + 1 = 2
        BY <3>7
      <4>2. list[2] # list[1] /\ mem[1] = list[2]
        BY <1>3, <3>3, <4>1
      <4>3. ASSUME NEW j \in 2 .. k PROVE mem[j] # list[2]
        <5>1. j \in 1 .. k /\ (j < k => j + 1 \in 1 .. k /\ j + 1 # 2) /\ (~ (j < k) => j = k)
          BY <4>3
        <5>2. CASE j < k
          BY <1>3, <3>3, <4>1, <5>1, <5>2
        <5>3. CASE ~ (j < k)
          BY <1>3, <3>3, <3>7, <4>1, <5>1, <5>3
        <5> QED
          BY <5>2, <5>3
      <4> QED
        BY <3>5, <4>2, <4>3
    <3>8. M.tree = U /\ M.mem = mem /\ M.len = k - i /\ M.defined = TRUE
      BY <2>9
    <3>9. i # 0 /\ (i = 1 /\ k = 2 => mem[2] = list[2] /\ Gone(U, T) = {list[1]})
      BY <2>13, <3>5, <3>6
    <3> QED
      BY <1>1, <2>4, <2>7, <2>9, <2>10, <3>7, <3>8, <3>9 DEF Passed
  <2>14. CASE i > 1
    <3>1. ASSUME k > 2
          PROVE  /\ list[2] \notin Gone(U, T) /\ mem[1] = list[2]
                 /\ \A j \in 2 .. k : mem[j] # list[2]
      <4>1. /\ list[2] \notin Gone(L.tree, T) /\ L.mem[1] = list[2]
            /\ \A j \in 2 .. k : L.mem[j] # list[2]
        BY <1>1, <1>4, <1>7, <2>14, <3>1 DEF Passed
      <4>2. a # list[2]
        BY <1>4, <1>5, <2>14, <4>1
      <4>3. q # 1
        BY <2>11, <4>1, <4>2
      <4>4. mem[1] = list[2]
        BY <1>4, <2>11, <4>1, <4>3
      <4>5. ASSUME NEW j \in 2 .. k PROVE mem[j] # list[2]
        <5>1. j \in 1 .. k /\ (j < k - i + 1 => j + 1 \in 2 .. k)
          BY <1>4, <4>5
        <5> QED
          BY <2>11, <4>1, <5>1
      <4> QED
        BY <2>6, <4>1, <4>2, <4>4, <4>5
    <3>2. ~ (i = 1) /\ ~ (i = 0)
      BY <2>14
    <3>3. M.tree = U /\ M.mem = mem /\ M.len = k - i /\ M.defined = TRUE
      BY <2>9
    <3> QED
      BY <1>1, <2>4, <2>7, <2>9, <2>10, <3>1, <3>2, <3>3 DEF Passed
  <2> QED
    BY <1>4, <2>13, <2>14
<1>8. L.defined \in BOOLEAN
  BY DEF Passed
<1> QED
  BY <1>6, <1>7, <1>8

\* The loop erases its arcs, and is defined, when there are at most two.
LEMMA EraseAllKeeps ==
  ASSUME NEW T, NEW ms, Whole(T, ms),
         NEW list, Holds(list, ToSet(list)), ToSet(list) \subseteq DOMAIN T.arc,
         NEW L, L = eraseAll(T, list)
  PROVE  /\ L.defined \in BOOLEAN
         /\ L.defined <=> Len(list) <= 2
         /\ L.defined => Thinned(L.tree, T, ms) /\ Gone(L.tree, T) = ToSet(list)
<1>1. PICK k \in Nat : k = Len(list) /\ DOMAIN list = 1 .. k
  BY HoldsSize
<1> DEFINE R(f) == [i \in 0 .. k |-> IF i = 0 THEN Loop(T, list, k) ELSE pass(f[i - 1], i)]
           loop1 == CHOOSE f : f = R(f)
<1>2. L = loop1[k]
  BY <1>1 DEF eraseAll
<1> DEFINE Solves(f, n) ==
             /\ f = [i \in 0 .. n |-> f[i]]
             /\ f[0] = Loop(T, list, k) /\ \A i \in 1 .. n : f[i] = pass(f[i - 1], i)
           Defined == {n \in 0 .. k : \E f : Solves(f, n)}
<1>3. 0 \in Defined
  <2>1. PICK f : f = [i \in 0 .. 0 |-> Loop(T, list, k)]
    OBVIOUS
  <2>2. Solves(f, 0)
    BY <2>1
  <2> QED
    BY <2>2
<1>4. ASSUME NEW n \in 1 .. k, n - 1 \in Defined PROVE n \in Defined
  <2>1. PICK f : Solves(f, n - 1)
    BY <1>4
  <2>2. PICK g : g = [i \in 0 .. n |-> IF i = n THEN pass(f[n - 1], n) ELSE f[i]]
    OBVIOUS
  <2>3. g[0] = Loop(T, list, k) /\ g = [i \in 0 .. n |-> g[i]]
    BY <2>1, <2>2
  <2>4. ASSUME NEW i \in 1 .. n PROVE g[i] = pass(g[i - 1], i)
    <3>1. i \in 0 .. n /\ i - 1 \in 0 .. n /\ i - 1 # n /\ (i # n => i \in 1 .. n - 1)
      OBVIOUS
    <3>2. g[i - 1] = f[i - 1]
      BY <2>2, <3>1
    <3> QED
      BY <2>1, <2>2, <3>1, <3>2
  <2>5. Solves(g, n)
    BY <2>3, <2>4
  <2>6. n \in 0 .. k
    OBVIOUS
  <2> HIDE DEF Solves
  <2> QED
    BY <2>5, <2>6
<1>5. PICK g : Solves(g, k)
  <2>1. k \in Defined
    <3> HIDE DEF Defined
    <3>1. \A n \in 1 .. k : n - 1 \in Defined => n \in Defined
      BY <1>4
    <3>2. \A n \in 0 .. k : n \in Defined
      BY <1>3, <3>1, Lemmas!SetInduction
    <3> QED
      BY <3>2
  <2> QED
    BY <2>1
<1>6. loop1 = R(loop1)
  <2>1. g = R(g)
    <3>1. \A i \in 0 .. k : i = 0 \/ i \in 1 .. k
      OBVIOUS
    <3>2. \A i \in 0 .. k : g[i] = IF i = 0 THEN Loop(T, list, k) ELSE pass(g[i - 1], i)
      BY <1>5, <3>1
    <3>3. g = [i \in 0 .. k |-> g[i]]
      BY <1>5
    <3> QED
      BY <3>2, <3>3
  <2> HIDE DEF R
  <2> QED
    BY <2>1
<1>7. PICK f : f = loop1
  OBVIOUS
<1>8. f[0] = Loop(T, list, k) /\ \A i \in 1 .. k : f[i] = pass(f[i - 1], i)
  <2>1. f = R(f)
    BY <1>6, <1>7
  <2>2. ASSUME NEW i \in 1 .. k PROVE f[i] = pass(f[i - 1], i)
    <3>1. i \in 0 .. k /\ i # 0
      OBVIOUS
    <3> QED
      BY <2>1, <3>1
  <2>3. 0 \in 0 .. k
    OBVIOUS
  <2>4. f[0] = Loop(T, list, k)
    BY <2>1, <2>3
  <2> QED
    BY <2>2, <2>4
<1> HIDE DEF loop1, R, Solves, Defined
<1> DEFINE Good == {n \in 0 .. k : Passed(f[n], n, T, ms, list)}
<1>9. 0 \in Good
  <2>1. f[0] = [tree |-> T, mem |-> list, len |-> k, defined |-> TRUE]
    BY <1>8 DEF Loop
  <2>2. Gone(T, T) = {}
    BY DEF Gone
  <2>3. Thinned(T, T, ms)
    BY DEF Thinned
  <2>4. list \in [1 .. Len(list) -> ToSet(list)]
    BY <1>1 DEF Holds, ToSet
  <2>5. IsFiniteSet({}) /\ Cardinality({}) = 0
    BY FS_EmptySet
  <2>6. PICK I : I = f[0]
    OBVIOUS
  <2>7. /\ I = [tree |-> T, mem |-> list, len |-> k, defined |-> TRUE]
        /\ I.tree = T /\ I.mem = list /\ I.len = k /\ I.defined = TRUE
    BY <2>1, <2>6
  <2>8. Passed(I, 0, T, ms, list)
    <3>1. I = [tree |-> I.tree, mem |-> I.mem, len |-> I.len, defined |-> I.defined]
      BY <2>7
    <3>2. Gone(I.tree, T) = {} /\ Thinned(I.tree, T, ms) /\ I.mem = list /\ I.defined = TRUE
      BY <2>2, <2>3, <2>7
    <3>3. I.len = Len(list) - 0
      BY <1>1, <2>7
    <3>4. /\ Gone(I.tree, T) \subseteq ToSet(list) /\ IsFiniteSet(Gone(I.tree, T))
          /\ Cardinality(Gone(I.tree, T)) = 0
          /\ I.mem \in [1 .. Len(list) -> ToSet(list)]
      BY <2>4, <2>5, <3>2
    <3>5. ~ (0 = 1) /\ ~ (0 > 0)
      OBVIOUS
    <3> QED
      BY <3>1, <3>2, <3>3, <3>4, <3>5 DEF Passed
  <2>9. 0 \in 0 .. k
    OBVIOUS
  <2> QED
    BY <2>6, <2>8, <2>9
<1>10. ASSUME NEW n \in 1 .. k, n - 1 \in Good PROVE n \in Good
  <2>1. Passed(f[n - 1], n - 1, T, ms, list) /\ f[n] = pass(f[n - 1], n)
    BY <1>8, <1>10
  <2>2. Passed(f[n], n, T, ms, list)
    BY <1>1, <2>1, PassKeeps
  <2> QED
    BY <2>2
<1>11. Passed(L, k, T, ms, list)
  <2>1. k \in Good
    <3> HIDE DEF Good
    <3>1. \A n \in 1 .. k : n - 1 \in Good => n \in Good
      BY <1>10
    <3>2. \A n \in 0 .. k : n \in Good
      BY <1>9, <3>1, Lemmas!SetInduction
    <3> QED
      BY <3>2
  <2> QED
    BY <1>2, <1>7, <2>1
<1>12. IsFiniteSet(ToSet(list)) /\ Cardinality(ToSet(list)) = k
  BY <1>1, HoldsSize
<1>13. L.defined => Gone(L.tree, T) = ToSet(list)
  BY <1>11, <1>12, FS_Subset DEF Passed
<1>14. L.defined => k <= 2
  <2> SUFFICES ASSUME L.defined, k > 2 PROVE FALSE
    OBVIOUS
  <2>1. list[2] \notin Gone(L.tree, T)
    BY <1>1, <1>11 DEF Passed
  <2>2. list[2] \in ToSet(list)
    BY <1>1 DEF ToSet
  <2> QED
    BY <1>13, <2>1, <2>2
<1> QED
  BY <1>1, <1>11, <1>13, <1>14 DEF Passed

---------------------------------------------------------------------------
(***************************************************************************)
(* The tree and its history between calls.                                 *)
(***************************************************************************)
HistoryOf(T, ms) ==
  /\ ms \in Seq(Entry) /\ IsInjective(ids(ms))
  /\ \A a \in DOMAIN T.arc : \E m \in ToSet(ms) : m.id = a
  /\ \A m \in ToSet(ms) : m.id \in DOMAIN T.arc /\ T.arc[m.id] = m.arc

Consistent(T, ms) ==
  /\ Whole(T, ms) /\ HistoryOf(T, ms)
  /\ T.m_arcs_size = Cardinality(DOMAIN T.arc) /\ T.m_nodes_size = Cardinality(DOMAIN T.node)

\* What Whole says of the numbers of nodes and arcs, and of the arcs.
LEMMA WholeFacts ==
  ASSUME NEW T, NEW ms, Whole(T, ms)
  PROVE  /\ IsFiniteSet(DOMAIN T.arc) /\ IsFiniteSet(DOMAIN T.node)
         /\ Cardinality(DOMAIN T.arc) \in Nat /\ Cardinality(DOMAIN T.node) \in Nat
         /\ DOMAIN T.arc \subseteq Addresses /\ DOMAIN T.node \subseteq Addresses
         /\ \A a \in DOMAIN T.arc :
              /\ T.arc[a] = Arc(T.arc[a].source, T.arc[a].target)
              /\ T.arc[a].source \in DOMAIN T.node /\ T.arc[a].target \in DOMAIN T.node
<1>1. PoolOK(T.m_arcs, DOMAIN T.arc) /\ PoolOK(T.m_nodes, DOMAIN T.node)
  BY DEF Whole
<1>2. /\ IsFiniteSet(DOMAIN T.arc) /\ IsFiniteSet(DOMAIN T.node)
      /\ DOMAIN T.arc \subseteq Addresses /\ DOMAIN T.node \subseteq Addresses
  BY <1>1, PoolFinite
<1>3. Cardinality(DOMAIN T.arc) \in Nat /\ Cardinality(DOMAIN T.node) \in Nat
  BY <1>2, FS_CardinalityType
<1>4. ASSUME NEW a \in DOMAIN T.arc
      PROVE  /\ T.arc[a] = Arc(T.arc[a].source, T.arc[a].target)
             /\ T.arc[a].source \in DOMAIN T.node /\ T.arc[a].target \in DOMAIN T.node
  <2>1. T.arc[a] \in [source : DOMAIN T.node, target : DOMAIN T.node]
    BY <1>4 DEF Whole
  <2> QED
    BY <2>1 DEF Arc
<1> QED
  BY <1>2, <1>3, <1>4

\* A history with at least the order of another serves as well.
LEMMA OrderKept ==
  ASSUME NEW T, NEW ms, Whole(T, ms), NEW ns,
         \A a, b \in DOMAIN T.arc : Before(ms, a, b) => Before(ns, a, b)
  PROVE  Whole(T, ns)
<1>1. ASSUME NEW n \in DOMAIN T.node PROVE Vectors(T, ns, n)
  <2>1. Vectors(T, ms, n)
    BY <1>1 DEF Whole
  <2>2. ASSUME NEW v, NEW S, Holds(v, S), S \subseteq DOMAIN T.arc, InOrder(v, ms)
        PROVE  InOrder(v, ns)
    <3>1. \A i \in DOMAIN v : v[i] \in DOMAIN T.arc
      BY <2>2, HoldsSize
    <3> QED
      BY <2>2, <3>1 DEF InOrder
  <2>3. Into(T, n) \subseteq DOMAIN T.arc /\ OutOf(T, n) \subseteq DOMAIN T.arc
    BY DEF Into, OutOf
  <2> QED
    BY <2>1, <2>2, <2>3 DEF Vectors
<1> QED
  BY <1>1 DEF Whole

\* The history after some arcs were erased.
LEMMA HistoryThinned ==
  ASSUME NEW T, NEW ms, HistoryOf(T, ms),
         NEW U, Whole(U, ms), DOMAIN U.arc \subseteq DOMAIN T.arc,
         \A a \in DOMAIN U.arc : U.arc[a] = T.arc[a],
         NEW P, \A m \in ToSet(ms) : m \in P <=> m.id \in DOMAIN U.arc,
         NEW ns, ns = those(ms, P)
  PROVE  Whole(U, ns) /\ HistoryOf(U, ns)
<1>1. /\ ns \in Seq(Entry) /\ IsInjective(ids(ns)) /\ ToSet(ns) = ToSet(ms) \intersect P
      /\ \A a, b : /\ Before(ms, a, b)
                   /\ \E m \in ToSet(ns) : m.id = a
                   /\ \E m \in ToSet(ns) : m.id = b
                   => Before(ns, a, b)
  BY ThoseInOrder DEF HistoryOf
<1>2. \A a \in DOMAIN U.arc : \E m \in ToSet(ns) : m.id = a
  <2>1. \A a \in DOMAIN U.arc : \E m \in ToSet(ms) : m.id = a
    BY DEF HistoryOf
  <2> QED
    BY <1>1, <2>1
<1>3. \A m \in ToSet(ns) : m.id \in DOMAIN U.arc /\ U.arc[m.id] = m.arc
  BY <1>1 DEF HistoryOf
<1>4. Whole(U, ns)
  BY <1>1, <1>2, OrderKept
<1> QED
  BY <1>1, <1>2, <1>3, <1>4 DEF HistoryOf

\* addNode leaves the history alone.
LEMMA AddNodeConsistent ==
  ASSUME NEW T, NEW ms, Consistent(T, ms), NEW n \in allocate(T.m_nodes),
         NEW U, U = addNode(T, n)
  PROVE  /\ Consistent(U, ms) /\ DOMAIN U.node = DOMAIN T.node \union {n}
         /\ U.m_nodes = allocated(T.m_nodes, n) /\ U.m_arcs = T.m_arcs /\ U.arc = T.arc
<1>1. Whole(T, ms) /\ HistoryOf(T, ms)
  BY DEF Consistent
<1>2. PICK node : node = put(T.node, n, Node(<<>>, <<>>))
  OBVIOUS
<1>3. U = [m_arcs |-> T.m_arcs, m_nodes |-> allocated(T.m_nodes, n), arc |-> T.arc, node |-> node,
           m_arcs_size |-> T.m_arcs_size, m_nodes_size |-> T.m_nodes_size + 1]
  BY <1>1, <1>2 DEF addNode, Whole
<1>4. n \notin DOMAIN T.node /\ PoolOK(U.m_nodes, DOMAIN T.node \union {n})
  BY <1>1, <1>3, AllocateKeeps DEF Whole
<1>5. /\ DOMAIN node = DOMAIN T.node \union {n} /\ node = [m \in DOMAIN node |-> node[m]]
      /\ node[n] = Node(<<>>, <<>>) /\ \A m \in DOMAIN T.node : node[m] = T.node[m]
  BY <1>2, <1>4 DEF put
<1>6. U.arc \in [DOMAIN U.arc -> [source : DOMAIN U.node, target : DOMAIN U.node]]
  BY <1>1, <1>3, <1>5 DEF Whole
<1>7. ASSUME NEW m \in DOMAIN U.node PROVE Vectors(U, ms, m)
  <2>1. Into(U, m) = Into(T, m) /\ OutOf(U, m) = OutOf(T, m)
    BY <1>3 DEF Into, OutOf
  <2>2. CASE m = n
    <3>1. Into(T, n) = {} /\ OutOf(T, n) = {}
      BY <1>1, <1>4, WholeFacts DEF Into, OutOf
    <3>2. U.node[m].in = <<>> /\ U.node[m].out = <<>> /\ U.node[m] = Node(<<>>, <<>>)
      BY <1>3, <1>5, <2>2 DEF Node
    <3>3. Holds(<<>>, {}) /\ InOrder(<<>>, ms)
      BY DEF Holds, InOrder, IsInjective, ToSet
    <3> QED
      BY <2>1, <2>2, <3>1, <3>2, <3>3 DEF Vectors
  <2>3. CASE m # n
    <3>1. m \in DOMAIN T.node /\ U.node[m] = T.node[m]
      BY <1>3, <1>5, <1>7, <2>3
    <3>2. Vectors(T, ms, m)
      BY <1>1, <3>1 DEF Whole
    <3> QED
      BY <2>1, <3>1, <3>2 DEF Vectors
  <2> QED
    BY <2>2, <2>3
<1>8. Whole(U, ms)
  <2>1. /\ U.m_arcs = T.m_arcs /\ U.arc = T.arc /\ U.node = node
        /\ PoolOK(U.m_arcs, DOMAIN U.arc) /\ PoolOK(U.m_nodes, DOMAIN U.node)
    BY <1>1, <1>3, <1>4, <1>5 DEF Whole
  <2>2. U = [m_arcs |-> U.m_arcs, m_nodes |-> U.m_nodes, arc |-> U.arc, node |-> U.node,
             m_arcs_size |-> U.m_arcs_size, m_nodes_size |-> U.m_nodes_size]
    BY <1>3
  <2> QED
    BY <1>5, <1>6, <1>7, <2>1, <2>2 DEF Whole
<1>9. HistoryOf(U, ms)
  BY <1>1, <1>3 DEF HistoryOf
<1>10. U.m_nodes_size = Cardinality(DOMAIN U.node) /\ U.m_arcs_size = Cardinality(DOMAIN U.arc)
  <2>1. Cardinality(DOMAIN T.node \union {n}) = Cardinality(DOMAIN T.node) + 1
    BY <1>1, <1>4, WholeFacts, FS_AddElement
  <2> QED
    BY <1>3, <1>5, <2>1 DEF Consistent
<1> QED
  BY <1>3, <1>5, <1>8, <1>9, <1>10 DEF Consistent

\* A vector with a new arc at its end.
LEMMA AppendsOne ==
  ASSUME NEW S, NEW v, Holds(v, S), NEW a \in Addresses, a \notin S, NEW ms, InOrder(v, ms),
         NEW ns, \A b, c : Before(ms, b, c) => Before(ns, b, c), \A b \in S : Before(ns, b, a)
  PROVE  Holds(Append(v, a), S \union {a}) /\ InOrder(Append(v, a), ns)
<1>1. PICK w : w = Append(v, a)
  OBVIOUS
<1>2. v \in Seq(Addresses) /\ Len(v) \in Nat /\ DOMAIN v = 1 .. Len(v) /\ \A i \in DOMAIN v : v[i] \in S
  BY HoldsSize DEF Holds
<1>3. /\ w \in Seq(Addresses) /\ DOMAIN w = 1 .. Len(v) + 1 /\ w[Len(v) + 1] = a
      /\ \A i \in DOMAIN v : i \in DOMAIN w /\ w[i] = v[i] /\ i < Len(v) + 1
      /\ \A i \in DOMAIN w : i = Len(v) + 1 \/ i \in DOMAIN v
      /\ Len(v) + 1 \in DOMAIN w
  BY <1>1, <1>2
<1>4. IsInjective(w)
  <2>1. \A i, j \in DOMAIN v : v[i] = v[j] => i = j
    BY DEF Holds, IsInjective
  <2>2. \A i, j \in DOMAIN w : w[i] = w[j] => i = j
    BY <1>2, <1>3, <2>1
  <2> QED
    BY <2>2 DEF IsInjective
<1>5. ToSet(w) = S \union {a}
  <2>1. \A x \in ToSet(w) : x \in S \union {a}
    BY <1>2, <1>3 DEF ToSet
  <2>2. \A x \in S : \E i \in DOMAIN v : x = v[i]
    BY DEF Holds, ToSet
  <2>3. \A x \in S \union {a} : x \in ToSet(w)
    BY <1>3, <2>2 DEF ToSet
  <2> QED
    BY <2>1, <2>3
<1>6. InOrder(w, ns)
  <2>1. ASSUME NEW i \in DOMAIN w, NEW j \in DOMAIN w, i < j PROVE Before(ns, w[i], w[j])
    <3>1. i \in DOMAIN v
      BY <1>2, <1>3, <2>1
    <3>2. CASE j \in DOMAIN v
      BY <1>3, <2>1, <3>1, <3>2 DEF InOrder
    <3>3. CASE j = Len(v) + 1
      BY <1>2, <1>3, <3>1, <3>3
    <3> QED
      BY <1>3, <3>2, <3>3
  <2> QED
    BY <2>1 DEF InOrder
<1> QED
  BY <1>1, <1>3, <1>4, <1>5, <1>6 DEF Holds

\* U and ns are T and ms with an arc a from s to t more.
AddsArc(T, ms, s, t, a, U, ns) ==
  /\ a \in allocate(T.m_arcs) /\ s \in DOMAIN T.node /\ t \in DOMAIN T.node
  /\ U = addArc(T, s, t, a) /\ ns = Append(ms, [id |-> a, arc |-> Arc(s, t)])

\* addArc appends the arc to two vectors and to the history.
LEMMA AddArcConsistent ==
  ASSUME NEW T, NEW ms, Consistent(T, ms), NEW s, NEW t, NEW a, NEW U, NEW ns,
         AddsArc(T, ms, s, t, a, U, ns)
  PROVE  /\ Consistent(U, ns) /\ DOMAIN U.node = DOMAIN T.node
         /\ U.m_arcs = allocated(T.m_arcs, a) /\ U.m_nodes = T.m_nodes
         /\ DOMAIN U.arc = DOMAIN T.arc \union {a}
<1> SUFFICES ASSUME a \in allocate(T.m_arcs), s \in DOMAIN T.node, t \in DOMAIN T.node,
                    U = addArc(T, s, t, a), ns = Append(ms, [id |-> a, arc |-> Arc(s, t)])
             PROVE  /\ Consistent(U, ns) /\ DOMAIN U.node = DOMAIN T.node
                    /\ U.m_arcs = allocated(T.m_arcs, a) /\ U.m_nodes = T.m_nodes
                    /\ DOMAIN U.arc = DOMAIN T.arc \union {a}
  BY DEF AddsArc
<1>1. Whole(T, ms) /\ HistoryOf(T, ms)
  BY DEF Consistent
<1>2. PICK node : node = attached(T.node, s, t, a)
  OBVIOUS
<1>3. PICK arc : arc = put(T.arc, a, Arc(s, t))
  OBVIOUS
<1>4. U = [m_arcs |-> allocated(T.m_arcs, a), m_nodes |-> T.m_nodes, arc |-> arc, node |-> node,
           m_arcs_size |-> T.m_arcs_size + 1, m_nodes_size |-> T.m_nodes_size]
  BY <1>1, <1>2, <1>3 DEF addArc, Whole
<1>5. a \in Addresses /\ a \notin DOMAIN T.arc /\ PoolOK(U.m_arcs, DOMAIN T.arc \union {a})
  BY <1>1, <1>4, AllocateKeeps DEF Whole
<1>6. /\ DOMAIN arc = DOMAIN T.arc \union {a} /\ arc = [b \in DOMAIN arc |-> arc[b]]
      /\ arc[a] = Arc(s, t) /\ \A b \in DOMAIN T.arc : arc[b] = T.arc[b]
  BY <1>3, <1>5 DEF put
<1>7. /\ DOMAIN node = DOMAIN T.node /\ node = [n \in DOMAIN T.node |-> node[n]]
      /\ \A n \in DOMAIN node :
           node[n] = Node(IF n = t THEN Append(T.node[n].in, a) ELSE T.node[n].in,
                          IF n = s THEN Append(T.node[n].out, a) ELSE T.node[n].out)
  <2>1. PICK M : M = [T.node EXCEPT ![s].out = Append(@, a)]
    OBVIOUS
  <2>2. T.node = [n \in DOMAIN T.node |-> T.node[n]]
    BY <1>1 DEF Whole
  <2>3. \A n \in DOMAIN T.node : T.node[n] = Node(T.node[n].in, T.node[n].out)
    BY <1>1 DEF Whole, Vectors
  <2>4. ASSUME NEW n \in DOMAIN T.node
        PROVE  M[n] = Node(T.node[n].in, IF n = s THEN Append(T.node[n].out, a) ELSE T.node[n].out)
    <3>1. PICK x, y : x = T.node[n].in /\ y = T.node[n].out
      OBVIOUS
    <3>2. T.node[n] = [in |-> x, out |-> y]
      BY <2>3, <3>1 DEF Node
    <3>3. CASE n = s
      <4>1. M[n] = [T.node[n] EXCEPT !.out = Append(T.node[n].out, a)]
        BY <2>1, <3>3
      <4>2. M[n] = [in |-> x, out |-> Append(y, a)]
        BY <3>1, <3>2, <4>1
      <4> QED
        BY <3>1, <3>3, <4>2 DEF Node
    <3>4. CASE n # s
      BY <2>1, <2>3, <3>4
    <3> QED
      BY <3>3, <3>4
  <2>5. M = [n \in DOMAIN T.node |-> M[n]]
    BY <2>1, <2>2
  <2>6. node = [M EXCEPT ![t].in = Append(@, a)]
    BY <1>2, <2>1 DEF attached
  <2>7. ASSUME NEW n \in DOMAIN T.node
        PROVE  node[n] = Node(IF n = t THEN Append(T.node[n].in, a) ELSE T.node[n].in,
                              IF n = s THEN Append(T.node[n].out, a) ELSE T.node[n].out)
    <3>1. PICK x, y : /\ x = T.node[n].in
                      /\ y = IF n = s THEN Append(T.node[n].out, a) ELSE T.node[n].out
      OBVIOUS
    <3>2. M[n] = [in |-> x, out |-> y]
      BY <2>4, <3>1 DEF Node
    <3>3. CASE n = t
      <4>1. node[n] = [M[n] EXCEPT !.in = Append(M[n].in, a)]
        BY <2>5, <2>6, <3>3
      <4>2. node[n] = [in |-> Append(x, a), out |-> y]
        <5>1. PICK z : z = Append(x, a)
          OBVIOUS
        <5>2. M[n].in = x
          BY <3>2
        <5>3. node[n] = [M[n] EXCEPT !.in = z]
          BY <4>1, <5>1, <5>2
        <5>4. node[n] = [in |-> z, out |-> y]
          BY <3>2, <5>3
        <5> QED
          BY <5>1, <5>4
      <4> QED
        BY <3>1, <3>3, <4>2 DEF Node
    <3>4. CASE n # t
      <4>1. node[n] = M[n]
        BY <2>5, <2>6, <3>4
      <4> QED
        BY <3>1, <3>2, <3>4, <4>1 DEF Node
    <3> QED
      BY <3>3, <3>4
  <2>8. DOMAIN node = DOMAIN T.node /\ node = [n \in DOMAIN T.node |-> node[n]]
    BY <2>5, <2>6
  <2> QED
    BY <2>7, <2>8
<1>8. PICK e : e = [id |-> a, arc |-> Arc(s, t)]
  OBVIOUS
<1>9. /\ ns \in Seq(Entry) /\ IsInjective(ids(ns)) /\ ToSet(ns) = ToSet(ms) \union {e}
      /\ \A b, c : Before(ms, b, c) => Before(ns, b, c)
      /\ \A m \in ToSet(ms) : Before(ns, m.id, a)
  <2>1. e \in Entry /\ e.id = a
    BY <1>1, <1>5, <1>8, WholeFacts DEF Entry, Arc
  <2>2. \A m \in ToSet(ms) : m.id # e.id
    BY <1>1, <1>5, <2>1 DEF HistoryOf
  <2>3. ns = Append(ms, e) /\ ms \in Seq(Entry) /\ IsInjective(ids(ms))
    BY <1>1, <1>8 DEF HistoryOf
  <2>4. /\ ns \in Seq(Entry) /\ IsInjective(ids(ns)) /\ ToSet(ns) = ToSet(ms) \union {e}
        /\ \A b, c : Before(ms, b, c) => Before(ns, b, c)
        /\ \A m \in ToSet(ms) : Before(ns, m.id, e.id)
    BY ONLY <2>1, <2>2, <2>3, AppendInOrder
  <2> QED
    BY <2>1, <2>4
<1>10. \A b \in DOMAIN T.arc : Before(ns, b, a)
  BY <1>1, <1>9 DEF HistoryOf
<1>11. ASSUME NEW n \in DOMAIN U.node PROVE Vectors(U, ns, n)
  <2>1. Vectors(T, ms, n)
    BY <1>1, <1>4, <1>7, <1>11 DEF Whole
  <2>2. /\ U.node[n].in = IF n = t THEN Append(T.node[n].in, a) ELSE T.node[n].in
        /\ U.node[n].out = IF n = s THEN Append(T.node[n].out, a) ELSE T.node[n].out
        /\ U.node[n] = Node(U.node[n].in, U.node[n].out)
    <3>1. PICK x, y : /\ x = (IF n = t THEN Append(T.node[n].in, a) ELSE T.node[n].in)
                      /\ y = (IF n = s THEN Append(T.node[n].out, a) ELSE T.node[n].out)
      OBVIOUS
    <3>2. U.node = node
      BY <1>4
    <3>3. U.node[n] = Node(x, y)
      BY <1>7, <1>11, <3>1, <3>2
    <3> QED
      BY <3>1, <3>3 DEF Node
  <2>3. /\ Into(U, n) = IF n = t THEN Into(T, n) \union {a} ELSE Into(T, n)
        /\ OutOf(U, n) = IF n = s THEN OutOf(T, n) \union {a} ELSE OutOf(T, n)
        /\ a \notin Into(T, n) /\ a \notin OutOf(T, n)
        /\ Into(T, n) \subseteq DOMAIN T.arc /\ OutOf(T, n) \subseteq DOMAIN T.arc
    <3>1. U.arc[a].source = s /\ U.arc[a].target = t
      BY <1>4, <1>6 DEF Arc
    <3> QED
      BY <1>4, <1>5, <1>6, <3>1 DEF Into, OutOf
  <2>4. ASSUME NEW v, NEW S, Holds(v, S), S \subseteq DOMAIN T.arc, InOrder(v, ms)
        PROVE  InOrder(v, ns) /\ Holds(Append(v, a), S \union {a}) /\ InOrder(Append(v, a), ns)
    <3>1. \A b \in S : Before(ns, b, a)
      BY <1>10, <2>4
    <3>2. Holds(Append(v, a), S \union {a}) /\ InOrder(Append(v, a), ns)
      BY <1>5, <1>9, <2>4, <3>1, AppendsOne
    <3>3. InOrder(v, ns)
      BY <1>9, <2>4 DEF InOrder
    <3> QED
      BY <3>2, <3>3
  <2>5. Holds(U.node[n].in, Into(U, n)) /\ InOrder(U.node[n].in, ns)
    <3>1. /\ Holds(T.node[n].in, Into(T, n)) /\ InOrder(T.node[n].in, ns)
          /\ Holds(Append(T.node[n].in, a), Into(T, n) \union {a})
          /\ InOrder(Append(T.node[n].in, a), ns)
      BY <2>1, <2>3, <2>4 DEF Vectors
    <3>2. CASE n = t
      BY <2>2, <2>3, <3>1, <3>2
    <3>3. CASE n # t
      BY <2>2, <2>3, <3>1, <3>3
    <3> QED
      BY <3>2, <3>3
  <2>6. Holds(U.node[n].out, OutOf(U, n)) /\ InOrder(U.node[n].out, ns)
    <3>1. /\ Holds(T.node[n].out, OutOf(T, n)) /\ InOrder(T.node[n].out, ns)
          /\ Holds(Append(T.node[n].out, a), OutOf(T, n) \union {a})
          /\ InOrder(Append(T.node[n].out, a), ns)
      BY <2>1, <2>3, <2>4 DEF Vectors
    <3>2. CASE n = s
      BY <2>2, <2>3, <3>1, <3>2
    <3>3. CASE n # s
      BY <2>2, <2>3, <3>1, <3>3
    <3> QED
      BY <3>2, <3>3
  <2> QED
    BY <2>2, <2>5, <2>6 DEF Vectors
<1>12. Whole(U, ns)
  <2>1. /\ PoolOK(U.m_arcs, DOMAIN U.arc) /\ PoolOK(U.m_nodes, DOMAIN U.node)
        /\ U.node = [n \in DOMAIN U.node |-> U.node[n]]
    BY <1>1, <1>4, <1>5, <1>6, <1>7 DEF Whole
  <2>2. U.arc \in [DOMAIN U.arc -> [source : DOMAIN U.node, target : DOMAIN U.node]]
    <3>1. \A b \in DOMAIN T.arc : T.arc[b] \in [source : DOMAIN T.node, target : DOMAIN T.node]
      BY <1>1 DEF Whole
    <3>2. Arc(s, t) \in [source : DOMAIN T.node, target : DOMAIN T.node]
      BY DEF Arc
    <3>3. \A b \in DOMAIN arc : arc[b] \in [source : DOMAIN T.node, target : DOMAIN T.node]
      BY <1>6, <3>1, <3>2
    <3> QED
      BY <1>4, <1>6, <1>7, <3>3
  <2>3. U = [m_arcs |-> U.m_arcs, m_nodes |-> U.m_nodes, arc |-> U.arc, node |-> U.node,
             m_arcs_size |-> U.m_arcs_size, m_nodes_size |-> U.m_nodes_size]
    BY <1>4
  <2> QED
    BY <1>11, <2>1, <2>2, <2>3 DEF Whole
<1>13. HistoryOf(U, ns)
  <2>1. \A b \in DOMAIN U.arc : \E m \in ToSet(ns) : m.id = b
    BY <1>1, <1>4, <1>6, <1>8, <1>9 DEF HistoryOf
  <2>2. \A m \in ToSet(ns) : m.id \in DOMAIN U.arc /\ U.arc[m.id] = m.arc
    BY <1>1, <1>4, <1>6, <1>8, <1>9 DEF HistoryOf
  <2> QED
    BY <1>9, <2>1, <2>2 DEF HistoryOf
<1>14. U.m_nodes_size = Cardinality(DOMAIN U.node) /\ U.m_arcs_size = Cardinality(DOMAIN U.arc)
  <2>1. Cardinality(DOMAIN T.arc \union {a}) = Cardinality(DOMAIN T.arc) + 1
    BY <1>1, <1>5, WholeFacts, FS_AddElement
  <2> QED
    BY <1>4, <1>6, <1>7, <2>1 DEF Consistent
<1> QED
  BY <1>4, <1>6, <1>7, <1>12, <1>13, <1>14 DEF Consistent

\* The count of arcs is no part of a whole tree.
LEMMA Recounted ==
  ASSUME NEW T, NEW ms, Whole(T, ms), NEW c, NEW U, U = [T EXCEPT !.m_arcs_size = c]
  PROVE  /\ Whole(U, ms) /\ U.m_arcs_size = c /\ U.m_nodes_size = T.m_nodes_size
         /\ U.m_arcs = T.m_arcs /\ U.m_nodes = T.m_nodes /\ U.arc = T.arc /\ U.node = T.node
<1>1. U = [m_arcs |-> T.m_arcs, m_nodes |-> T.m_nodes, arc |-> T.arc, node |-> T.node,
           m_arcs_size |-> c, m_nodes_size |-> T.m_nodes_size]
  BY DEF Whole
<1>2. /\ U.m_arcs_size = c /\ U.m_nodes_size = T.m_nodes_size /\ U.m_arcs = T.m_arcs
      /\ U.m_nodes = T.m_nodes /\ U.arc = T.arc /\ U.node = T.node
  BY <1>1
<1>3. \A n \in DOMAIN T.node : Vectors(T, ms, n) => Vectors(U, ms, n)
  BY <1>2 DEF Vectors, Into, OutOf
<1>4. U = [m_arcs |-> U.m_arcs, m_nodes |-> U.m_nodes, arc |-> U.arc, node |-> U.node,
           m_arcs_size |-> U.m_arcs_size, m_nodes_size |-> U.m_nodes_size]
  BY <1>1
<1> QED
  BY <1>2, <1>3, <1>4 DEF Whole

\* U has the blocks of T and nothing that T has not.
Shrunk(U, T) ==
  /\ arcBlocks(U) = arcBlocks(T) /\ U.m_nodes.m_current_block = T.m_nodes.m_current_block
  /\ DOMAIN U.arc \subseteq DOMAIN T.arc /\ DOMAIN U.node \subseteq DOMAIN T.node

\* erase ( arc ) takes the arc out of its vectors and of the history.
LEMMA EraseArcConsistent ==
  ASSUME NEW T, NEW ms, Consistent(T, ms), NEW a \in DOMAIN T.arc,
         NEW U, U = eraseArc(T, a), NEW ns, ns = those(ms, {m \in ToSet(ms) : m.id # a})
  PROVE  /\ Consistent(U, ns) /\ DOMAIN U.node = DOMAIN T.node
         /\ Shrunk(U, T)
<1>1. Whole(T, ms) /\ HistoryOf(T, ms)
  BY DEF Consistent
<1>2. PICK E : E = erase_impl(T, a)
  OBVIOUS
<1>3. Whole(E, ms) /\ Erased(E, T, a)
  BY <1>1, <1>2, EraseKeeps
<1>4. U = [E EXCEPT !.m_arcs_size = E.m_arcs_size - 1]
  BY <1>2 DEF eraseArc
<1>5. /\ Whole(U, ms) /\ U.m_arcs_size = T.m_arcs_size - 1 /\ U.m_nodes_size = T.m_nodes_size
      /\ DOMAIN U.node = DOMAIN T.node /\ DOMAIN U.arc = DOMAIN T.arc \ {a}
      /\ \A b \in DOMAIN U.arc : U.arc[b] = T.arc[b]
      /\ arcBlocks(U) = arcBlocks(T) /\ U.m_nodes = T.m_nodes
  BY <1>3, <1>4, Recounted DEF Erased, arcBlocks
<1>6. Whole(U, ns) /\ HistoryOf(U, ns)
  <2>1. PICK P : P = {m \in ToSet(ms) : m.id # a}
    OBVIOUS
  <2>2. \A m \in ToSet(ms) : m \in P <=> m.id \in DOMAIN U.arc
    BY <1>1, <1>5, <2>1 DEF HistoryOf
  <2>3. ns = those(ms, P) /\ DOMAIN U.arc \subseteq DOMAIN T.arc
    BY <1>5, <2>1
  <2> QED
    BY <1>1, <1>5, <2>2, <2>3, HistoryThinned
<1>7. Cardinality(DOMAIN T.arc \ {a}) = Cardinality(DOMAIN T.arc) - 1
  BY <1>1, WholeFacts, FS_RemoveElement
<1> QED
  BY <1>5, <1>6, <1>7 DEF Consistent, Shrunk

\* A loop over a vector that holds the arcs S of T, after they were counted.
Looped(L, T, ms, S, list) ==
  /\ L.defined \in BOOLEAN
  /\ L.defined <=> Len(list) <= 2
  /\ L.defined =>
       /\ Whole(L.tree, ms)
       /\ DOMAIN L.tree.arc = DOMAIN T.arc \ S
       /\ \A a \in DOMAIN L.tree.arc : L.tree.arc[a] = T.arc[a]
       /\ DOMAIN L.tree.node = DOMAIN T.node
       /\ L.tree.m_arcs_size = T.m_arcs_size - Len(list)
       /\ L.tree.m_nodes = T.m_nodes /\ L.tree.m_nodes_size = T.m_nodes_size
       /\ arcBlocks(L.tree) = arcBlocks(T)

\* countArcs and eraseAll together.
LEMMA CountedLoop ==
  ASSUME NEW T, NEW ms, Whole(T, ms), NEW S \in SUBSET DOMAIN T.arc, NEW list, Holds(list, S),
         NEW L, L = eraseAll(countArcs(T, list), list)
  PROVE  Looped(L, T, ms, S, list)
<1>1. PICK C : C = countArcs(T, list)
  OBVIOUS
<1>2. C = [T EXCEPT !.m_arcs_size = T.m_arcs_size - Len(list)]
  BY <1>1 DEF countArcs
<1>3. /\ Whole(C, ms) /\ C.m_arcs_size = T.m_arcs_size - Len(list)
      /\ C.m_nodes_size = T.m_nodes_size
      /\ C.m_nodes = T.m_nodes /\ C.arc = T.arc /\ C.node = T.node
      /\ arcBlocks(C) = arcBlocks(T)
  BY <1>2, Recounted DEF arcBlocks
<1>4. ToSet(list) = S /\ Holds(list, ToSet(list)) /\ ToSet(list) \subseteq DOMAIN C.arc
  BY <1>3 DEF Holds
<1>5. /\ L.defined \in BOOLEAN
      /\ L.defined <=> Len(list) <= 2
      /\ L.defined => Thinned(L.tree, C, ms) /\ Gone(L.tree, C) = ToSet(list)
  BY <1>1, <1>3, <1>4, EraseAllKeeps
<1>6. ASSUME L.defined
      PROVE  /\ Whole(L.tree, ms)
             /\ DOMAIN L.tree.arc = DOMAIN T.arc \ S
             /\ \A a \in DOMAIN L.tree.arc : L.tree.arc[a] = T.arc[a]
             /\ DOMAIN L.tree.node = DOMAIN T.node
             /\ L.tree.m_arcs_size = T.m_arcs_size - Len(list)
             /\ L.tree.m_nodes = T.m_nodes /\ L.tree.m_nodes_size = T.m_nodes_size
             /\ arcBlocks(L.tree) = arcBlocks(T)
  BY <1>3, <1>4, <1>5, <1>6 DEF Thinned, Gone
<1> QED
  BY <1>5, <1>6 DEF Looped

\* The arcs from a node to itself.
Loops(T, n) == {a \in DOMAIN T.arc : T.arc[a] = Arc(n, n)}

\* Both loops of erase ( node ).
LEMMA ArcsOfNodeErased ==
  ASSUME NEW T, NEW ms, Whole(T, ms), NEW n \in DOMAIN T.node, NEW L, L = eraseArcs(T, n)
  PROVE  /\ L.defined \in BOOLEAN
         /\ L.defined <=> /\ Len(T.node[n].in) <= 2
                          /\ Len(T.node[n].out) - Cardinality(Loops(T, n)) <= 2
         /\ L.defined =>
              /\ Whole(L.tree, ms)
              /\ DOMAIN L.tree.arc = DOMAIN T.arc \ (Into(T, n) \union OutOf(T, n))
              /\ \A a \in DOMAIN L.tree.arc : L.tree.arc[a] = T.arc[a]
              /\ DOMAIN L.tree.node = DOMAIN T.node
              /\ T.m_arcs_size = Cardinality(DOMAIN T.arc) =>
                   L.tree.m_arcs_size = Cardinality(DOMAIN L.tree.arc)
              /\ L.tree.m_nodes = T.m_nodes /\ L.tree.m_nodes_size = T.m_nodes_size
              /\ arcBlocks(L.tree) = arcBlocks(T)
<1>1. PICK in : in = T.node[n].in
  OBVIOUS
<1>2. PICK J : J = eraseAll(countArcs(T, in), in)
  OBVIOUS
<1>3. /\ Holds(in, Into(T, n)) /\ Into(T, n) \in SUBSET DOMAIN T.arc
      /\ Holds(T.node[n].out, OutOf(T, n)) /\ OutOf(T, n) \in SUBSET DOMAIN T.arc
  BY <1>1 DEF Whole, Vectors, Into, OutOf
<1>4. /\ J.defined \in BOOLEAN
      /\ J.defined <=> Len(in) <= 2
      /\ J.defined =>
           /\ Whole(J.tree, ms)
           /\ DOMAIN J.tree.arc = DOMAIN T.arc \ Into(T, n)
           /\ \A a \in DOMAIN J.tree.arc : J.tree.arc[a] = T.arc[a]
           /\ DOMAIN J.tree.node = DOMAIN T.node
           /\ J.tree.m_arcs_size = T.m_arcs_size - Len(in)
           /\ J.tree.m_nodes = T.m_nodes /\ J.tree.m_nodes_size = T.m_nodes_size
           /\ arcBlocks(J.tree) = arcBlocks(T)
  <2>1. Looped(J, T, ms, Into(T, n), in)
    BY <1>2, <1>3, CountedLoop
  <2> QED
    BY <2>1 DEF Looped
<1>5. CASE ~ J.defined
  <2>1. L = J
    BY <1>1, <1>2, <1>5 DEF eraseArcs
  <2> QED
    BY <1>1, <1>4, <1>5, <2>1
<1>6. CASE J.defined
  <2>1. PICK out : out = J.tree.node[n].out
    OBVIOUS
  <2>2. L = eraseAll(countArcs(J.tree, out), out)
    BY <1>1, <1>2, <1>6, <2>1 DEF eraseArcs
  <2>3. Holds(out, OutOf(J.tree, n)) /\ OutOf(J.tree, n) \in SUBSET DOMAIN J.tree.arc
    BY <1>4, <1>6, <2>1 DEF Whole, Vectors, OutOf
  <2>4. OutOf(J.tree, n) = OutOf(T, n) \ Into(T, n)
    BY <1>4, <1>6 DEF OutOf
  <2>5. OutOf(T, n) \intersect Into(T, n) = Loops(T, n)
    <3>1. \A a \in DOMAIN T.arc : T.arc[a] = Arc(T.arc[a].source, T.arc[a].target)
      BY WholeFacts
    <3>2. \A a \in DOMAIN T.arc : T.arc[a] = Arc(n, n) <=> T.arc[a].source = n /\ T.arc[a].target = n
      BY <3>1 DEF Arc
    <3> QED
      BY <3>2 DEF OutOf, Into, Loops
  <2>6. /\ Len(out) = Len(T.node[n].out) - Cardinality(Loops(T, n))
        /\ IsFiniteSet(Into(T, n)) /\ Cardinality(Into(T, n)) = Len(in)
        /\ IsFiniteSet(OutOf(J.tree, n)) /\ Cardinality(OutOf(J.tree, n)) = Len(out)
        /\ Len(in) \in Nat /\ Len(out) \in Nat
    <3>1. /\ IsFiniteSet(OutOf(T, n)) /\ Cardinality(OutOf(T, n)) = Len(T.node[n].out)
          /\ IsFiniteSet(Into(T, n)) /\ Cardinality(Into(T, n)) = Len(in) /\ Len(in) \in Nat
      BY <1>3, HoldsSize
    <3>2. /\ IsFiniteSet(OutOf(J.tree, n)) /\ Cardinality(OutOf(J.tree, n)) = Len(out)
          /\ Len(out) \in Nat
      BY <2>3, HoldsSize
    <3>3. Cardinality(OutOf(T, n) \ Into(T, n)) =
            Cardinality(OutOf(T, n)) - Cardinality(OutOf(T, n) \intersect Into(T, n))
      BY <3>1, FS_Difference
    <3> QED
      BY <2>4, <2>5, <3>1, <3>2, <3>3
  <2>7. /\ L.defined \in BOOLEAN
        /\ L.defined <=> Len(out) <= 2
        /\ L.defined =>
             /\ Whole(L.tree, ms)
             /\ DOMAIN L.tree.arc = DOMAIN J.tree.arc \ OutOf(J.tree, n)
             /\ \A a \in DOMAIN L.tree.arc : L.tree.arc[a] = J.tree.arc[a]
             /\ DOMAIN L.tree.node = DOMAIN J.tree.node
             /\ L.tree.m_arcs_size = J.tree.m_arcs_size - Len(out)
             /\ L.tree.m_nodes = J.tree.m_nodes /\ L.tree.m_nodes_size = J.tree.m_nodes_size
             /\ arcBlocks(L.tree) = arcBlocks(J.tree)
    <3>1. PICK V : V = J.tree
      OBVIOUS
    <3>2. Whole(V, ms) /\ Holds(out, OutOf(V, n)) /\ OutOf(V, n) \in SUBSET DOMAIN V.arc
      BY <1>4, <1>6, <2>3, <3>1
    <3>3. L = eraseAll(countArcs(V, out), out)
      BY <2>2, <3>1
    <3>4. Looped(L, V, ms, OutOf(V, n), out)
      BY <3>2, <3>3, CountedLoop
    <3> QED
      BY <3>1, <3>4 DEF Looped
  <2>8. ASSUME L.defined
        PROVE  /\ Whole(L.tree, ms)
               /\ DOMAIN L.tree.arc = DOMAIN T.arc \ (Into(T, n) \union OutOf(T, n))
               /\ \A a \in DOMAIN L.tree.arc : L.tree.arc[a] = T.arc[a]
               /\ DOMAIN L.tree.node = DOMAIN T.node
               /\ L.tree.m_nodes = T.m_nodes /\ L.tree.m_nodes_size = T.m_nodes_size
               /\ arcBlocks(L.tree) = arcBlocks(T)
    <3>1. DOMAIN L.tree.arc = DOMAIN T.arc \ (Into(T, n) \union OutOf(T, n))
      BY <1>4, <1>6, <2>4, <2>7, <2>8
    <3> QED
      BY <1>4, <1>6, <2>7, <2>8, <3>1
  <2>9. ASSUME L.defined, T.m_arcs_size = Cardinality(DOMAIN T.arc)
        PROVE  L.tree.m_arcs_size = Cardinality(DOMAIN L.tree.arc)
    <3>1. IsFiniteSet(DOMAIN T.arc) /\ Cardinality(DOMAIN T.arc) \in Nat
      BY WholeFacts
    <3>2. Cardinality(DOMAIN T.arc \ Into(T, n)) = Cardinality(DOMAIN T.arc) - Len(in)
      <4>1. DOMAIN T.arc \intersect Into(T, n) = Into(T, n)
        BY <1>3
      <4>2. Cardinality(DOMAIN T.arc \ Into(T, n)) =
              Cardinality(DOMAIN T.arc) - Cardinality(DOMAIN T.arc \intersect Into(T, n))
        BY <3>1, FS_Difference
      <4> QED
        BY <2>6, <4>1, <4>2
    <3>3. Cardinality(DOMAIN J.tree.arc \ OutOf(J.tree, n)) = Cardinality(DOMAIN J.tree.arc) - Len(out)
      <4>1. DOMAIN J.tree.arc \intersect OutOf(J.tree, n) = OutOf(J.tree, n)
        BY <2>3
      <4>2. IsFiniteSet(DOMAIN J.tree.arc)
        BY <1>4, <1>6, WholeFacts
      <4>3. Cardinality(DOMAIN J.tree.arc \ OutOf(J.tree, n)) =
              Cardinality(DOMAIN J.tree.arc) - Cardinality(DOMAIN J.tree.arc \intersect OutOf(J.tree, n))
        BY <4>2, FS_Difference
      <4> QED
        BY <2>6, <4>1, <4>3
    <3>4. /\ DOMAIN J.tree.arc = DOMAIN T.arc \ Into(T, n)
          /\ DOMAIN L.tree.arc = DOMAIN J.tree.arc \ OutOf(J.tree, n)
          /\ J.tree.m_arcs_size = T.m_arcs_size - Len(in)
          /\ L.tree.m_arcs_size = J.tree.m_arcs_size - Len(out)
      BY <1>4, <1>6, <2>7, <2>9
    <3>5. J.tree.m_arcs_size = Cardinality(DOMAIN J.tree.arc)
      BY <2>9, <3>2, <3>4
    <3> QED
      BY <3>3, <3>4, <3>5
  <2> QED
    BY <1>1, <1>4, <1>6, <2>6, <2>7, <2>8, <2>9
<1> QED
  BY <1>4, <1>5, <1>6

\* The whole of erase ( node ).
LEMMA EraseNodeConsistent ==
  ASSUME NEW T, NEW ms, Consistent(T, ms), NEW n \in DOMAIN T.node,
         NEW L, L = eraseArcs(T, n), L.defined,
         NEW U, U = eraseNode(L.tree, n),
         NEW ns, ns = those(ms, {m \in ToSet(ms) : n \notin {m.arc.source, m.arc.target}})
  PROVE  /\ Consistent(U, ns) /\ DOMAIN U.node = DOMAIN T.node \ {n}
         /\ Shrunk(U, T)
<1>1. Whole(T, ms) /\ HistoryOf(T, ms) /\ T.m_arcs_size = Cardinality(DOMAIN T.arc)
  BY DEF Consistent
<1>2. PICK V : V = L.tree
  OBVIOUS
<1>3. /\ Whole(V, ms)
      /\ DOMAIN V.arc = DOMAIN T.arc \ (Into(T, n) \union OutOf(T, n))
      /\ \A a \in DOMAIN V.arc : V.arc[a] = T.arc[a]
      /\ DOMAIN V.node = DOMAIN T.node
      /\ V.m_arcs_size = Cardinality(DOMAIN V.arc)
      /\ V.m_nodes_size = T.m_nodes_size /\ V.m_nodes = T.m_nodes
      /\ arcBlocks(V) = arcBlocks(T)
  BY <1>1, <1>2, ArcsOfNodeErased
<1>4. U = [m_arcs |-> V.m_arcs, m_nodes |-> deallocate(V.m_nodes, n), arc |-> V.arc,
           node |-> drop(V.node, n), m_arcs_size |-> V.m_arcs_size,
           m_nodes_size |-> V.m_nodes_size - 1]
  BY <1>2, <1>3 DEF eraseNode, Whole
<1>5. /\ DOMAIN U.node = DOMAIN T.node \ {n} /\ U.node = [m \in DOMAIN U.node |-> U.node[m]]
      /\ \A m \in DOMAIN U.node : U.node[m] = V.node[m]
  BY <1>3, <1>4 DEF drop, Restrict
<1>6. \A a \in DOMAIN V.arc : V.arc[a].source # n /\ V.arc[a].target # n
  BY <1>3 DEF Into, OutOf
<1>7. Whole(U, ms)
  <2>1. PoolOK(U.m_arcs, DOMAIN U.arc) /\ PoolOK(U.m_nodes, DOMAIN U.node)
    BY <1>3, <1>4, <1>5, DeallocateKeeps DEF Whole
  <2>2. U.arc \in [DOMAIN U.arc -> [source : DOMAIN U.node, target : DOMAIN U.node]]
    <3>1. V.arc \in [DOMAIN V.arc -> [source : DOMAIN V.node, target : DOMAIN V.node]]
      BY <1>3 DEF Whole
    <3>2. \A a \in DOMAIN V.arc : V.arc[a] \in [source : DOMAIN U.node, target : DOMAIN U.node]
      BY <1>3, <1>5, <1>6, <3>1
    <3> QED
      BY <1>4, <3>1, <3>2
  <2>3. ASSUME NEW m \in DOMAIN U.node PROVE Vectors(U, ms, m)
    <3>1. Vectors(V, ms, m) /\ U.node[m] = V.node[m]
      BY <1>3, <1>5, <2>3 DEF Whole
    <3>2. Into(U, m) = Into(V, m) /\ OutOf(U, m) = OutOf(V, m)
      BY <1>4 DEF Into, OutOf
    <3> QED
      BY <3>1, <3>2 DEF Vectors
  <2>4. U = [m_arcs |-> U.m_arcs, m_nodes |-> U.m_nodes, arc |-> U.arc, node |-> U.node,
             m_arcs_size |-> U.m_arcs_size, m_nodes_size |-> U.m_nodes_size]
    BY <1>4
  <2> QED
    BY <1>5, <2>1, <2>2, <2>3, <2>4 DEF Whole
<1>8. Whole(U, ns) /\ HistoryOf(U, ns)
  <2>1. PICK P : P = {m \in ToSet(ms) : n \notin {m.arc.source, m.arc.target}}
    OBVIOUS
  <2>2. \A m \in ToSet(ms) : m \in P <=> m.id \in DOMAIN U.arc
    BY <1>1, <1>3, <1>4, <2>1 DEF HistoryOf, Into, OutOf
  <2>3. ns = those(ms, P) /\ DOMAIN U.arc \subseteq DOMAIN T.arc
    BY <1>3, <1>4, <2>1
  <2>4. \A a \in DOMAIN U.arc : U.arc[a] = T.arc[a]
    BY <1>3, <1>4
  <2> QED
    BY <1>1, <1>7, <2>2, <2>3, <2>4, HistoryThinned
<1>9. U.m_nodes_size = Cardinality(DOMAIN U.node) /\ U.m_arcs_size = Cardinality(DOMAIN U.arc)
  <2>1. Cardinality(DOMAIN T.node \ {n}) = Cardinality(DOMAIN T.node) - 1
    BY <1>1, WholeFacts, FS_RemoveElement
  <2>2. T.m_nodes_size = Cardinality(DOMAIN T.node)
    BY DEF Consistent
  <2>3. /\ U.m_nodes_size = V.m_nodes_size - 1 /\ U.m_arcs_size = V.m_arcs_size
        /\ U.arc = V.arc
    BY <1>4
  <2>4. U.m_nodes_size = Cardinality(DOMAIN T.node \ {n})
    BY <1>3, <2>1, <2>2, <2>3
  <2> QED
    BY <1>3, <1>5, <2>3, <2>4
<1>10. Shrunk(U, T)
  <2>1. T.m_nodes \in PoolTypes
    BY <1>1 DEF Whole, PoolOK
  <2>2. U.m_nodes.m_current_block = T.m_nodes.m_current_block
    BY <1>3, <1>4, <2>1 DEF deallocate, PoolTypes
  <2>3. arcBlocks(U) = arcBlocks(T) /\ U.arc = V.arc
    BY <1>3, <1>4 DEF arcBlocks
  <2> QED
    BY <1>3, <1>5, <2>2, <2>3 DEF Shrunk
<1> QED
  BY <1>5, <1>8, <1>9, <1>10 DEF Consistent

---------------------------------------------------------------------------
(***************************************************************************)
(* Blocks.  They are the slots, each once, so that their number is that of *)
(* the live and the free slots together.                                   *)
(***************************************************************************)
\* A block is asked for when all slots are alive, and then more are alive than
\* ever before.
LEMMA AllocatePeaks ==
  ASSUME NEW p, NEW live, PoolOK(p, live), NEW slot \in allocate(p), NEW k, Peaked(p, live, k),
         NEW more, more = live \union {slot}
  PROVE  Peaked(allocated(p, slot), more, larger(k, Cardinality(more)))
<1>1. /\ p = Pool(p.m_current_block, p.m_current_slot, p.m_last_slot, p.m_free_slots)
      /\ p.m_current_block \in Seq(Addresses) /\ p.m_free_slots \in Seq(Addresses)
      /\ p.m_current_slot \in Nat /\ p.m_last_slot = p.m_current_slot
  BY DEF PoolOK, PoolTypes, Pool
<1>2. PICK blocks \in Seq(Addresses) : blocks = p.m_current_block
  BY <1>1
<1>3. k \in Nat /\ Len(blocks) = k
  BY <1>2 DEF Peaked
<1>4. IsFiniteSet(live \union Free(p)) /\ Cardinality(live \union Free(p)) = k
  <2>1. Holds(blocks, live \union Free(p))
    BY <1>2 DEF PoolOK, Blocks, Holds
  <2> QED
    BY <1>3, <2>1, HoldsSize
<1>5. PICK c : c = Cardinality(live)
  OBVIOUS
<1>6. c \in Nat /\ Cardinality(more) = c + 1
  <2>1. IsFiniteSet(live) /\ slot \notin live
    BY PoolFinite, AllocateKeeps
  <2> QED
    BY <1>5, <2>1, FS_CardinalityType, FS_AddElement
<1>7. PICK q : q = allocated(p, slot)
  OBVIOUS
<1>8. CASE p.m_free_slots # <<>>
  <2>1. q.m_current_block = blocks
    BY <1>1, <1>2, <1>7, <1>8 DEF allocated, Pool
  <2>2. slot \in Free(p)
    <3>1. slot = Head(p.m_free_slots)
      BY <1>8 DEF allocate
    <3> QED
      BY <1>1, <1>8, <3>1, TailEntries DEF PoolOK, Free
  <2>3. Cardinality(more) <= k
    <3>1. more \subseteq live \union Free(p)
      BY <2>2
    <3> QED
      BY <1>4, <3>1, FS_Subset
  <2>4. larger(k, Cardinality(more)) = k
    BY <1>3, <1>6, <2>3 DEF larger
  <2> QED
    BY <1>3, <1>7, <2>1, <2>3, <2>4 DEF Peaked
<1>9. CASE p.m_free_slots = <<>>
  <2>1. q.m_current_block = <<slot>> \o blocks
    <3>1. q = [allocate_block(p, slot) EXCEPT !.m_current_slot = @ + 1]
      BY <1>1, <1>7, <1>9 DEF allocated
    <3> QED
      BY <1>2, <3>1 DEF allocate_block, Pool
  <2>2. Len(q.m_current_block) = k + 1
    <3>1. slot \in Addresses
      BY AllocateKeeps
    <3> QED
      BY <1>3, <2>1, <3>1
  <2>3. c = k
    <3>1. Free(p) = {}
      BY <1>9 DEF Free, ToSet
    <3>2. live \union Free(p) = live
      BY <3>1
    <3> QED
      BY <1>4, <1>5, <3>2
  <2>4. larger(k, Cardinality(more)) = k + 1
    BY <1>3, <1>6, <2>3 DEF larger
  <2> QED
    BY <1>3, <1>6, <1>7, <2>2, <2>3, <2>4 DEF Peaked
<1> QED
  BY <1>8, <1>9

\* As long as no more are alive the number of blocks stays.
LEMMA FewerPeak ==
  ASSUME NEW p, NEW live, PoolOK(p, live), NEW k, Peaked(p, live, k),
         NEW q, q.m_current_block = p.m_current_block, NEW fewer \in SUBSET live
  PROVE  Peaked(q, fewer, larger(k, Cardinality(fewer)))
<1>1. PICK c, d : c = Cardinality(live) /\ d = Cardinality(fewer)
  OBVIOUS
<1>2. c \in Nat /\ d \in Nat /\ d <= c
  BY <1>1, PoolFinite, FS_Subset, FS_CardinalityType
<1>3. k \in Nat /\ c <= k
  BY <1>1 DEF Peaked
<1>4. larger(k, d) = k
  BY <1>2, <1>3 DEF larger
<1> QED
  BY <1>1, <1>2, <1>3, <1>4 DEF Peaked

\* Both pools of a tree, with the peaks of its arcs and its nodes.
PoolsPeaked(T, k) ==
  Peaked(T.m_arcs, DOMAIN T.arc, k.arcs) /\ Peaked(T.m_nodes, DOMAIN T.node, k.nodes)

\* A node more.
LEMMA NodePeaks ==
  ASSUME NEW T, NEW ms, Consistent(T, ms), NEW k, PoolsPeaked(T, k),
         NEW n \in allocate(T.m_nodes)
  PROVE  PoolsPeaked(addNode(T, n), risen(k, addNode(T, n)))
<1>1. PICK U : U = addNode(T, n)
  OBVIOUS
<1>2. /\ DOMAIN U.node = DOMAIN T.node \union {n}
      /\ U.m_nodes = allocated(T.m_nodes, n) /\ U.m_arcs = T.m_arcs /\ U.arc = T.arc
  BY <1>1, AddNodeConsistent
<1>3. PoolOK(T.m_arcs, DOMAIN T.arc) /\ PoolOK(T.m_nodes, DOMAIN T.node)
  BY DEF Consistent, Whole
<1>4. /\ risen(k, U).arcs = larger(k.arcs, Cardinality(DOMAIN U.arc))
      /\ risen(k, U).nodes = larger(k.nodes, Cardinality(DOMAIN U.node))
  BY DEF risen
<1>5. Peaked(U.m_nodes, DOMAIN U.node, larger(k.nodes, Cardinality(DOMAIN U.node)))
  BY <1>2, <1>3, AllocatePeaks DEF PoolsPeaked
<1>6. Peaked(U.m_arcs, DOMAIN U.arc, larger(k.arcs, Cardinality(DOMAIN U.arc)))
  BY <1>2, <1>3, FewerPeak DEF PoolsPeaked
<1> QED
  BY <1>1, <1>4, <1>5, <1>6 DEF PoolsPeaked

\* An arc more.
LEMMA ArcPeaks ==
  ASSUME NEW T, NEW ms, Consistent(T, ms), NEW k, PoolsPeaked(T, k),
         NEW a \in allocate(T.m_arcs), NEW U, U.m_arcs = allocated(T.m_arcs, a),
         U.m_nodes = T.m_nodes, DOMAIN U.node = DOMAIN T.node,
         DOMAIN U.arc = DOMAIN T.arc \union {a}
  PROVE  PoolsPeaked(U, risen(k, U))
<1>1. PoolOK(T.m_arcs, DOMAIN T.arc) /\ PoolOK(T.m_nodes, DOMAIN T.node)
  BY DEF Consistent, Whole
<1>2. /\ risen(k, U).arcs = larger(k.arcs, Cardinality(DOMAIN U.arc))
      /\ risen(k, U).nodes = larger(k.nodes, Cardinality(DOMAIN U.node))
  BY DEF risen
<1>3. Peaked(U.m_arcs, DOMAIN U.arc, larger(k.arcs, Cardinality(DOMAIN U.arc)))
  BY <1>1, AllocatePeaks DEF PoolsPeaked
<1>4. Peaked(U.m_nodes, DOMAIN U.node, larger(k.nodes, Cardinality(DOMAIN U.node)))
  BY <1>1, FewerPeak DEF PoolsPeaked
<1> QED
  BY <1>2, <1>3, <1>4 DEF PoolsPeaked

\* Less, or the same.
LEMMA ShrunkPeaks ==
  ASSUME NEW T, NEW ms, Consistent(T, ms), NEW k, PoolsPeaked(T, k), NEW U, Shrunk(U, T)
  PROVE  PoolsPeaked(U, risen(k, U))
<1>1. PoolOK(T.m_arcs, DOMAIN T.arc) /\ PoolOK(T.m_nodes, DOMAIN T.node)
  BY DEF Consistent, Whole
<1>2. /\ risen(k, U).arcs = larger(k.arcs, Cardinality(DOMAIN U.arc))
      /\ risen(k, U).nodes = larger(k.nodes, Cardinality(DOMAIN U.node))
  BY DEF risen
<1>3. Peaked(U.m_arcs, DOMAIN U.arc, larger(k.arcs, Cardinality(DOMAIN U.arc)))
  BY <1>1, FewerPeak DEF PoolsPeaked, Shrunk, arcBlocks
<1>4. Peaked(U.m_nodes, DOMAIN U.node, larger(k.nodes, Cardinality(DOMAIN U.node)))
  BY <1>1, FewerPeak DEF PoolsPeaked, Shrunk
<1> QED
  BY <1>2, <1>3, <1>4 DEF PoolsPeaked

---------------------------------------------------------------------------
(***************************************************************************)
(* The inductive invariant: the tree and its history are consistent, until *)
(* erase of a node reads an arc that is gone.                              *)
(***************************************************************************)
Right ==
  /\ Consistent(tree, made) /\ PoolsPeaked(tree, peak)
  /\ root_node \in NodeIDs /\ invalid_target \in {nullptr, root_node, other_root}

AdjInv ==
  /\ state \in {"alive", "undefined", "destroyed"}
  /\ state # "undefined" => Right
  /\ state = "destroyed" => dtor \in destroyed(tree.m_nodes)

\* A tree without nodes.
LEMMA EmptyConsistent == Consistent(EmptyTree, <<>>)
<1>1. PICK T : T = EmptyTree
  OBVIOUS
<1>2. T = [m_arcs |-> NewPool, m_nodes |-> NewPool, arc |-> Nothing, node |-> Nothing,
           m_arcs_size |-> 0, m_nodes_size |-> 0]
  BY <1>1 DEF EmptyTree
<1>3. /\ DOMAIN T.arc = {} /\ DOMAIN T.node = {} /\ T.m_arcs_size = 0 /\ T.m_nodes_size = 0
      /\ T.m_arcs = NewPool /\ T.m_nodes = NewPool
      /\ T = [m_arcs |-> T.m_arcs, m_nodes |-> T.m_nodes, arc |-> T.arc, node |-> T.node,
              m_arcs_size |-> T.m_arcs_size, m_nodes_size |-> T.m_nodes_size]
  BY <1>2 DEF Nothing
<1>4. /\ T.node = [n \in DOMAIN T.node |-> T.node[n]]
      /\ T.arc \in [DOMAIN T.arc -> [source : DOMAIN T.node, target : DOMAIN T.node]]
  BY <1>2, <1>3 DEF Nothing
<1>5. Whole(T, <<>>)
  BY <1>3, <1>4, NewPoolOK DEF Whole
<1>6. HistoryOf(T, <<>>)
  BY <1>3 DEF HistoryOf, IsInjective, ids, ToSet
<1>7. Cardinality({}) = 0
  BY FS_EmptySet
<1> QED
  BY <1>1, <1>3, <1>5, <1>6, <1>7 DEF Consistent

\* The first tree has a root and nothing else.
LEMMA InitAdj == Init => AdjInv
<1> SUFFICES ASSUME Init PROVE AdjInv
  OBVIOUS
<1>1. PICK n \in allocate(NewPool) : tree = addNode(EmptyTree, n) /\ root_node = n
  BY DEF Init
<1>2. PICK T : T = EmptyTree
  OBVIOUS
<1>3. Consistent(T, <<>>) /\ T.m_nodes = NewPool
  BY <1>2, EmptyConsistent DEF EmptyTree
<1>4. Consistent(tree, <<>>) /\ NodeIDs = DOMAIN T.node \union {n}
  BY <1>1, <1>2, <1>3, AddNodeConsistent DEF NodeIDs
<1>5. PoolsPeaked(tree, peak)
  <2>1. PICK k : k = [arcs |-> 0, nodes |-> 0]
    OBVIOUS
  <2>2. PoolsPeaked(T, k)
    <3>1. DOMAIN T.arc = {} /\ DOMAIN T.node = {} /\ T.m_arcs = NewPool /\ T.m_nodes = NewPool
      BY <1>2 DEF EmptyTree, Nothing
    <3>2. Cardinality({}) = 0 /\ Len(NewPool.m_current_block) = 0
      BY FS_EmptySet DEF NewPool, Pool
    <3> QED
      BY <2>1, <3>1, <3>2 DEF PoolsPeaked, Peaked
  <2>3. n \in allocate(T.m_nodes)
    BY <1>3
  <2>4. PoolsPeaked(addNode(T, n), risen(k, addNode(T, n)))
    BY <1>3, <2>2, <2>3, NodePeaks
  <2> QED
    BY <1>1, <1>2, <2>1, <2>4 DEF Init
<1> QED
  BY <1>1, <1>4, <1>5 DEF Init, AdjInv, Right

\* The steps of the client, one by one.
LEMMA AddNodeAdj == Right /\ AddNode /\ peak' = risen(peak, tree') => Right'
<1> SUFFICES ASSUME Right, AddNode, peak' = risen(peak, tree') PROVE Right'
  OBVIOUS
<1>1. PICK n \in allocate(tree.m_nodes) : tree' = addNode(tree, n)
  BY DEF AddNode
<1>2. Consistent(tree', made) /\ DOMAIN tree'.node = DOMAIN tree.node \union {n}
  BY <1>1, AddNodeConsistent DEF Right
<1>3. PoolsPeaked(tree', peak')
  BY <1>1, NodePeaks DEF Right
<1> QED
  BY <1>2, <1>3 DEF AddNode, Right, NodeIDs

\* The new arc is the last of the history.
LEMMA AddArcAdj == Right /\ AddArc /\ peak' = risen(peak, tree') => Right'
<1> SUFFICES ASSUME Right, AddArc, peak' = risen(peak, tree') PROVE Right'
  OBVIOUS
<1>1. PICK a \in allocate(tree.m_arcs), s, t \in NodeIDs :
        /\ tree' = addArc(tree, s, t, a)
        /\ made' = Append(made, [id |-> a, arc |-> Arc(s, t)])
  BY DEF AddArc
<1>2. AddsArc(tree, made, s, t, a, tree', made')
  BY <1>1 DEF AddsArc, NodeIDs
<1>3. /\ Consistent(tree', made') /\ DOMAIN tree'.node = DOMAIN tree.node
      /\ tree'.m_arcs = allocated(tree.m_arcs, a) /\ tree'.m_nodes = tree.m_nodes
      /\ DOMAIN tree'.arc = DOMAIN tree.arc \union {a}
  BY <1>2, AddArcConsistent DEF Right
<1>4. PoolsPeaked(tree', peak')
  <2>1. PICK U : U = tree'
    OBVIOUS
  <2>2. PoolsPeaked(U, risen(peak, U))
    BY <1>3, <2>1, ArcPeaks DEF Right
  <2> QED
    BY <2>1, <2>2
<1> QED
  BY <1>3, <1>4 DEF AddArc, Right, NodeIDs

\* The root stays where it is.
LEMMA EraseArcAdj == Right /\ EraseArc /\ peak' = risen(peak, tree') => Right'
<1> SUFFICES ASSUME Right, EraseArc, peak' = risen(peak, tree') PROVE Right'
  OBVIOUS
<1>1. PICK a \in ArcIDs : /\ tree' = eraseArc(tree, a)
                          /\ made' = those(made, {m \in ToSet(made) : m.id # a})
  BY DEF EraseArc
<1>2. Consistent(tree', made') /\ DOMAIN tree'.node = DOMAIN tree.node /\ Shrunk(tree', tree)
  BY <1>1, EraseArcConsistent DEF Right, ArcIDs
<1>3. PoolsPeaked(tree', peak')
  BY <1>2, ShrunkPeaks DEF Right
<1> QED
  BY <1>2, <1>3 DEF EraseArc, Right, NodeIDs

\* A defined erasure of another node than the root.
LEMMA EraseNodeAdj ==
  ASSUME Right, NEW n \in NodeIDs, EraseNode(n), state' # "undefined",
         peak' = risen(peak, tree')
  PROVE  Right' /\ state' = "alive"
<1>1. PICK L : L = eraseArcs(tree, n)
  OBVIOUS
<1>2. /\ n # root_node
      /\ tree' = (IF L.defined THEN eraseNode(L.tree, n) ELSE tree)
      /\ state' = (IF L.defined THEN "alive" ELSE "undefined")
      /\ made' = those(made, {m \in ToSet(made) : n \notin {m.arc.source, m.arc.target}})
  BY <1>1 DEF EraseNode
<1>3. L.defined /\ tree' = eraseNode(L.tree, n)
  BY <1>2
<1>4. /\ Consistent(tree', made') /\ DOMAIN tree'.node = DOMAIN tree.node \ {n}
      /\ Shrunk(tree', tree)
  BY <1>1, <1>2, <1>3, EraseNodeConsistent DEF Right, NodeIDs
<1>5. PoolsPeaked(tree', peak')
  BY <1>4, ShrunkPeaks DEF Right
<1> QED
  BY <1>2, <1>3, <1>4, <1>5 DEF EraseNode, Right, NodeIDs

\* Every step keeps the invariant.
LEMMA NextAdj == AdjInv /\ [Next]_vars => AdjInv'
<1> SUFFICES ASSUME AdjInv, [Next]_vars PROVE AdjInv'
  OBVIOUS
<1>1. CASE UNCHANGED vars
  BY <1>1 DEF vars, AdjInv, Right, NodeIDs
<1>2. CASE Next
  <2>1. state = "alive" /\ Right /\ peak' = risen(peak, tree')
    BY <1>2 DEF Next, AdjInv
  <2>2. CASE AddNode
    BY <2>1, <2>2, AddNodeAdj DEF AddNode, AdjInv
  <2>3. CASE AddArc
    BY <2>1, <2>3, AddArcAdj DEF AddArc, AdjInv
  <2>4. CASE EraseArc
    BY <2>1, <2>4, EraseArcAdj DEF EraseArc, AdjInv
  <2>5. ASSUME NEW n \in NodeIDs, EraseNode(n) PROVE AdjInv'
    <3>1. CASE state' = "undefined"
      BY <3>1 DEF AdjInv
    <3>2. CASE state' # "undefined"
      BY <2>1, <2>5, <3>2, EraseNodeAdj DEF AdjInv
    <3> QED
      BY <3>1, <3>2
  <2>6. tree' = tree => PoolsPeaked(tree', peak')
    BY <2>1, ShrunkPeaks DEF Shrunk, Right
  <2>7. CASE SetRoot
    BY <2>1, <2>6, <2>7 DEF SetRoot, AdjInv, Right, NodeIDs
  <2>8. CASE SetRootElsewhere
    BY <2>1, <2>6, <2>8 DEF SetRootElsewhere, AdjInv, Right, NodeIDs
  <2>9. CASE Destroy
    BY <2>1, <2>6, <2>9 DEF Destroy, AdjInv, Right, NodeIDs
  <2> QED
    BY <1>2, <2>2, <2>3, <2>4, <2>5, <2>7, <2>8, <2>9 DEF Next
<1> QED
  BY <1>1, <1>2

\* The invariant holds in every state.
LEMMA AdjInvariant == Spec => []AdjInv
BY InitAdj, NextAdj, PTL DEF Spec

\* For any number of nodes, arcs and blocks: what erase ( node ) reads is
\* defined exactly as long as neither of its loops has more than two arcs.
THEOREM ErasesDefined == Spec => UndefinedFromThree
<1>1. ASSUME AdjInv, state # "undefined", NEW n \in NodeIDs, EraseNode(n)
      PROVE  state' = "undefined" <=> \/ Len(tree.node[n].in) > 2
                                      \/ Len(tree.node[n].out) - Cardinality(Loops(tree, n)) > 2
  <2>1. PICK L : L = eraseArcs(tree, n)
    OBVIOUS
  <2>2. state' = (IF L.defined THEN "alive" ELSE "undefined")
    BY <1>1, <2>1 DEF EraseNode
  <2>3. Whole(tree, made) /\ n \in DOMAIN tree.node
    BY <1>1 DEF AdjInv, Right, Consistent, NodeIDs
  <2>4. L.defined <=> /\ Len(tree.node[n].in) <= 2
                      /\ Len(tree.node[n].out) - Cardinality(Loops(tree, n)) <= 2
    BY <2>1, <2>3, ArcsOfNodeErased
  <2>5. /\ Len(tree.node[n].in) \in Int
        /\ Len(tree.node[n].out) - Cardinality(Loops(tree, n)) \in Int
    <3>1. Holds(tree.node[n].in, Into(tree, n)) /\ Holds(tree.node[n].out, OutOf(tree, n))
      BY <2>3 DEF Whole, Vectors
    <3>2. IsFiniteSet(Loops(tree, n))
      BY <2>3, WholeFacts, FS_Subset DEF Loops
    <3>3. PICK i, o, c : /\ i = Len(tree.node[n].in) /\ o = Len(tree.node[n].out)
                         /\ c = Cardinality(Loops(tree, n))
      OBVIOUS
    <3>4. i \in Nat /\ o \in Nat
      BY <3>1, <3>3, HoldsSize
    <3>5. c \in Nat
      BY <3>2, <3>3, FS_CardinalityType
    <3>6. i \in Int /\ o - c \in Int
      BY <3>4, <3>5
    <3> QED
      BY <3>3, <3>6
  <2> QED
    BY <2>2, <2>4, <2>5
<1>2. AdjInv /\ [Next]_vars =>
        [ \A n \in NodeIDs : EraseNode(n) =>
            LET loops == {a \in ArcIDs : tree.arc[a] = Arc(n, n)}
            IN  state' = "undefined" <=> \/ Len(tree.node[n].in) > 2
                                         \/ Len(tree.node[n].out) - Cardinality(loops) > 2 ]_vars
  BY <1>1 DEF Next, Loops, ArcIDs
<1> QED
  BY <1>2, AdjInvariant, PTL DEF Spec, UndefinedFromThree

---------------------------------------------------------------------------
(***************************************************************************)
(* What the invariant says of the pools.                                   *)
(***************************************************************************)
\* Each slot a pool has handed out is alive or free, and free once: none is
\* handed out while in use, none is lost, in any order of the four calls.  And
\* there are as many blocks as elements were alive at a time.
THEOREM SlotsAccountedFor == Spec => []PoolsExact
<1>1. AdjInv => PoolsExact
  <2> SUFFICES ASSUME AdjInv, state # "undefined",
                      NEW S \in {<<tree.m_arcs, ArcIDs, peak.arcs>>,
                                 <<tree.m_nodes, NodeIDs, peak.nodes>>}
               PROVE  /\ slots(S[1]) = S[2] \union Free(S[1]) /\ S[2] \intersect Free(S[1]) = {}
                      /\ IsInjective(S[1].m_free_slots)
                      /\ Len(S[1].m_current_block) = S[3]
    BY DEF PoolsExact
  <2>1. PoolOK(tree.m_arcs, ArcIDs) /\ PoolOK(tree.m_nodes, NodeIDs)
    BY DEF AdjInv, Right, Consistent, Whole, ArcIDs, NodeIDs
  <2>2. PoolOK(S[1], S[2])
    BY <2>1
  <2>3. slots(S[1]) = S[2] \union Free(S[1])
    BY <2>2, SlotsAreBlocks
  <2>4. Len(S[1].m_current_block) = S[3]
    BY DEF AdjInv, Right, PoolsPeaked, Peaked
  <2> QED
    BY <2>2, <2>3, <2>4 DEF PoolOK
<1> QED
  BY <1>1, AdjInvariant, PTL

\* A finite set of addresses that is not empty has a greatest one.
LEMMA Greatest ==
  ASSUME NEW S \in SUBSET Nat, S # {}, NEW n \in Nat, \A f \in S : n > f
  PROVE  \E f \in S : \A g \in S : g <= f
<1>1. PICK D : D = {n - f : f \in S}
  OBVIOUS
<1>2. D \in SUBSET Nat /\ D # {}
  <2>1. \A f \in S : n - f \in Nat
    OBVIOUS
  <2> QED
    BY <1>1, <2>1
<1>3. PICK d \in D : \A k \in D : d <= k
  BY <1>2, Lemmas!Least
<1>4. PICK f \in S : d = n - f
  BY <1>1, <1>3
<1>5. ASSUME NEW g \in S PROVE g <= f
  <2>1. n - f <= n - g
    BY <1>1, <1>3, <1>4, <1>5
  <2> QED
    BY <1>4, <2>1
<1> QED
  BY <1>4, <1>5

\* The destructor of a pool destroys live elements only, and leaves out none
\* that has a free slot behind it.
THEOREM DestructorSpares == Spec => []DestroysLive
<1>1. AdjInv => DestroysLive
  <2> SUFFICES ASSUME AdjInv, state = "destroyed"
               PROVE  /\ dtor \subseteq NodeIDs
                      /\ \A n \in NodeIDs \ dtor :
                           \E f \in Free(tree.m_nodes) : \A g \in Free(tree.m_nodes) : g <= f /\ f < n
    BY DEF DestroysLive
  <2>1. PICK p : p = tree.m_nodes
    OBVIOUS
  <2>2. PoolOK(p, NodeIDs) /\ dtor \in destroyed(p)
    BY <2>1 DEF AdjInv, Right, Consistent, Whole, NodeIDs
  <2>3. slots(p) \ Free(p) = NodeIDs /\ NodeIDs \subseteq Addresses /\ Free(p) \subseteq Addresses
    <3>1. slots(p) = NodeIDs \union Free(p) /\ NodeIDs \intersect Free(p) = {}
      BY <2>2, SlotsAreBlocks DEF PoolOK
    <3>2. NodeIDs \subseteq Addresses
      BY <2>2, PoolFinite
    <3>3. p.m_free_slots \in Seq(Addresses)
      BY <2>2 DEF PoolOK, PoolTypes
    <3>4. Free(p) \subseteq Addresses
      BY <3>3 DEF Free, ToSet
    <3> QED
      BY <3>1, <3>2, <3>4
  <2>4. PICK taken \in SUBSET {s \in slots(p) : Free(p) # {} /\ \A f \in Free(p) : s > f} :
          dtor = (slots(p) \ Free(p)) \ taken
    BY <2>2 DEF destroyed
  <2>5. ASSUME NEW n \in NodeIDs \ dtor
        PROVE  \E f \in Free(p) : \A g \in Free(p) : g <= f /\ f < n
    <3>1. Free(p) # {} /\ \A f \in Free(p) : n > f
      BY <2>3, <2>4, <2>5
    <3>2. n \in Nat /\ Free(p) \in SUBSET Nat
      BY <2>3, <2>5, AddressAssumption
    <3>3. PICK f \in Free(p) : \A g \in Free(p) : g <= f
      BY <3>1, <3>2, Greatest
    <3>4. f < n
      BY <3>1, <3>2, <3>3
    <3> QED
      BY <3>3, <3>4
  <2>6. dtor \subseteq NodeIDs
    BY <2>3, <2>4
  <2> QED
    BY <2>1, <2>5, <2>6
<1> QED
  BY <1>1, AdjInvariant, PTL

---------------------------------------------------------------------------
(***************************************************************************)
(* The vectors are sequences in the order of the history, and there is one *)
(* such sequence of a set of arcs.                                         *)
(***************************************************************************)
\* The positions of arcs in a history, in order.
LEMMA InOrderUnique ==
  ASSUME NEW ms \in Seq(Entry), IsInjective(ids(ms)), NEW S, \A a \in S : \E m \in ToSet(ms) : m.id = a,
         NEW v, Holds(v, S), InOrder(v, ms), NEW w, Holds(w, S), InOrder(w, ms)
  PROVE  v = w
<1>1. PICK pos : pos = [a \in S |-> CHOOSE k \in DOMAIN ms : ms[k].id = a]
  OBVIOUS
<1>2. /\ DOMAIN ms = 1 .. Len(ms) /\ Len(ms) \in Nat
      /\ \A k, l \in DOMAIN ms : ms[k].id = ms[l].id => k = l
  <2>1. DOMAIN ms = 1 .. Len(ms) /\ Len(ms) \in Nat /\ DOMAIN ids(ms) = DOMAIN ms
    BY DEF ids
  <2>2. \A k \in DOMAIN ms : ids(ms)[k] = ms[k].id
    BY DEF ids
  <2> QED
    BY <2>1, <2>2 DEF IsInjective
<1>3. \A a \in S : pos[a] \in DOMAIN ms /\ ms[pos[a]].id = a
  <2>1. \A a \in S : \E k \in DOMAIN ms : ms[k].id = a
    BY DEF ToSet
  <2> QED
    BY <1>1, <2>1
<1>4. PICK R : R = {pos[a] : a \in S}
  OBVIOUS
<1>5. R \in SUBSET Nat
  BY <1>2, <1>3, <1>4
<1>6. ASSUME NEW u, Holds(u, S), InOrder(u, ms), NEW x, x = [i \in DOMAIN u |-> pos[u[i]]]
      PROVE  Lemmas!Lists(x, R) /\ DOMAIN x = DOMAIN u /\ DOMAIN u = 1 .. Len(u) /\ Len(u) \in Nat
  <2>1. DOMAIN u = 1 .. Len(u) /\ Len(u) \in Nat /\ \A i \in DOMAIN u : u[i] \in S
    BY <1>6, HoldsSize
  <2>2. /\ x \in Seq(Nat) /\ Len(x) = Len(u) /\ DOMAIN x = DOMAIN u
        /\ \A i \in DOMAIN u : x[i] = pos[u[i]]
    <3>1. \A i \in 1 .. Len(u) : pos[u[i]] \in Nat
      BY <1>2, <1>3, <2>1
    <3> QED
      BY <1>6, <2>1, <3>1
  <2>3. ASSUME NEW i \in DOMAIN u, NEW j \in DOMAIN u, i < j PROVE x[i] < x[j]
    <3>1. PICK k, l \in DOMAIN ms : k < l /\ ms[k].id = u[i] /\ ms[l].id = u[j]
      BY <1>6, <2>3 DEF InOrder, Before
    <3>2. pos[u[i]] = k /\ pos[u[j]] = l
      BY <1>2, <1>3, <2>1, <2>3, <3>1
    <3> QED
      BY <2>2, <2>3, <3>1, <3>2
  <2>4. {x[i] : i \in 1 .. Len(x)} = R
    <3>1. \A a \in S : \E i \in DOMAIN u : u[i] = a
      BY <1>6 DEF Holds, ToSet
    <3> QED
      BY <1>4, <2>1, <2>2, <3>1
  <2> QED
    BY <2>1, <2>2, <2>3, <2>4 DEF Lemmas!Lists
<1>7. PICK x, y : x = [i \in DOMAIN v |-> pos[v[i]]] /\ y = [i \in DOMAIN w |-> pos[w[i]]]
  OBVIOUS
<1>8. /\ Lemmas!Lists(x, R) /\ DOMAIN x = DOMAIN v /\ DOMAIN v = 1 .. Len(v) /\ Len(v) \in Nat
      /\ Lemmas!Lists(y, R) /\ DOMAIN y = DOMAIN w /\ DOMAIN w = 1 .. Len(w) /\ Len(w) \in Nat
  BY <1>6, <1>7
<1>9. x = y
  BY <1>5, <1>8, Lemmas!ListsUnique
<1>10. Len(v) = Len(w) /\ \A i \in DOMAIN v : v[i] = w[i]
  <2>1. DOMAIN v = DOMAIN w
    BY <1>8, <1>9
  <2>2. ASSUME NEW i \in DOMAIN v PROVE v[i] = w[i]
    <3>1. v[i] \in S /\ w[i] \in S
      BY <2>1, <2>2, HoldsSize
    <3>2. pos[v[i]] = pos[w[i]]
      BY <1>7, <1>9, <2>1, <2>2
    <3> QED
      BY <1>3, <3>1, <3>2
  <2>3. Cardinality(S) = Len(v) /\ Cardinality(S) = Len(w)
    BY HoldsSize
  <2> QED
    BY <2>2, <2>3
<1> QED
  BY <1>8, <1>10 DEF Holds

\* Two arcs of a history are in one order.
LEMMA OneOrder ==
  ASSUME NEW ms \in Seq(Entry), IsInjective(ids(ms)), NEW a, NEW b, Before(ms, a, b)
  PROVE  ~ Before(ms, b, a)
<1>1. DOMAIN ms = 1 .. Len(ms) /\ Len(ms) \in Nat /\ DOMAIN ids(ms) = DOMAIN ms
  BY DEF ids
<1>2. \A k \in DOMAIN ms : ids(ms)[k] = ms[k].id
  BY DEF ids
<1>3. \A k, l \in DOMAIN ms : ms[k].id = ms[l].id => k = l
  BY <1>1, <1>2 DEF IsInjective
<1> QED
  BY <1>1, <1>3 DEF Before

\* The ids of the entries in P, when these are the arcs S.
LEMMA IdsThose ==
  ASSUME NEW T, NEW ms, HistoryOf(T, ms), NEW P, NEW S \in SUBSET DOMAIN T.arc,
         \A m \in ToSet(ms) : m \in P <=> m.id \in S, DOMAIN T.arc \subseteq Addresses
  PROVE  Holds(ids(those(ms, P)), S) /\ InOrder(ids(those(ms, P)), ms)
<1>1. PICK w : w = those(ms, P)
  OBVIOUS
<1>2. /\ w \in Seq(Entry) /\ IsInjective(ids(w)) /\ ToSet(w) = ToSet(ms) \intersect P
      /\ InOrder(ids(w), ms)
  BY <1>1, ThoseInOrder DEF HistoryOf
<1>3. PICK v : v = ids(w)
  OBVIOUS
<1>4. /\ v \in Seq(Addresses) /\ DOMAIN v = DOMAIN w /\ \A i \in DOMAIN w : v[i] = w[i].id
  <2>1. v = [i \in DOMAIN w |-> w[i].id]
    BY <1>3 DEF ids
  <2>2. \A i \in DOMAIN w : w[i].id \in Addresses
    <3>1. \A i \in DOMAIN w : w[i] \in Entry
      BY <1>2
    <3> QED
      BY <3>1 DEF Entry
  <2> QED
    BY <1>2, <2>1, <2>2
<1>5. ToSet(v) = {m.id : m \in ToSet(w)}
  BY <1>4 DEF ToSet
<1>6. ToSet(v) = S
  <2>1. \A a \in S : \E m \in ToSet(ms) : m.id = a
    BY DEF HistoryOf
  <2> QED
    BY <1>2, <1>5, <2>1
<1> QED
  BY <1>1, <1>2, <1>3, <1>4, <1>6 DEF Holds

\* link finds the oldest of the arcs from s to t, which are those of S.
LEMMA LinkOldest ==
  ASSUME NEW T, NEW ms, Whole(T, ms), HistoryOf(T, ms), NEW s, NEW t \in DOMAIN T.node,
         NEW S, S = {a \in DOMAIN T.arc : T.arc[a] = Arc(s, t)},
         NEW w, Holds(w, S), InOrder(w, ms)
  PROVE  link(T, s, t) = IF w = <<>> THEN nullptr ELSE Head(w)
<1>1. PICK in : in = T.node[t].in
  OBVIOUS
<1>2. Holds(in, Into(T, t)) /\ InOrder(in, ms)
  BY <1>1 DEF Whole, Vectors
<1>3. PICK I : I = {i \in 1 .. Len(in) : T.arc[in[i]].source = s}
  OBVIOUS
<1>4. PICK x : x = SelectInSeq(in, LAMBDA a : T.arc[a].source = s)
  OBVIOUS
<1>5. x = (IF I # {} THEN Min(I) ELSE 0)
  BY <1>3, <1>4 DEF SelectInSeq
<1>6. link(T, s, t) = IF x = 0 THEN nullptr ELSE in[x]
  BY <1>1, <1>4 DEF link
<1>7. DOMAIN in = 1 .. Len(in) /\ Len(in) \in Nat /\ \A i \in DOMAIN in : in[i] \in Into(T, t)
  BY <1>2, HoldsSize
<1>8. DOMAIN w = 1 .. Len(w) /\ Len(w) \in Nat /\ \A i \in DOMAIN w : w[i] \in S
  BY HoldsSize
<1>9. S = {a \in Into(T, t) : T.arc[a].source = s}
  <2>1. \A a \in DOMAIN T.arc : T.arc[a] = Arc(T.arc[a].source, T.arc[a].target)
    BY WholeFacts
  <2>2. \A a \in DOMAIN T.arc : T.arc[a] = Arc(s, t) <=> T.arc[a].source = s /\ T.arc[a].target = t
    BY <2>1 DEF Arc
  <2> QED
    BY <2>2 DEF Into
<1>10. \A i \in I : i \in DOMAIN in /\ in[i] \in S
  BY <1>3, <1>7, <1>9
<1>11. \A a \in S : \E i \in I : in[i] = a
  <2>1. \A a \in Into(T, t) : \E i \in DOMAIN in : in[i] = a
    BY <1>2 DEF Holds, ToSet
  <2> QED
    BY <1>3, <1>7, <1>9, <2>1
<1>12. \A a \in S : \E i \in DOMAIN w : w[i] = a
  BY DEF Holds, ToSet
<1>13. CASE w = <<>>
  <2>1. S = {}
    BY <1>8, <1>12, <1>13
  <2>2. I = {}
    BY <1>10, <2>1
  <2> QED
    BY <1>5, <1>6, <1>13, <2>2
<1>14. CASE w # <<>>
  <2>1. 1 \in DOMAIN w /\ Head(w) = w[1]
    BY <1>8, <1>14 DEF Holds
  <2>2. I # {} /\ I \in SUBSET Nat
    BY <1>3, <1>8, <1>11, <2>1
  <2>3. x \in I /\ \A i \in I : x <= i
    BY <1>5, <2>2, MinIsLeast
  <2>4. PICK k \in DOMAIN w : w[k] = in[x]
    BY <1>10, <1>12, <2>3
  <2>5. k = 1
    <3> SUFFICES ASSUME k # 1 PROVE FALSE
      OBVIOUS
    <3>1. Before(ms, w[1], w[k])
      BY <1>8, <2>1 DEF InOrder
    <3>2. PICK j \in I : in[j] = w[1]
      BY <1>8, <1>11, <2>1
    <3>3. j # x
      BY <2>1, <2>4, <3>2 DEF Holds, IsInjective
    <3>4. x < j
      BY <2>2, <2>3, <3>2, <3>3
    <3>5. Before(ms, w[k], w[1])
      BY <1>2, <1>10, <2>3, <2>4, <3>2, <3>4 DEF InOrder
    <3> QED
      BY <3>1, <3>5, OneOrder DEF HistoryOf
  <2>6. x # 0
    BY <1>3, <2>3
  <2> QED
    BY <1>6, <1>14, <2>1, <2>4, <2>5, <2>6
<1> QED
  BY <1>13, <1>14

\* The vectors, the counts and link say what the history says, for any numbers
\* of nodes and arcs, parallel arcs and loops, while no erasure was undefined.
THEOREM VectorsFollowHistory == Spec => []VectorsExact
<1>1. AdjInv => VectorsExact
  <2> SUFFICES ASSUME AdjInv, state # "undefined" PROVE VectorsExact
    BY DEF VectorsExact
  <2>1. PICK T, ms : T = tree /\ ms = made
    OBVIOUS
  <2>2. /\ Consistent(T, ms) /\ Whole(T, ms) /\ HistoryOf(T, ms)
        /\ root_node \in NodeIDs /\ invalid_target \in {nullptr, root_node, other_root}
        /\ NodeIDs = DOMAIN T.node /\ ArcIDs = DOMAIN T.arc
    BY <2>1 DEF AdjInv, Right, Consistent, NodeIDs, ArcIDs
  <2>3. /\ DOMAIN T.arc \subseteq Addresses /\ ms \in Seq(Entry) /\ IsInjective(ids(ms))
        /\ \A a \in DOMAIN T.arc : \E m \in ToSet(ms) : m.id = a
        /\ \A m \in ToSet(ms) : m.id \in DOMAIN T.arc /\ T.arc[m.id] = m.arc
    BY <2>2, WholeFacts DEF HistoryOf
  <2>4. /\ ids(ms) \in Seq(Addresses) /\ ToSet(ids(ms)) = DOMAIN T.arc /\ Len(ids(ms)) = Len(ms)
        /\ \A i \in DOMAIN ms : T.arc[ms[i].id] = ms[i].arc
    <3>1. /\ DOMAIN ids(ms) = DOMAIN ms /\ DOMAIN ms = 1 .. Len(ms) /\ Len(ms) \in Nat
          /\ \A i \in DOMAIN ms : ids(ms)[i] = ms[i].id
          /\ ids(ms) = [i \in 1 .. Len(ms) |-> ms[i].id]
      BY <2>3 DEF ids
    <3>2. \A i \in DOMAIN ms : ms[i].id \in Addresses /\ ms[i] \in ToSet(ms)
      BY <2>3, <3>1 DEF Entry, ToSet
    <3>3. ids(ms) \in Seq(Addresses) /\ Len(ids(ms)) = Len(ms)
      BY <3>1, <3>2
    <3>4. ToSet(ids(ms)) = {m.id : m \in ToSet(ms)}
      BY <3>1 DEF ToSet
    <3> QED
      BY <2>3, <3>2, <3>3, <3>4
  <2>5. T.m_arcs_size = Len(ms) /\ T.m_nodes_size = Cardinality(NodeIDs)
    <3>1. Holds(ids(ms), DOMAIN T.arc)
      BY <2>3, <2>4 DEF Holds
    <3>2. Cardinality(DOMAIN T.arc) = Len(ids(ms))
      BY <3>1, HoldsSize
    <3> QED
      BY <2>2, <2>4, <3>2 DEF Consistent
  <2>6. ASSUME NEW n \in NodeIDs
        PROVE  T.node[n] = Node(ids(those(ms, {m \in ToSet(ms) : m.arc.target = n})),
                                ids(those(ms, {m \in ToSet(ms) : m.arc.source = n})))
    <3>1. PICK P, Q : /\ P = {m \in ToSet(ms) : m.arc.target = n}
                      /\ Q = {m \in ToSet(ms) : m.arc.source = n}
      OBVIOUS
    <3>2. /\ \A m \in ToSet(ms) : m \in P <=> m.id \in Into(T, n)
          /\ \A m \in ToSet(ms) : m \in Q <=> m.id \in OutOf(T, n)
      BY <2>3, <3>1 DEF Into, OutOf
    <3>3. Into(T, n) \in SUBSET DOMAIN T.arc /\ OutOf(T, n) \in SUBSET DOMAIN T.arc
      BY DEF Into, OutOf
    <3>4. /\ Holds(ids(those(ms, P)), Into(T, n)) /\ InOrder(ids(those(ms, P)), ms)
          /\ Holds(ids(those(ms, Q)), OutOf(T, n)) /\ InOrder(ids(those(ms, Q)), ms)
      BY <2>2, <2>3, <3>2, <3>3, IdsThose
    <3>5. Vectors(T, ms, n)
      BY <2>2, <2>6 DEF Whole
    <3>6. T.node[n].in = ids(those(ms, P)) /\ T.node[n].out = ids(those(ms, Q))
      BY <2>3, <3>3, <3>4, <3>5, InOrderUnique DEF Vectors
    <3> QED
      BY <3>1, <3>5, <3>6 DEF Vectors
  <2>7. ASSUME NEW s \in NodeIDs, NEW t \in NodeIDs,
               NEW w, w = ids(those(ms, {m \in ToSet(ms) : m.arc = Arc(s, t)}))
        PROVE  link(T, s, t) = IF w = <<>> THEN nullptr ELSE Head(w)
    <3>1. PICK P, S : /\ P = {m \in ToSet(ms) : m.arc = Arc(s, t)}
                      /\ S = {a \in DOMAIN T.arc : T.arc[a] = Arc(s, t)}
      OBVIOUS
    <3>2. \A m \in ToSet(ms) : m \in P <=> m.id \in S
      BY <2>3, <3>1
    <3>3. Holds(w, S) /\ InOrder(w, ms)
      BY <2>2, <2>3, <2>7, <3>1, <3>2, IdsThose
    <3> QED
      BY <2>2, <3>1, <3>3, LinkOldest
  <2>8. /\ root_node \in NodeIDs /\ invalid_target \in {nullptr, root_node, other_root}
        /\ ArcIDs = ToSet(ids(made)) /\ IsInjective(ids(made))
        /\ \A i \in DOMAIN made : tree.arc[made[i].id] = made[i].arc
        /\ tree.m_arcs_size = Len(made) /\ tree.m_nodes_size = Cardinality(NodeIDs)
    BY <2>1, <2>2, <2>3, <2>4, <2>5
  <2>9. \A n \in NodeIDs :
          tree.node[n] = Node(ids(those(made, {m \in ToSet(made) : m.arc.target = n})),
                              ids(those(made, {m \in ToSet(made) : m.arc.source = n})))
    BY <2>1, <2>6
  <2>10. \A s, t \in NodeIDs :
           link(tree, s, t) =
             IF ids(those(made, {m \in ToSet(made) : m.arc = Arc(s, t)})) = <<>> THEN nullptr
             ELSE Head(ids(those(made, {m \in ToSet(made) : m.arc = Arc(s, t)})))
    BY <2>1, <2>7
  <2> QED
    BY <2>8, <2>9, <2>10 DEF VectorsExact
<1> QED
  BY <1>1, AdjInvariant, PTL

---------------------------------------------------------------------------
(***************************************************************************)
(* What uniform_int_distribution_fast returns is in its interval, whatever *)
(* the width of the type, signed or not, and whichever loop draws.  No     *)
(* property of W is used but that there are two words: not even that it is *)
(* a power of two.                                                         *)
(***************************************************************************)
\* The remainder of what is less than one W out of range.
LEMMA Remainder ==
  ASSUME NEW j \in Int
  PROVE  /\ 0 <= j /\ j < W => j % W = j
         /\ -W <= j /\ j < 0 => j % W = j + W
         /\ W <= j /\ j < 2 * W => j % W = j - W
<1>1. W \in Nat /\ W > 1  BY WordsAssumption
<1>2. j % W \in 0 .. W - 1 /\ j \div W \in Int /\ j = W * (j \div W) + (j % W)
  BY <1>1
<1>3. CASE 0 <= j /\ j < W  BY <1>1, <1>3
<1>4. CASE -W <= j /\ j < 0  BY <1>1, <1>4
<1>5. CASE W <= j /\ j < 2 * W  BY <1>1, <1>5
<1> QED  BY <1>1, <1>3, <1>4, <1>5

\* The upper half of a product is below the second factor.
LEMMA HighBelow ==
  ASSUME NEW x \in Words, NEW r \in 1 .. W - 1
  PROVE  high(x, r) \in 0 .. r - 1
<1>1. W \in Nat /\ W > 1 /\ x \in 0 .. W - 1  BY WordsAssumption DEF Words
<1>2. x * r \in Nat /\ x * r < W * r  BY <1>1
<1> DEFINE p == x * r
<1>3. p \div W \in Int /\ p % W \in 0 .. W - 1 /\ p = W * (p \div W) + (p % W)  BY <1>1, <1>2
<1>4. p \div W >= 0  BY <1>1, <1>2, <1>3
<1>5. p \div W < r  BY <1>1, <1>2, <1>3
<1> QED  BY <1>3, <1>4, <1>5 DEF high

(***************************************************************************)
(* The inductive invariant.                                                *)
(***************************************************************************)
ParamInv ==
  /\ loop \in {"lemire", "lemire_oneill"} /\ lowest \in {0, -(W \div 2)}
  /\ bounds \in Intervals
  /\ min = bounds[1] /\ range = rangeOf(bounds[1], bounds[2])

DrawInv == ParamInv /\ result \in bounds[1] .. bounds[2]

\* The limits of the type, and an interval in them.
LEMMA Limits ==
  ASSUME ParamInv
  PROVE  /\ W \in Nat /\ W > 1 /\ lowest \in Int /\ -W < lowest /\ lowest <= 0
         /\ bounds[1] \in lowest .. highest /\ bounds[2] \in lowest .. highest
         /\ bounds[1] <= bounds[2]
<1>1. W \in Nat /\ W > 1  BY WordsAssumption
<1>2. lowest \in Int /\ -W < lowest /\ lowest <= 0  BY <1>1 DEF ParamInv
<1> QED  BY <1>1, <1>2 DEF ParamInv, Intervals

\* The range is the number of integers in the interval, or 0 for all of the type.
LEMMA RangeCases ==
  ASSUME ParamInv
  PROVE  \/ range = bounds[2] - bounds[1] + 1 /\ range \in 1 .. W - 1
         \/ range = 0 /\ bounds[1] = lowest /\ bounds[2] = highest
<1> DEFINE n == bounds[2] - bounds[1] + 1
<1>1. n \in 1 .. W  BY Limits DEF highest
<1>2. range = n % W  BY DEF ParamInv, rangeOf, toRange
<1>3. CASE n < W  BY <1>1, <1>2, <1>3, Limits, Remainder
<1>4. CASE n = W
  <2>1. range = 0  BY <1>1, <1>2, <1>4, Limits, Remainder
  <2> QED  BY <1>4, <2>1, Limits DEF highest
<1> QED  BY <1>1, <1>3, <1>4, Limits

\* Conversion to the type keeps what is in its limits, and wraps once around.
LEMMA Conversion ==
  ASSUME ParamInv, NEW i \in Int
  PROVE  /\ toResult(i) \in lowest .. highest
         /\ i \in lowest .. highest => toResult(i) = i
         /\ i \in lowest - W .. lowest - 1 => toResult(i) = i + W
         /\ i \in highest + 1 .. highest + W => toResult(i) = i - W
<1> DEFINE j == i - lowest
<1>1. j \in Int /\ toResult(i) = lowest + (j % W)  BY Limits DEF toResult
<1>2. j % W \in 0 .. W - 1  BY <1>1, Limits
<1>3. /\ 0 <= j /\ j < W => j % W = j
      /\ -W <= j /\ j < 0 => j % W = j + W
      /\ W <= j /\ j < 2 * W => j % W = j - W
  BY <1>1, Remainder
<1> HIDE DEF j
<1>4. i = j + lowest  BY Limits DEF j
<1> QED  BY <1>1, <1>2, <1>3, <1>4, Limits DEF highest

\* b ( ) gives the upper bound back.
LEMMA UpperBound ==
  ASSUME ParamInv
  PROVE  b_of(min, range) = bounds[2]
<1>1. CASE range = 0  BY <1>1, RangeCases, Limits DEF b_of
<1>2. CASE range # 0
  <2>1. range + min - 1 = bounds[2]  BY <1>2, RangeCases, Limits DEF ParamInv
  <2>2. b_of(min, range) = toResult(bounds[2])  BY <1>2, <2>1 DEF b_of
  <2> QED  BY <2>2, Limits, Conversion
<1> QED  BY <1>1, <1>2

\* A word that ends the loop gives the lower bound and what was drawn: adding min
\* may go through a value that wrapped, and wraps back.
LEMMA ValueDrawn ==
  ASSUME ParamInv, NEW x \in Words, ends(x), range # 0
  PROVE  /\ drawn(x, range) \in 0 .. range - 1
         /\ value(x) = bounds[1] + drawn(x, range)
<1> DEFINE h == drawn(x, range)
<1>0. x \in 0 .. W - 1 /\ W \in Nat /\ W > 1  BY Limits DEF Words
<1>1. range = bounds[2] - bounds[1] + 1 /\ range \in 1 .. W - 1
  BY RangeCases, Limits
<1>2. h \in 0 .. range - 1
  <2>1. CASE loop = "lemire_oneill" /\ range >= range_mask
    <3>1. x < range  BY <2>1 DEF ends, accepts
    <3> QED  BY <1>0, <1>1, <2>1, <3>1 DEF drawn
  <2>2. CASE ~ (loop = "lemire_oneill" /\ range >= range_mask)
    <3>1. high(x, range) \in 0 .. range - 1  BY <1>1, HighBelow
    <3> QED  BY <2>2, <3>1 DEF drawn
  <2> QED  BY <2>1, <2>2
<1>3. value(x) = toResult(toResult(h) + bounds[1])  BY DEF value, ParamInv
<1> HIDE DEF h
<1>4. h \in Int /\ h + bounds[1] \in bounds[1] .. bounds[2]  BY <1>1, <1>2, Limits
<1>5. toResult(h + bounds[1]) = h + bounds[1]
  <2> DEFINE i == h + bounds[1]
  <2>1. i \in Int /\ i \in lowest .. highest  BY <1>4, Limits DEF highest
  <2> HIDE DEF i
  <2>2. toResult(i) = i  BY <2>1, Conversion
  <2> QED  BY <2>2 DEF i
<1>6. CASE h <= highest
  <2>1. toResult(h) = h  BY <1>2, <1>6, Limits, Conversion
  <2> QED  BY <1>2, <1>3, <1>4, <1>5, <2>1, Limits DEF h
<1>7. CASE h > highest
  <2>1. h \in highest + 1 .. highest + W  BY <1>1, <1>2, <1>7, Limits DEF highest
  <2>2. toResult(h) = h - W  BY <1>4, <2>1, Conversion
  <2>3. h - W + bounds[1] \in lowest - W .. lowest - 1
    BY <1>1, <1>2, <1>4, Limits DEF highest
  <2>4. toResult(h - W + bounds[1]) = h + bounds[1]  BY <1>4, <2>3, Limits, Conversion
  <2> QED  BY <1>2, <1>3, <1>4, <2>2, <2>4, Limits DEF h
<1> QED  BY <1>4, <1>6, <1>7, Limits DEF highest

\* So it is an integer of the interval, for a range of 0 too.
LEMMA ValueInInterval ==
  ASSUME ParamInv, NEW x \in Words, ends(x)
  PROVE  value(x) \in bounds[1] .. bounds[2]
<1>1. CASE range = 0
  <2>1. x \in Int  BY Limits DEF Words
  <2>2. toResult(x) \in lowest .. highest  BY <2>1, Conversion
  <2> QED  BY <1>1, <2>2, RangeCases, Limits DEF value
<1>2. CASE range # 0  BY <1>2, ValueDrawn, RangeCases, Limits
<1> QED  BY <1>1, <1>2

----------------------------------------------------------------------------
\* Before the first draw.
LEMMA InitDrawInv == DrawInit => DrawInv
<1> SUFFICES ASSUME DrawInit PROVE DrawInv  OBVIOUS
<1>1. ParamInv  BY DEF DrawInit, ParamInv
<1> QED  BY <1>1, Limits DEF DrawInit, DrawInv, highest

\* Every step of a draw keeps its invariant.
LEMMA NextDrawInv == DrawInv /\ [DrawNext]_drawVars => DrawInv'
<1> SUFFICES ASSUME DrawInv, [DrawNext]_drawVars PROVE DrawInv'  OBVIOUS
<1>1. CASE Param
  <2>1. ParamInv'  BY <1>1 DEF Param, DrawInv, ParamInv, Intervals, highest, rangeOf, toRange
  <2>2. bounds'[1] \in Int /\ bounds'[2] \in Int /\ bounds'[1] <= bounds'[2]
    BY <1>1, Limits DEF Param, DrawInv, Intervals, highest
  <2> QED  BY <1>1, <2>1, <2>2 DEF Param, DrawInv
<1>2. CASE Call \/ First \/ UNCHANGED drawVars
  BY <1>2 DEF Call, First, drawVars, DrawInv, ParamInv, Intervals, highest, rangeOf, toRange
<1>3. ASSUME NEW x \in Words, Draw(x) PROVE DrawInv'
  <2>1. ParamInv'
    BY <1>3 DEF Draw, DrawInv, ParamInv, Intervals, highest, rangeOf, toRange
  <2>2. CASE ends(x)
    <3>1. value(x) \in bounds[1] .. bounds[2]  BY <2>2, ValueInInterval DEF DrawInv
    <3> QED  BY <1>3, <2>1, <2>2, <3>1 DEF Draw, DrawInv
  <2>3. CASE ~ ends(x)  BY <1>3, <2>1, <2>3 DEF Draw, DrawInv
  <2> QED  BY <2>2, <2>3
<1> QED  BY <1>1, <1>2, <1>3 DEF DrawNext

\* For every number of words, signed and unsigned, and both loops, what a call
\* returns is in the interval, and a ( ) and b ( ) are its bounds.
THEOREM StaysInInterval == DrawSpec => []InInterval
<1>1. DrawInv => InInterval  BY UpperBound DEF DrawInv, InInterval, ParamInv
<1> QED  BY InitDrawInv, NextDrawInv, <1>1, PTL DEF DrawSpec

----------------------------------------------------------------------------
(***************************************************************************)
(* How many words give an integer.                                         *)
(***************************************************************************)
\* Quotient and remainder.
LEMMA Division ==
  ASSUME NEW n \in Int, NEW d \in Nat, d > 0
  PROVE  n \div d \in Int /\ n % d \in 0 .. d - 1 /\ n = d * (n \div d) + (n % d)
OBVIOUS

\* Of the words whose product with r has the upper half h, those with a lower
\* half of no less than the remainder of W are as many as r goes into W: with
\* the remainder cut off the front, the products of an upper half are a stretch
\* of a multiple of r.
LEMMA EquallyMany ==
  ASSUME NEW r \in 1 .. W - 1, NEW h \in 0 .. r - 1
  PROVE  Cardinality({x \in Words : high(x, r) = h /\ low(x, r) >= W % r}) = W \div r
<1> DEFINE q == W \div r
           t == W % r
           k == h * W + t
           c == (k + r - 1) \div r
<1>1. W \in Nat /\ W > 1 /\ r \in Nat /\ r >= 1 /\ r < W /\ h \in Nat /\ h <= r - 1
  BY WordsAssumption
<1>2. q \in Int /\ t \in 0 .. r - 1 /\ W = r * q + t  BY <1>1
<1>3. q >= 0
  <2>1. q < 0 => r * q <= -r  BY <1>1, <1>2
  <2> QED  BY <1>1, <1>2, <2>1
<1>4. h * W \in Nat /\ h * W + W <= r * W
  <2>1. (h + 1) * W <= r * W  BY <1>1
  <2> QED  BY <1>1, <2>1
<1>5. k \in Nat /\ k = h * W + t  BY <1>2, <1>4
<1>6. c \in Int /\ r * c >= k /\ r * c < k + r
  <2> DEFINE n == k + r - 1
  <2>1. n \in Int /\ n = k + r - 1  BY <1>1, <1>5
  <2> HIDE DEF n, k
  <2>2. n \div r \in Int /\ n % r \in 0 .. r - 1 /\ n = r * (n \div r) + (n % r)
    <3>1. r > 0  BY <1>1
    <3> QED  BY <1>1, <2>1, <3>1, Division, Zenon
  <2> QED  BY <1>1, <1>5, <2>1, <2>2 DEF n
<1> HIDE DEF q, t, k, c
<1>7. c >= 0
  <2>1. c < 0 => r * c <= -r  BY <1>1, <1>6
  <2> QED  BY <1>1, <1>5, <1>6, <2>1
<1>8. r * (c + q) = r * c + (W - t)
  <2>1. r * (c + q) = r * c + r * q  BY <1>1, <1>2, <1>6
  <2> QED  BY <1>2, <1>6, <2>1
<1>9. ASSUME NEW x \in Int
      PROVE  x \in c .. c + q - 1 <=> (k <= x * r /\ x * r < h * W + W)
  <2>1. CASE x < c
    <3>1. r * x <= r * (c - 1)  BY <1>1, <1>6, <2>1
    <3>2. r * (c - 1) = r * c - r  BY <1>1, <1>6
    <3> QED  BY <1>1, <1>2, <1>5, <1>6, <2>1, <3>1, <3>2
  <2>2. CASE x >= c + q
    <3>1. r * x >= r * (c + q)  BY <1>1, <1>2, <1>6, <2>2
    <3> QED  BY <1>1, <1>2, <1>4, <1>5, <1>6, <1>8, <2>2, <3>1
  <2>3. CASE c <= x /\ x <= c + q - 1
    <3>1. r * c <= r * x /\ r * x <= r * (c + q - 1)  BY <1>1, <1>2, <1>6, <2>3
    <3>2. r * (c + q - 1) = r * (c + q) - r  BY <1>1, <1>2, <1>6
    <3> QED  BY <1>1, <1>2, <1>4, <1>5, <1>6, <1>8, <2>3, <3>1, <3>2
  <2> QED  BY <1>2, <1>6, <2>1, <2>2, <2>3
<1>10. ASSUME NEW x \in Words
       PROVE  (high(x, r) = h /\ low(x, r) >= t) <=> (k <= x * r /\ x * r < h * W + W)
  <2> DEFINE p == x * r
  <2>1. p \in Nat /\ p = x * r  BY <1>1 DEF Words
  <2> HIDE DEF p
  <2>2. p \div W \in Int /\ p % W \in 0 .. W - 1 /\ p = W * (p \div W) + (p % W)
    <3>1. W > 0 /\ p \in Int  BY <1>1, <2>1
    <3> QED  BY <1>1, <3>1, Division, Zenon
  <2> DEFINE d == p \div W
             e == p % W
  <2>3. high(x, r) = d /\ low(x, r) = e  BY <2>1 DEF high, low
  <2>4. d \in Int /\ e \in 0 .. W - 1 /\ p = W * d + e  BY <2>2
  <2> HIDE DEF d, e
  <2>5. CASE d = h
    <3>1. p = h * W + e  BY <1>1, <2>4, <2>5
    <3> QED  BY <1>1, <1>2, <1>4, <1>5, <2>1, <2>3, <2>4, <2>5, <3>1
  <2>6. CASE d < h
    <3>1. W * d <= W * (h - 1)  BY <1>1, <2>4, <2>6
    <3>2. W * (h - 1) = h * W - W  BY <1>1
    <3> QED  BY <1>1, <1>2, <1>4, <1>5, <2>1, <2>3, <2>4, <2>6, <3>1, <3>2
  <2>7. CASE d > h
    <3>1. W * d >= W * (h + 1)  BY <1>1, <2>4, <2>7
    <3>2. W * (h + 1) = h * W + W  BY <1>1
    <3> QED  BY <1>1, <1>2, <1>4, <1>5, <2>1, <2>3, <2>4, <2>7, <3>1, <3>2
  <2> QED  BY <1>1, <2>4, <2>5, <2>6, <2>7
<1>11. \A x \in c .. c + q - 1 : x \in Words
  <2> SUFFICES ASSUME NEW x \in c .. c + q - 1 PROVE x \in Words  OBVIOUS
  <2>1. x \in Int /\ x >= 0 /\ x * r < h * W + W  BY <1>2, <1>6, <1>7, <1>9
  <2>2. x * r < r * W  BY <1>1, <1>4, <2>1
  <2>3. x >= W => x * r >= r * W  BY <1>1, <2>1
  <2> QED  BY <1>1, <2>1, <2>2, <2>3 DEF Words
<1>12. {x \in Words : high(x, r) = h /\ low(x, r) >= t} = c .. c + q - 1
  <2>1. \A x \in Words : x \in Int  BY <1>1 DEF Words
  <2> QED  BY <1>2, <1>6, <1>9, <1>10, <1>11, <2>1
<1>13. Cardinality(c .. c + q - 1) = q
  <2>1. c + q - 1 \in Int  BY <1>2, <1>6
  <2> QED  BY <1>2, <1>3, <1>6, <2>1, FS_Interval
<1> QED  BY <1>12, <1>13 DEF q, t

\* What the loops reject of a product's lower halves is the remainder of W.
LEMMA RejectsRemainder ==
  ASSUME NEW r \in 1 .. W - 1
  PROVE  /\ toRange(-r) % r = W % r
         /\ r < range_mask => threshold_oneill(r) = W % r
         /\ r > range_mask => W \div r = 1
<1>1. W \in Nat /\ W > 1 /\ r \in Nat /\ r >= 1 /\ r < W  BY WordsAssumption
<1>2. range_mask \in Nat /\ 2 * range_mask <= W /\ W <= 2 * range_mask + 1
  BY <1>1 DEF range_mask
<1>3. toRange(-r) = W - r
  <2>1. -r \in Int /\ -W <= -r /\ -r < 0  BY <1>1
  <2> DEFINE j == -r
  <2>2. j % W = j + W  BY <2>1, Remainder
  <2> QED  BY <1>1, <2>2 DEF toRange
<1> DEFINE q == W \div r
           t == W % r
<1>4. q \in Int /\ t \in 0 .. r - 1 /\ W = r * q + t  BY <1>1
<1> HIDE DEF q, t
<1>5. ASSUME NEW j \in Int, NEW i \in Int, j = r * i + t PROVE j % r = t
  <2>1. j \div r \in Int /\ j % r \in 0 .. r - 1 /\ j = r * (j \div r) + (j % r)
    BY <1>1
  <2> DEFINE d == j \div r
             e == j % r
  <2>2. d \in Int /\ e \in 0 .. r - 1 /\ r * d + e = r * i + t  BY <1>5, <2>1
  <2> HIDE DEF d, e
  <2>3. d < i => r * d <= r * (i - 1)  BY <1>1, <2>2
  <2>4. d > i => r * d >= r * (i + 1)  BY <1>1, <2>2
  <2>5. r * (i - 1) = r * i - r /\ r * (i + 1) = r * i + r  BY <1>1
  <2>6. r * d \in Int /\ r * i \in Int  BY <1>1, <2>2
  <2>7. ~ (d < i) /\ ~ (d > i)  BY <1>1, <1>4, <2>2, <2>3, <2>4, <2>5, <2>6
  <2>8. d = i  BY <2>2, <2>7
  <2> QED  BY <1>4, <2>2, <2>6, <2>8 DEF e
<1>6. (W - r) % r = t
  <2>1. r * (q - 1) = r * q - r  BY <1>1, <1>4
  <2>2. W - r = r * (q - 1) + t  BY <1>1, <1>4, <2>1
  <2> QED  BY <1>1, <1>4, <1>5, <2>2
<1>7. ASSUME r < range_mask PROVE threshold_oneill(r) = t
  <2> DEFINE j == W - r - r
  <2>1. j \in Int /\ 0 <= j /\ j < W /\ j = W - 2 * r  BY <1>1, <1>2, <1>7
  <2>2. toRange(toRange(-r) - r) = j  BY <1>3, <2>1, Remainder DEF toRange
  <2> HIDE DEF j
  <2>3. r * (q - 2) = r * q - 2 * r  BY <1>1, <1>4
  <2>4. j = r * (q - 2) + t  BY <1>1, <1>4, <2>1, <2>3
  <2>5. j % r = t  BY <1>4, <1>5, <2>1, <2>4
  <2>6. j < r => j % r = j  BY <1>1, <2>1
  <2> QED  BY <1>1, <2>1, <2>2, <2>5, <2>6 DEF threshold_oneill
<1>8. r > range_mask => q = 1
  <2>1. q < 1 => r * q <= 0  BY <1>1, <1>4
  <2>2. q > 1 => r * q >= 2 * r  BY <1>1, <1>4
  <2> QED  BY <1>1, <1>2, <1>4, <2>1, <2>2
<1> QED  BY <1>3, <1>6, <1>7, <1>8 DEF q, t

\* All values of the type: each is of one word.
LEMMA EvenOverType ==
  ASSUME ParamInv, range = 0, NEW v \in bounds[1] .. bounds[2]
  PROVE  Cardinality({x \in Words : ends(x) /\ value(x) = v}) = 1
<1> DEFINE w == IF v >= 0 THEN v ELSE v + W
<1>1. bounds[1] = lowest /\ bounds[2] = highest /\ v \in lowest .. highest /\ v \in Int
  BY RangeCases, Limits DEF highest
<1>2. w \in Words  BY <1>1, Limits DEF Words, highest
<1>3. ASSUME NEW x \in Words PROVE toResult(x) = v <=> x = w
  <2>1. x \in Int /\ x >= 0 /\ x < W  BY Limits DEF Words
  <2>2. CASE x <= highest
    <3>1. toResult(x) = x  BY <2>1, <2>2, Limits, Conversion
    <3> QED  BY <1>1, <2>1, <2>2, <3>1, Limits DEF highest
  <2>3. CASE x > highest
    <3>1. toResult(x) = x - W  BY <2>1, <2>3, Limits, Conversion DEF highest
    <3> QED  BY <1>1, <2>1, <2>3, <3>1, Limits DEF highest
  <2> QED  BY <2>1, <2>2, <2>3, Limits DEF highest
<1>4. {x \in Words : ends(x) /\ value(x) = v} = {w}
  BY <1>2, <1>3 DEF ends, value
<1> QED  BY <1>4, FS_Singleton

\* Any other interval: the words of an integer are those the loop accepts and
\* draws its distance from the lower bound of.
LEMMA EvenOverInterval ==
  ASSUME ParamInv, ~ Promoted, range # 0, NEW v \in bounds[1] .. bounds[2]
  PROVE  Cardinality({x \in Words : ends(x) /\ value(x) = v}) =
           IF loop = "lemire_oneill" /\ range = range_mask THEN 1 ELSE W \div range
<1> DEFINE h == v - bounds[1]
           wordsOf == {x \in Words : ends(x) /\ value(x) = v}
<1>1. range = bounds[2] - bounds[1] + 1 /\ range \in 1 .. W - 1 /\ v \in Int
  BY RangeCases, Limits
<1>2. h \in 0 .. range - 1 /\ v = bounds[1] + h  BY <1>1, Limits
<1>3. wordsOf = {x \in Words : accepts(x, range) /\ drawn(x, range) = h}
  <2>1. ASSUME NEW x \in Words, accepts(x, range) PROVE value(x) = v <=> drawn(x, range) = h
    <3>1. drawn(x, range) \in 0 .. range - 1 /\ value(x) = bounds[1] + drawn(x, range)
      BY <2>1, ValueDrawn DEF ends
    <3>2. drawn(x, range) \in Int  BY <1>1, <3>1
    <3> QED  BY <1>1, <1>2, <3>1, <3>2, Limits DEF highest
  <2> QED  BY <2>1 DEF ends
<1> HIDE DEF h, wordsOf
<1>4. W \in Nat /\ W > 1 /\ range_mask \in Int  BY Limits DEF range_mask
<1>5. CASE loop = "lemire_oneill" /\ range >= range_mask
  <2>1. wordsOf = {h}
    <3>1. h \in Words /\ h < range  BY <1>1, <1>2, <1>4 DEF Words
    <3>2. \A x \in Words : accepts(x, range) <=> x < range  BY <1>5 DEF accepts
    <3>3. \A x \in Words : drawn(x, range) = x  BY <1>5 DEF drawn
    <3> QED  BY <1>3, <3>1, <3>2, <3>3
  <2>2. Cardinality(wordsOf) = 1  BY <2>1, FS_Singleton
  <2>3. range # range_mask => W \div range = 1
    <3>1. range # range_mask => range > range_mask  BY <1>1, <1>4, <1>5
    <3> QED  BY <1>1, <3>1, RejectsRemainder
  <2> QED  BY <2>2, <2>3, <1>5 DEF wordsOf
<1>6. CASE ~ (loop = "lemire_oneill" /\ range >= range_mask)
  <2>1. \A x \in Words : accepts(x, range) <=> low(x, range) >= W % range
    <3> SUFFICES ASSUME NEW x \in Words
                 PROVE  accepts(x, range) <=> low(x, range) >= W % range
      OBVIOUS
    <3>1. CASE loop = "lemire"
      <4>1. threshold(range) = W % range
        BY <1>1, RejectsRemainder DEF threshold
      <4> QED  BY <3>1, <4>1 DEF accepts
    <3>2. CASE loop # "lemire"
      <4>1. loop = "lemire_oneill" /\ range < range_mask
        BY <1>1, <1>4, <1>6, <3>2 DEF ParamInv
      <4>2. threshold_oneill(range) = W % range  BY <1>1, <4>1, RejectsRemainder
      <4>3. W % range \in 0 .. range - 1  BY <1>1, <1>4
      <4>4. low(x, range) \in Int
        <5>1. x * range \in Int  BY <1>1, <1>4 DEF Words
        <5> QED  BY <1>4, <5>1 DEF low
      <4>5. accepts(x, range) <=> low(x, range) >= range \/ low(x, range) >= W % range
        BY <1>1, <1>4, <3>2, <4>1, <4>2 DEF accepts
      <4> QED  BY <1>1, <4>3, <4>4, <4>5
    <3> QED  BY <3>1, <3>2
  <2>2. \A x \in Words : drawn(x, range) = high(x, range)  BY <1>6 DEF drawn
  <2>3. wordsOf = {x \in Words : high(x, range) = h /\ low(x, range) >= W % range}
    BY <1>3, <2>1, <2>2
  <2>4. Cardinality(wordsOf) = W \div range  BY <1>1, <1>2, <2>3, EquallyMany
  <2>5. ~ (loop = "lemire_oneill" /\ range = range_mask)  BY <1>1, <1>4, <1>6
  <2> QED  BY <2>4, <2>5 DEF wordsOf
<1> QED  BY <1>5, <1>6

\* For every number of words, signed and unsigned, and both loops, each integer of
\* the interval is the result of equally many words: of as many as there can be,
\* or of one where bounded_range_lemire_oneill takes half of the words for one
\* each.  Where range_type is computed with as int, this is known to fail.
THEOREM EveryIntegerEvenly ==
  ASSUME ~ Promoted
  PROVE  DrawSpec => []Uniform
<1>1. DrawInv => Uniform
  <2> SUFFICES ASSUME DrawInv, NEW v \in bounds[1] .. bounds[2]
               PROVE  Cardinality({x \in Words : ends(x) /\ value(x) = v}) =
                        IF loop = "lemire_oneill" /\ range = range_mask THEN 1
                        ELSE W \div (bounds[2] - bounds[1] + 1)
    BY DEF Uniform
  <2>1. ParamInv  BY DEF DrawInv
  <2>2. CASE range # 0
    <3>1. range = bounds[2] - bounds[1] + 1  BY <2>1, <2>2, RangeCases
    <3> QED  BY <2>1, <2>2, <3>1, EvenOverInterval
  <2>3. CASE range = 0
    <3>1. bounds[2] - bounds[1] + 1 = W  BY <2>1, <2>3, RangeCases, Limits DEF highest
    <3>2. W \div W = 1  BY <2>1, Limits
    <3> QED  BY <2>1, <2>3, <3>1, <3>2, EvenOverType
  <2> QED  BY <2>2, <2>3
<1> QED  BY InitDrawInv, NextDrawInv, <1>1, PTL DEF DrawSpec

============================================================================
