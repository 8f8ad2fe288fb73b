------------------------- MODULE FlatTreeTheorems -------------------------
(***************************************************************************)
(* Appending an element to a threaded list keeps it a list, and walking a  *)
(* list delivers it: the facts behind addArc ( ), add_node ( ) and every   *)
(* out_iterator.  The appended index is the next free one and hence larger *)
(* than every index in use.                                                *)
(*                                                                         *)
(* Then, what addNode and addArc preserve: the types, the ids in range and *)
(* that every threaded list of the tree is exactly the arcs it should      *)
(* hold.                                                                   *)
(***************************************************************************)
EXTENDS FlatTree, FiniteSetTheorems, WellFoundedInduction, TLAPS


\* What the code writes to the owner of a list, as in addArc: head, unless the
\* list has one, tail and size.  The result describes the longer list.
LEMMA AppendEnds ==
  ASSUME NEW S \in SUBSET (Nat \ {0}), IsFiniteSet(S),
         NEW head \in Nat, NEW tail \in Nat, NEW size \in Nat,
         NEW id \in Nat \ {0}, \A a \in S : a < id,
         ListEnds(S, head, tail, size)
  PROVE  ListEnds(S \union {id}, IF head = invalid THEN id ELSE head, id, size + 1)
<1> DEFINE S1 == S \union {id}
           head1 == IF head = invalid THEN id ELSE head
<1>1. id \notin S
  OBVIOUS
<1>2. size + 1 = Cardinality(S1)
  BY <1>1, FS_AddElement DEF ListEnds
<1>3. S1 # {} /\ id \in S1
  OBVIOUS
<1>4. head1 \in S1
  BY DEF ListEnds, invalid
<1>5. \A a \in S1 : head1 <= a /\ a <= id
  <2>1. CASE S = {}
    BY <2>1 DEF ListEnds, invalid
  <2>2. CASE S # {}
    <3>1. head \in S /\ head1 = head
      BY <2>2 DEF ListEnds, invalid
    <3> QED
      BY <2>2, <3>1 DEF ListEnds
  <2> QED
    BY <2>1, <2>2
<1> QED
  BY <1>2, <1>3, <1>4, <1>5 DEF ListEnds

\* What the code writes to the old tail, its new successor, and what it leaves
\* alone, the successors of the other elements.
LEMMA AppendNext ==
  ASSUME NEW S \in SUBSET (Nat \ {0}),
         NEW head \in Nat, NEW tail \in Nat, NEW size \in Nat,
         NEW id \in Nat \ {0}, \A a \in S : a < id,
         ListEnds(S, head, tail, size),
         NEW a \in S, NEW next \in Nat, IsNext(S, a, next)
  PROVE  IsNext(S \union {id}, a, IF a = tail THEN id ELSE next)
<1>1. CASE a = tail
  BY <1>1 DEF ListEnds, IsNext, invalid
<1>2. CASE a # tail
  <2>1. tail \in S /\ a < tail
    BY <1>2 DEF ListEnds
  <2>2. next # invalid
    BY <2>1 DEF IsNext
  <2> QED
    BY <1>2, <2>2 DEF IsNext, invalid
<1> QED
  BY <1>1, <1>2

\* The appended element is the last.
LEMMA AppendLast ==
  ASSUME NEW S \in SUBSET (Nat \ {0}), NEW id \in Nat \ {0}, \A a \in S : a < id
  PROVE  IsNext(S \union {id}, id, invalid)
BY DEF IsNext, invalid

\* The tail of a list has no successor yet.
LEMMA LastHasNoNext ==
  ASSUME NEW S \in SUBSET (Nat \ {0}), NEW a \in S, \A c \in S : c <= a,
         NEW next \in Nat, IsNext(S, a, next)
  PROVE  next = invalid
BY DEF IsNext

\* The prefixes of a list, cut at an element, at its successor, and after the
\* list has grown at its end.
LEMMA PrefixStep ==
  ASSUME NEW S \in SUBSET Nat, NEW id \in S,
         NEW next \in Nat, next # invalid, IsNext(S, id, next)
  PROVE  {a \in S : a < id} \union {id} = {a \in S : a < next}
<1>1. next \in S /\ id < next /\ \A c \in S : id < c => next <= c
  BY DEF IsNext
<1>2. ASSUME NEW a \in S PROVE a < next <=> (a < id \/ a = id)
  BY <1>1
<1> QED
  BY <1>2

\* An element with no successor and the ones before it are the whole list.
LEMMA PrefixEnd ==
  ASSUME NEW S \in SUBSET Nat, NEW id \in S, IsNext(S, id, invalid)
  PROVE  {a \in S : a < id} \union {id} = S
<1>1. \A c \in S : c <= id
  BY DEF IsNext
<1>2. ASSUME NEW a \in S PROVE a < id \/ a = id
  BY <1>1
<1> QED
  BY <1>2

\* An element appended to a list is not before one that is in it: what an
\* iterator has left behind does not change.
LEMMA PrefixGrow ==
  ASSUME NEW m \in Nat, NEW S \in SUBSET (1 .. m), NEW id \in S,
         NEW S1, S1 = S \/ S1 = S \union {m + 1}
  PROVE  \A a \in S1 : a < id => a \in S
<1>1. id \in 1 .. m
  OBVIOUS
<1>2. ~ (m + 1 < id)
  BY <1>1
<1> QED
  BY <1>2

\* An element appended to a list comes after every part of it that was
\* delivered.
LEMMA SuffixGrow ==
  ASSUME NEW m \in Nat, NEW S \in SUBSET (1 .. m), NEW P \in SUBSET S,
         NEW S1, S1 = S \/ S1 = S \union {m + 1},
         \A a \in S \ P : \A b \in P : b < a
  PROVE  \A a \in S1 \ P : \A b \in P : b < a
<1>1. ASSUME NEW b \in P PROVE b < m + 1
  <2>1. b \in 1 .. m
    OBVIOUS
  <2> QED
    BY <2>1
<1> QED
  BY <1>1

\* What it means for the delivered elements to deliver one more.
LEMMA AppendSeen ==
  ASSUME NEW seen \in Seq(Nat), NEW id \in Nat, NEW longer, longer = Append(seen, id)
  PROVE  /\ longer # <<>>
         /\ {longer[i] : i \in 1 .. Len(longer)} = {seen[i] : i \in 1 .. Len(seen)} \union {id}
         /\ (/\ \A i, j \in 1 .. Len(seen) : i < j => seen[i] < seen[j]
             /\ \A i \in 1 .. Len(seen) : seen[i] < id)
            => \A i, j \in 1 .. Len(longer) : i < j => longer[i] < longer[j]
<1>1. /\ Len(longer) = Len(seen) + 1 /\ Len(seen) \in Nat
      /\ longer[Len(seen) + 1] = id
      /\ \A i \in 1 .. Len(seen) : longer[i] = seen[i]
  OBVIOUS
<1>2. 1 .. Len(longer) = (1 .. Len(seen)) \union {Len(seen) + 1}
  BY <1>1
<1>3. {longer[i] : i \in 1 .. Len(longer)} = {seen[i] : i \in 1 .. Len(seen)} \union {id}
  BY <1>1, <1>2
<1>4. longer # <<>>
  BY <1>1
<1>5. ASSUME \A i, j \in 1 .. Len(seen) : i < j => seen[i] < seen[j],
             \A i \in 1 .. Len(seen) : seen[i] < id,
             NEW i \in 1 .. Len(longer), NEW j \in 1 .. Len(longer), i < j
      PROVE  longer[i] < longer[j]
  <2>1. i \in 1 .. Len(seen)
    BY <1>1, <1>5
  <2>2. CASE j \in 1 .. Len(seen)
    BY <1>1, <1>5, <2>1, <2>2
  <2>3. CASE j = Len(seen) + 1
    BY <1>1, <1>5, <2>1, <2>3
  <2> QED
    BY <1>2, <2>2, <2>3
<1> QED
  BY <1>3, <1>4, <1>5

---------------------------------------------------------------------------
(***************************************************************************)
(* Walks.  Walk is a recursive function; the induction and the recursion   *)
(* theorems of the library take a predicate or an operator, which the      *)
(* backends cannot instantiate, so that both are derived here with a set   *)
(* in place of the predicate and functions in place of the operator, from  *)
(* the well-foundedness of the natural numbers.                            *)
(***************************************************************************)
\* A non-empty set of natural numbers has a least element.
LEMMA Least ==
  ASSUME NEW S \in SUBSET Nat, S # {}
  PROVE  \E m \in S : \A k \in S : m <= k
<1> DEFINE R == {p \in Nat \X Nat : p[1] < p[2]}
<1>1. IsWellFoundedOn(R, Nat)
  BY NatLessThanWellFounded DEF OpToRel
<1>2. PICK m \in S : \A k \in S : ~ (<<k, m>> \in R)
  <2> HIDE DEF R
  <2> QED
    BY <1>1, WFMin
<1>3. \A k \in S : <<k, m>> \in R <=> k < m
  OBVIOUS
<1>4. \A k \in S : ~ (k < m)
  BY <1>2, <1>3
<1> QED
  BY <1>4

\* Induction, with a set of numbers for the predicate.
LEMMA SetInduction ==
  ASSUME NEW N \in Nat, NEW Good, 0 \in Good,
         \A k \in 1 .. N : k - 1 \in Good => k \in Good
  PROVE  \A k \in 0 .. N : k \in Good
<1> DEFINE Bad == {k \in 0 .. N : k \notin Good}
<1> SUFFICES ASSUME Bad # {} PROVE FALSE
  OBVIOUS
<1>1. PICK m \in Bad : \A k \in Bad : m <= k
  <2>1. Bad \in SUBSET Nat
    OBVIOUS
  <2> HIDE DEF Bad
  <2> QED
    BY <2>1, Least
<1>2. m \in 1 .. N /\ m \notin Good
  OBVIOUS
<1>3. m - 1 \in 0 .. N /\ m - 1 < m
  BY <1>2
<1>4. m - 1 \notin Bad
  <2> HIDE DEF Bad
  <2> QED
    BY <1>1, <1>2, <1>3
<1> QED
  BY <1>2, <1>3, <1>4

\* A successor is a larger index: no list runs in a circle.
Forward(next, N) ==
  /\ DOMAIN next = 1 .. N
  /\ \A a \in 1 .. N : next[a] = invalid \/ (next[a] \in 1 .. N /\ a < next[a])

\* Induction along a list, from its end: what holds of an element when it holds
\* of its successor, if it has one, holds of all.
LEMMA ListInduction ==
  ASSUME NEW N \in Nat, NEW next,
         NEW S \in SUBSET (1 .. N), \A a \in S : IsNext(S, a, next[a]),
         NEW Good,
         \A b \in S : next[b] = invalid \/ next[b] \in S \cap Good => b \in Good
  PROVE  S \subseteq Good
<1> DEFINE Late == {k \in 0 .. N : \A b \in S : N - k <= b => b \in Good}
<1>1. \A a \in S : a \in Nat /\ a <= N /\ a >= 1
  OBVIOUS
<1>2. ASSUME NEW k \in 0 .. N, \A b \in S : N - k < b => b \in Good
      PROVE  \A b \in S : N - k <= b => b \in Good
  <2> SUFFICES ASSUME NEW b \in S, b = N - k PROVE b \in Good
    BY <1>1, <1>2
  <2>1. PICK nx : nx = next[b]
    OBVIOUS
  <2>2. CASE nx = invalid
    BY <2>1, <2>2
  <2>3. CASE nx # invalid
    <3>1. nx \in S /\ b < nx
      BY <2>1, <2>3 DEF IsNext
    <3> QED
      BY <1>1, <1>2, <2>1, <3>1
  <2> QED
    BY <2>2, <2>3
<1>3. 0 \in Late
  BY <1>1, <1>2
<1>4. ASSUME NEW k \in 1 .. N, k - 1 \in Late PROVE k \in Late
  <2>1. \A b \in S : N - (k - 1) <= b => b \in Good
    BY <1>4
  <2>2. \A b \in S : N - k < b => b \in Good
    BY <1>1, <2>1
  <2> QED
    BY <1>2, <2>2
<1>5. N \in Late
  <2> HIDE DEF Late
  <2> QED
    BY <1>3, <1>4, SetInduction
<1> QED
  BY <1>1, <1>5

\* g is defined by recursion along the lists: v0 is the value at their end, and
\* F[a] takes the value of the successor of a to that of a.
Recursive(g, next, N, V, v0, F) ==
  /\ g \in [DOMAIN next \union {invalid} -> V]
  /\ g[invalid] = v0
  /\ \A a \in 1 .. N : g[a] = F[a][g[next[a]]]

\* Every such recursion is well-defined.
LEMMA RecursionDefined ==
  ASSUME NEW N \in Nat, NEW next, Forward(next, N),
         NEW V, NEW v0 \in V, NEW F \in [1 .. N -> [V -> V]]
  PROVE  \E g : Recursive(g, next, N, V, v0, F)
<1> DEFINE D(k) == {invalid} \union ((N - k + 1) .. N)
           Solves(g, k) == /\ g \in [D(k) -> V]
                           /\ g[invalid] = v0
                           /\ \A a \in (N - k + 1) .. N : g[a] = F[a][g[next[a]]]
           Good == {k \in 0 .. N : \E g : Solves(g, k)}
<1>1. 0 \in Good
  <2>1. D(0) = {0}
    BY DEF invalid
  <2>2. PICK g : g = [a \in D(0) |-> v0]
    OBVIOUS
  <2>3. Solves(g, 0)
    BY <2>1, <2>2 DEF invalid
  <2> QED
    BY <2>3
<1>2. ASSUME NEW k \in 1 .. N, k - 1 \in Good PROVE k \in Good
  <2>1. PICK g : Solves(g, k - 1)
    BY <1>2
  <2>2. PICK n : n = N - k + 1
    OBVIOUS
  <2>3. /\ n \in 1 .. N /\ D(k) = D(k - 1) \union {n} /\ n \notin D(k - 1)
    BY <2>2, <1>2 DEF invalid
  <2>4. PICK h : h = [a \in D(k) |-> IF a = n THEN F[n][g[next[n]]] ELSE g[a]]
    OBVIOUS
  <2>5. \A a \in (N - (k - 1) + 1) .. N : a # n /\ a \in D(k) /\ h[a] = g[a] /\ a \in 1 .. N
    BY <2>2, <2>4, <1>2
  <2>6. ASSUME NEW a \in n .. N PROVE next[a] \in D(k - 1) /\ h[next[a]] = g[next[a]]
    <3>1. a \in 1 .. N
      BY <2>3
    <3>2. next[a] = 0 \/ (next[a] \in 1 .. N /\ n < next[a])
      BY <3>1, <2>3 DEF Forward, invalid
    <3>3. next[a] \in D(k - 1)
      BY <3>2, <2>2, <1>2, <2>3 DEF invalid
    <3> QED
      BY <3>3, <2>3, <2>4
  <2>7. g[next[n]] \in V /\ F[n][g[next[n]]] \in V
    <3>1. next[n] \in D(k - 1)
      BY <2>3, <2>6
    <3> HIDE DEF D
    <3> QED
      BY <2>1, <2>3, <3>1
  <2>8. h \in [D(k) -> V]
    <3> HIDE DEF D
    <3>1. \A a \in D(k) : a = n \/ a \in D(k - 1)
      BY <2>3
    <3>2. \A a \in D(k) : h[a] \in V
      BY <2>1, <2>4, <2>7, <3>1
    <3> QED
      BY <2>4, <3>2
  <2>9. h[invalid] = v0
    BY <2>1, <2>3, <2>4
  <2>10. ASSUME NEW a \in (N - k + 1) .. N PROVE h[a] = F[a][h[next[a]]]
    <3>1. a \in n .. N /\ h[next[a]] = g[next[a]]
      BY <2>2, <2>6
    <3>2. CASE a = n
      <4>1. n \in D(k)
        BY <2>3
      <4> HIDE DEF D
      <4> QED
        BY <2>4, <3>1, <3>2, <4>1
    <3>3. CASE a # n
      <4>1. a \in (N - (k - 1) + 1) .. N
        BY <2>2, <2>3, <3>1, <3>3
      <4>2. g[a] = F[a][g[next[a]]]
        BY <2>1, <4>1
      <4> QED
        BY <2>5, <3>1, <4>1, <4>2
    <3> QED
      BY <3>2, <3>3
  <2>11. Solves(h, k)
    BY <2>8, <2>9, <2>10
  <2> HIDE DEF Solves
  <2> QED
    BY <2>11
<1>3. N \in Good
  <2> HIDE DEF Good
  <2>1. \A k \in 0 .. N : k \in Good
    BY <1>1, <1>2, SetInduction
  <2> QED
    BY <2>1
<1>4. PICK g : Solves(g, N)
  <2> HIDE DEF Solves
  <2> QED
    BY <1>3
<1>5. D(N) = DOMAIN next \union {invalid} /\ N - N + 1 = 1
  BY DEF Forward, invalid
<1>6. Recursive(g, next, N, V, v0, F)
  BY <1>4, <1>5 DEF Recursive
<1> QED
  BY <1>6

\* g is the function defined by v0 and, at a, by F[a] from its value at prev[a].
SolvesBack(g, prev, N, V, v0, F) ==
  g \in [0 .. N -> V] /\ g[0] = v0 /\ \A a \in 1 .. N : g[a] = F[a][g[prev[a]]]

\* A recursion that goes from every index to a smaller one has a solution.
LEMMA BackRecursion ==
  ASSUME NEW N \in Nat, NEW prev, \A a \in 1 .. N : prev[a] \in Nat /\ prev[a] < a,
         NEW V, NEW v0 \in V, NEW F \in [1 .. N -> [V -> V]]
  PROVE  \E g : SolvesBack(g, prev, N, V, v0, F)
<1> DEFINE Solves(g, k) == /\ g \in [0 .. k -> V] /\ g[0] = v0
                           /\ \A a \in 1 .. k : g[a] = F[a][g[prev[a]]]
           Good == {k \in 0 .. N : \E g : Solves(g, k)}
<1>1. 0 \in Good
  <2>1. PICK g : g = [a \in 0 .. 0 |-> v0]
    OBVIOUS
  <2>2. Solves(g, 0)
    BY <2>1
  <2> QED
    BY <2>2
<1>2. ASSUME NEW k \in 1 .. N, k - 1 \in Good PROVE k \in Good
  <2>1. PICK g : Solves(g, k - 1)
    BY <1>2
  <2>2. PICK h : h = [a \in 0 .. k |-> IF a = k THEN F[k][g[prev[k]]] ELSE g[a]]
    OBVIOUS
  <2>3. \A a \in 0 .. k : a = k \/ (a \in 0 .. k - 1 /\ a # k)
    OBVIOUS
  <2>4. g[prev[k]] \in V /\ F[k][g[prev[k]]] \in V
    <3>1. prev[k] \in 0 .. k - 1
      OBVIOUS
    <3>2. g[prev[k]] \in V
      BY <2>1, <3>1
    <3> QED
      BY <3>2
  <2>5. h \in [0 .. k -> V]
    BY <2>1, <2>2, <2>3, <2>4
  <2>6. h[0] = v0
    BY <2>1, <2>2
  <2>7. ASSUME NEW a \in 1 .. k PROVE h[a] = F[a][h[prev[a]]]
    <3>1. prev[a] \in 0 .. k /\ prev[a] # k
      OBVIOUS
    <3>2. h[prev[a]] = g[prev[a]]
      BY <2>2, <3>1
    <3>3. CASE a = k
      BY <2>2, <3>2, <3>3
    <3>4. CASE a # k
      <4>1. a \in 1 .. k - 1 /\ a \in 0 .. k
        BY <3>4
      <4>2. h[a] = g[a] /\ g[a] = F[a][g[prev[a]]]
        BY <2>1, <2>2, <3>4, <4>1
      <4> QED
        BY <3>2, <4>2
    <3> QED
      BY <3>3, <3>4
  <2>8. Solves(h, k)
    BY <2>5, <2>6, <2>7
  <2> HIDE DEF Solves
  <2> QED
    BY <2>8
<1>3. N \in Good
  <2> HIDE DEF Good
  <2>1. \A k \in 0 .. N : k \in Good
    BY <1>1, <1>2, SetInduction
  <2> QED
    BY <2>1
<1> QED
  BY <1>3 DEF SolvesBack

\* g iterates F from v0.
Iterates(g, N, V, v0, F) ==
  g \in [0 .. N -> V] /\ g[0] = v0 /\ \A i \in 1 .. N : g[i] = F[i][g[i - 1]]

\* There is such an iteration.
LEMMA IterationDefined ==
  ASSUME NEW N \in Nat, NEW V, NEW v0 \in V, NEW F \in [1 .. N -> [V -> V]]
  PROVE  \E g : Iterates(g, N, V, v0, F)
<1>1. PICK prev : prev = [i \in 1 .. N |-> i - 1]
  OBVIOUS
<1>2. \A i \in 1 .. N : prev[i] \in Nat /\ prev[i] < i /\ prev[i] = i - 1
  BY <1>1
<1>3. PICK g : SolvesBack(g, prev, N, V, v0, F)
  BY <1>2, BackRecursion
<1>4. Iterates(g, N, V, v0, F)
  BY <1>2, <1>3 DEF SolvesBack, Iterates
<1> QED
  BY <1>4

\* The recursion of Walk, unfolded.
LEMMA WalkUnfolds ==
  ASSUME NEW N \in Nat, NEW next, Forward(next, N)
  PROVE  \E from : /\ from[invalid] = <<>>
                   /\ \A a \in 1 .. N : from[a] = <<a>> \o from[next[a]]
                   /\ \A head : Walk(next, head) = from[head]
<1> DEFINE F == [a \in 1 .. N |-> [w \in Seq(Nat) |-> <<a>> \o w]]
           D == DOMAIN next \union {invalid}
<1>1. F \in [1 .. N -> [Seq(Nat) -> Seq(Nat)]] /\ <<>> \in Seq(Nat)
  OBVIOUS
<1>2. PICK g : /\ g \in [D -> Seq(Nat)]
               /\ g[invalid] = <<>>
               /\ \A a \in 1 .. N : g[a] = F[a][g[next[a]]]
  <2>1. PICK V, v0 : V = Seq(Nat) /\ v0 = <<>>
    OBVIOUS
  <2>2. N \in Nat /\ Forward(next, N) /\ v0 \in V /\ F \in [1 .. N -> [V -> V]]
    BY <1>1, <2>1
  <2> HIDE DEF F
  <2>3. \E g : Recursive(g, next, N, V, v0, F)
    BY <2>2, RecursionDefined
  <2> QED
    BY <2>1, <2>3 DEF Recursive
<1>3. D = 1 .. N \union {invalid}
  BY DEF Forward
<1>4. \A a \in 1 .. N : a # invalid /\ next[a] \in D /\ g[a] = <<a>> \o g[next[a]]
  <2> SUFFICES ASSUME NEW a \in 1 .. N
               PROVE  a # invalid /\ next[a] \in D /\ g[a] = <<a>> \o g[next[a]]
    OBVIOUS
  <2>1. a # invalid /\ next[a] \in D
    BY <1>3 DEF Forward, invalid
  <2>2. g[next[a]] \in Seq(Nat)
    BY <1>2, <2>1
  <2> QED
    BY <1>2, <2>1, <2>2
<1>5. g = [a \in D |-> IF a = invalid THEN <<>> ELSE <<a>> \o g[next[a]]]
  <2> HIDE DEF F
  <2>1. \A a \in D : g[a] = IF a = invalid THEN <<>> ELSE <<a>> \o g[next[a]]
    BY <1>2, <1>3, <1>4
  <2> HIDE DEF D
  <2> QED
    BY <1>2, <2>1
<1> DEFINE from == CHOOSE f : f = [a \in DOMAIN next \union {invalid} |->
                                     IF a = invalid THEN <<>> ELSE <<a>> \o f[next[a]]]
<1>6. from = [a \in DOMAIN next \union {invalid} |->
                IF a = invalid THEN <<>> ELSE <<a>> \o from[next[a]]]
  BY <1>5
<1>7. \A head : Walk(next, head) = from[head]
  BY DEF Walk
<1> HIDE DEF from
<1>8. from[invalid] = <<>> /\ \A a \in 1 .. N : from[a] = <<a>> \o from[next[a]]
  <2>1. \A a \in 1 .. N : a \in DOMAIN next \union {invalid} /\ a # invalid
    BY DEF Forward, invalid
  <2> QED
    BY <1>6, <2>1
<1> QED
  BY <1>7, <1>8

\* w delivers the elements of S, each once, the older before the newer.
Lists(w, S) ==
  /\ w \in Seq(Nat)
  /\ \A i, j \in 1 .. Len(w) : i < j => w[i] < w[j]
  /\ {w[i] : i \in 1 .. Len(w)} = S

\* What the definition says of the single entries.
LEMMA ListsFields ==
  ASSUME NEW S \in SUBSET Nat, NEW w, Lists(w, S)
  PROVE  /\ w \in Seq(Nat) /\ Len(w) \in Nat
         /\ \A i \in 1 .. Len(w) : w[i] \in S /\ w[i] \in Nat
         /\ \A i, j \in 1 .. Len(w) : i < j => w[i] < w[j]
         /\ \A a \in S : \E i \in 1 .. Len(w) : w[i] = a
<1>1. w \in Seq(Nat) /\ \A i, j \in 1 .. Len(w) : i < j => w[i] < w[j]
  BY DEF Lists
<1>2. {w[i] : i \in 1 .. Len(w)} = S
  BY DEF Lists
<1>3. Len(w) \in Nat /\ \A i \in 1 .. Len(w) : w[i] \in Nat
  BY <1>1
<1>4. \A i \in 1 .. Len(w) : w[i] \in S
  BY <1>2
<1>5. \A a \in S : \E i \in 1 .. Len(w) : w[i] = a
  BY <1>2
<1> QED
  BY <1>1, <1>3, <1>4, <1>5

\* An element in front of a list of newer ones.
LEMMA ConsLists ==
  ASSUME NEW w, NEW S \in SUBSET Nat, Lists(w, S), NEW a \in Nat, \A b \in S : a < b
  PROVE  Lists(<<a>> \o w, {a} \union S)
<1> PICK v : v = <<a>> \o w
  OBVIOUS
<1>1. /\ w \in Seq(Nat) /\ Len(w) \in Nat
      /\ v \in Seq(Nat) /\ Len(v) = Len(w) + 1 /\ v[1] = a
      /\ \A i \in 2 .. Len(v) : i - 1 \in 1 .. Len(w) /\ v[i] = w[i - 1]
  BY DEF Lists
<1>2. \A i \in 1 .. Len(w) : w[i] \in S /\ i + 1 \in 2 .. Len(v) /\ v[i + 1] = w[i]
  BY <1>1 DEF Lists
<1>3. ASSUME NEW i \in 1 .. Len(v), NEW j \in 1 .. Len(v), i < j PROVE v[i] < v[j]
  <2>1. j \in 2 .. Len(v) /\ v[j] = w[j - 1] /\ j - 1 \in 1 .. Len(w)
    BY <1>1, <1>3
  <2>2. CASE i = 1
    BY <2>1, <2>2, <1>1, <1>2
  <2>3. CASE i # 1
    <3>1. i - 1 \in 1 .. Len(w) /\ v[i] = w[i - 1] /\ i - 1 < j - 1
      BY <2>3, <1>1, <1>3
    <3> QED
      BY <3>1, <2>1 DEF Lists
  <2> QED
    BY <2>2, <2>3
<1>4. {v[i] : i \in 1 .. Len(v)} = {a} \union S
  <2>1. ASSUME NEW i \in 1 .. Len(v) PROVE v[i] \in {a} \union S
    <3>1. i = 1 \/ i \in 2 .. Len(v)
      BY <1>1
    <3> QED
      BY <3>1, <1>1, <1>2
  <2>2. ASSUME NEW b \in {a} \union S PROVE \E i \in 1 .. Len(v) : v[i] = b
    <3>1. CASE b = a
      BY <3>1, <1>1
    <3>2. CASE b \in S
      <4>1. PICK i \in 1 .. Len(w) : w[i] = b
        BY <3>2 DEF Lists
      <4> QED
        BY <4>1, <1>2
    <3> QED
      BY <3>1, <3>2
  <2> QED
    BY <2>1, <2>2
<1> QED
  BY <1>1, <1>3, <1>4 DEF Lists

\* The suffixes of a list, cut at an element and at its successor.
LEMMA SuffixStep ==
  ASSUME NEW S \in SUBSET Nat, NEW id \in S,
         NEW next \in Nat, next # invalid, IsNext(S, id, next)
  PROVE  /\ {a \in S : id <= a} = {id} \union {a \in S : next <= a}
         /\ \A a \in {c \in S : next <= c} : id < a
<1>1. next \in S /\ id < next /\ \A c \in S : id < c => next <= c
  BY DEF IsNext
<1>2. ASSUME NEW a \in S PROVE id <= a <=> (a = id \/ next <= a)
  BY <1>1
<1>3. ASSUME NEW a \in S, next <= a PROVE id < a
  BY <1>1, <1>3
<1> QED
  BY <1>2, <1>3

\* The suffix that starts at an element without a successor.
LEMMA SuffixEnd ==
  ASSUME NEW S \in SUBSET Nat, NEW id \in S, IsNext(S, id, invalid)
  PROVE  {a \in S : id <= a} = {id} \union {}
<1>1. \A c \in S : c <= id
  BY DEF IsNext
<1>2. ASSUME NEW a \in S PROVE id <= a <=> a = id
  BY <1>1
<1> QED
  BY <1>2

\* An appended element makes the list longer by it.
LEMMA AppendLists ==
  ASSUME NEW w, NEW S \in SUBSET Nat, Lists(w, S), NEW id \in Nat, \A a \in S : a < id
  PROVE  Lists(Append(w, id), S \union {id})
<1>1. w \in Seq(Nat) /\ {w[i] : i \in 1 .. Len(w)} = S
  BY DEF Lists
<1>2. \A i \in 1 .. Len(w) : w[i] < id
  BY <1>1
<1>3. PICK v : v = Append(w, id)
  OBVIOUS
<1>4. v \in Seq(Nat)
  BY <1>1, <1>3
<1>5. /\ {v[i] : i \in 1 .. Len(v)} = S \union {id}
      /\ \A i, j \in 1 .. Len(v) : i < j => v[i] < v[j]
  BY <1>1, <1>2, <1>3, AppendSeen DEF Lists
<1> QED
  BY <1>3, <1>4, <1>5 DEF Lists

\* There is one way to deliver a set: first, no delivery is longer.
LEMMA ListsAgree ==
  ASSUME NEW S \in SUBSET Nat, NEW v, Lists(v, S), NEW w, Lists(w, S)
  PROVE  Len(v) <= Len(w) /\ \A i \in 1 .. Len(v) : v[i] = w[i]
<1> DEFINE Good == {k \in 0 .. Len(v) : k <= Len(w) /\ \A i \in 1 .. k : v[i] = w[i]}
<1>1. /\ Len(v) \in Nat /\ Len(w) \in Nat
      /\ \A i \in 1 .. Len(v) : v[i] \in S /\ v[i] \in Nat
      /\ \A i \in 1 .. Len(w) : w[i] \in S /\ w[i] \in Nat
      /\ \A i, j \in 1 .. Len(v) : i < j => v[i] < v[j]
      /\ \A i, j \in 1 .. Len(w) : i < j => w[i] < w[j]
  BY ListsFields
<1>2. 0 \in Good
  BY <1>1
<1>3. ASSUME NEW k \in 1 .. Len(v), k - 1 \in Good PROVE k \in Good
  <2>1. k - 1 <= Len(w) /\ \A i \in 1 .. k - 1 : v[i] = w[i]
    BY <1>3
  <2>2. PICK i \in 1 .. Len(w) : w[i] = v[k]
    BY <1>1 DEF Lists
  <2>3. i >= k
    <3>1. ASSUME i < k PROVE FALSE
      <4>1. i \in 1 .. k - 1 /\ i \in 1 .. Len(v)
        BY <1>1, <3>1
      <4>2. v[i] = v[k] /\ v[i] < v[k] /\ v[k] \in Nat
        BY <1>1, <2>1, <2>2, <3>1, <4>1
      <4> QED
        BY <4>2
    <3> QED
      BY <3>1, <1>1
  <2>4. k \in 1 .. Len(w)
    BY <1>1, <2>3
  <2>5. PICK j \in 1 .. Len(v) : v[j] = w[k]
    BY <1>1, <2>4 DEF Lists
  <2>6. j >= k
    <3>1. ASSUME j < k PROVE FALSE
      <4>1. j \in 1 .. k - 1 /\ j \in 1 .. Len(w)
        BY <1>1, <2>4, <3>1
      <4>2. w[j] = w[k] /\ w[j] < w[k] /\ w[k] \in Nat
        BY <1>1, <2>1, <2>4, <2>5, <3>1, <4>1
      <4> QED
        BY <4>2
    <3> QED
      BY <3>1, <1>1
  <2>7. v[k] <= v[j] /\ w[k] <= w[i] /\ v[k] \in Nat /\ w[k] \in Nat
    BY <1>1, <2>3, <2>4, <2>6
  <2>8. v[k] = w[k]
    BY <2>2, <2>5, <2>7
  <2>9. \A n \in 1 .. k : n = k \/ n \in 1 .. k - 1
    OBVIOUS
  <2> QED
    BY <1>1, <2>1, <2>4, <2>8, <2>9
<1>4. \A k \in 0 .. Len(v) : k \in Good
  <2> HIDE DEF Good
  <2>1. Len(v) \in Nat
    BY <1>1
  <2> QED
    BY <1>2, <1>3, <2>1, SetInduction
<1>5. Len(v) \in Good
  BY <1>1, <1>4
<1> QED
  BY <1>5

\* So there is only one.
LEMMA ListsUnique ==
  ASSUME NEW S \in SUBSET Nat, NEW v, Lists(v, S), NEW w, Lists(w, S)
  PROVE  v = w
<1>1. v \in Seq(Nat) /\ w \in Seq(Nat)
  BY DEF Lists
<1>2. Len(v) <= Len(w) /\ Len(w) <= Len(v) /\ \A i \in 1 .. Len(v) : v[i] = w[i]
  BY ListsAgree
<1> QED
  BY <1>1, <1>2

\* Where an element is in the delivery of its list: right behind the ones before
\* it, and at the end when it is the newest.
LEMMA ListsPosition ==
  ASSUME NEW S \in SUBSET Nat, NEW w, Lists(w, S), NEW id \in S,
         NEW p, Lists(p, {a \in S : a < id})
  PROVE  /\ Len(p) \in Nat /\ Len(w) \in Nat /\ Len(p) < Len(w)
         /\ (\A a \in S : a <= id) <=> Len(p) + 1 = Len(w)
<1>1. /\ Len(w) \in Nat /\ w \in Seq(Nat)
      /\ \A i \in 1 .. Len(w) : w[i] \in S /\ w[i] \in Nat
      /\ \A i, j \in 1 .. Len(w) : i < j => w[i] < w[j]
      /\ \A a \in S : \E i \in 1 .. Len(w) : w[i] = a
  BY ListsFields
<1>2. PICK k \in 1 .. Len(w) : w[k] = id
  BY <1>1
<1>3. PICK q : q = SubSeq(w, 1, k - 1)
  OBVIOUS
<1>4. /\ q \in Seq(Nat) /\ Len(q) = k - 1
      /\ \A i \in 1 .. k - 1 : q[i] = w[i] /\ i \in 1 .. Len(w)
  BY <1>1, <1>3
<1>5. \A i \in 1 .. Len(w) : w[i] < id <=> i < k
  <2>1. ASSUME NEW i \in 1 .. Len(w) PROVE w[i] < id <=> i < k
    <3>1. i < k => w[i] < w[k]
      BY <1>1
    <3>2. k < i => w[k] < w[i]
      BY <1>1
    <3>3. w[i] \in Nat /\ w[k] \in Nat /\ i \in Nat /\ k \in Nat
      BY <1>1
    <3> QED
      BY <1>2, <3>1, <3>2, <3>3
  <2> QED
    BY <2>1
<1>6. {q[i] : i \in 1 .. Len(q)} = {a \in S : a < id}
  <2>1. ASSUME NEW i \in 1 .. Len(q) PROVE q[i] \in {a \in S : a < id}
    <3>1. i \in 1 .. k - 1 /\ i \in 1 .. Len(w) /\ i < k /\ q[i] = w[i]
      BY <1>4
    <3>2. w[i] \in S /\ w[i] < id
      BY <1>1, <1>5, <3>1
    <3> QED
      BY <3>1, <3>2
  <2>2. ASSUME NEW a \in S, a < id PROVE \E i \in 1 .. Len(q) : q[i] = a
    <3>1. PICK i \in 1 .. Len(w) : w[i] = a
      BY <1>1
    <3>2. i \in 1 .. k - 1
      BY <1>1, <1>5, <2>2, <3>1
    <3> QED
      BY <1>4, <3>1, <3>2
  <2> QED
    BY <2>1, <2>2
<1>7. \A i, j \in 1 .. Len(q) : i < j => q[i] < q[j]
  BY <1>1, <1>4
<1>8. Lists(q, {a \in S : a < id})
  BY <1>4, <1>6, <1>7 DEF Lists
<1>9. q = p
  <2>1. {a \in S : a < id} \in SUBSET Nat
    OBVIOUS
  <2> QED
    BY <1>8, <2>1, ListsUnique
<1>10. (\A a \in S : a <= id) <=> k = Len(w)
  <2>1. CASE k = Len(w)
    <3>1. ASSUME NEW a \in S PROVE a <= id
      <4>1. PICK i \in 1 .. Len(w) : w[i] = a
        BY <1>1
      <4>2. i = k \/ i < k
        BY <1>1, <2>1
      <4>3. a \in Nat /\ id \in Nat
        OBVIOUS
      <4> QED
        BY <1>2, <1>5, <4>1, <4>2, <4>3
    <3> QED
      BY <2>1, <3>1
  <2>2. CASE k # Len(w)
    <3>1. k + 1 \in 1 .. Len(w) /\ k < k + 1
      BY <1>1, <2>2
    <3>2. w[k + 1] \in S /\ id < w[k + 1] /\ w[k + 1] \in Nat /\ id \in Nat
      BY <1>1, <1>2, <3>1
    <3> QED
      BY <2>2, <3>2
  <2> QED
    BY <2>1, <2>2
<1> QED
  BY <1>1, <1>4, <1>9, <1>10

\* A walk over a list delivers the list, from the head to the end.
LEMMA WalkLists ==
  ASSUME NEW N \in Nat, NEW next, Forward(next, N),
         NEW S \in SUBSET (1 .. N), \A a \in S : IsNext(S, a, next[a]),
         NEW head, NEW tail, NEW size, ListEnds(S, head, tail, size)
  PROVE  Lists(Walk(next, head), S)
<1>1. PICK from : /\ from[invalid] = <<>>
                  /\ \A a \in 1 .. N : from[a] = <<a>> \o from[next[a]]
                  /\ \A h : Walk(next, h) = from[h]
  BY WalkUnfolds
<1> DEFINE From(b) == {a \in S : b <= a}
           Good == {b \in S : Lists(from[b], From(b))}
<1>2. S \in SUBSET Nat /\ Lists(<<>>, {})
  BY DEF Lists
<1>3. ASSUME NEW b \in S, NEW nx, nx = next[b], nx = invalid \/ nx \in S \cap Good
      PROVE  b \in Good
  <2>1. b \in Nat /\ IsNext(S, b, nx) /\ from[b] = <<b>> \o from[nx]
    BY <1>1, <1>3
  <2>2. CASE nx = invalid
    <3>1. From(b) = {b} \union {}
      BY <1>2, <2>1, <2>2, SuffixEnd
    <3>2. Lists(<<b>> \o <<>>, {b} \union {})
      BY <1>2, <2>1, ConsLists
    <3> QED
      BY <1>1, <2>1, <2>2, <3>1, <3>2
  <2>3. CASE nx # invalid
    <3>1. nx \in Nat
      <4> HIDE DEF Good
      <4> QED
        BY <1>2, <1>3, <2>3
    <3>2. /\ From(b) = {b} \union From(nx) /\ From(nx) \in SUBSET Nat
          /\ \A a \in From(nx) : b < a
      BY <1>2, <2>1, <2>3, <3>1, SuffixStep
    <3>3. Lists(from[nx], From(nx))
      <4> HIDE DEF From
      <4> QED
        BY <1>3, <2>3
    <3>4. Lists(<<b>> \o from[nx], {b} \union From(nx))
      <4> HIDE DEF From
      <4> QED
        BY <2>1, <3>2, <3>3, ConsLists
    <3> QED
      BY <2>1, <3>2, <3>4
  <2> QED
    BY <2>2, <2>3
<1>4. S \subseteq Good
  <2> HIDE DEF Good
  <2>1. \A b \in S : next[b] = invalid \/ next[b] \in S \cap Good => b \in Good
    BY <1>3
  <2> QED
    BY <2>1, ListInduction
<1>5. CASE S = {}
  BY <1>1, <1>2, <1>5 DEF ListEnds
<1>6. CASE S # {}
  <2>1. head \in S /\ From(head) = S
    BY <1>6 DEF ListEnds
  <2> QED
    BY <1>1, <1>4, <2>1
<1> QED
  BY <1>5, <1>6

---------------------------------------------------------------------------
(***************************************************************************)
(* A list by position: how long it is, where it starts, and what follows.  *)
(***************************************************************************)
LEMMA ListsLength ==
  ASSUME NEW S \in SUBSET Nat, NEW w, Lists(w, S)
  PROVE  Cardinality(S) = Len(w)
<1>1. /\ Len(w) \in Nat /\ \A i \in 1 .. Len(w) : w[i] \in S /\ w[i] \in Nat
      /\ \A i, j \in 1 .. Len(w) : i < j => w[i] < w[j]
      /\ \A a \in S : \E i \in 1 .. Len(w) : w[i] = a
  BY ListsFields
<1> DEFINE f == [i \in 1 .. Len(w) |-> w[i]]
<1>2. f \in [1 .. Len(w) -> S]
  BY <1>1
<1>3. \A i, j \in 1 .. Len(w) : f[i] = f[j] => i = j
  <2> SUFFICES ASSUME NEW i \in 1 .. Len(w), NEW j \in 1 .. Len(w), f[i] = f[j] PROVE i = j
    OBVIOUS
  <2>1. i < j \/ j < i \/ i = j
    BY <1>1
  <2>2. w[i] = w[j] /\ w[i] \in Nat /\ w[j] \in Nat
    BY <1>1
  <2> QED
    BY <1>1, <2>1, <2>2
<1>4. \A a \in S : \E i \in 1 .. Len(w) : f[i] = a
  BY <1>1
<1> HIDE DEF f
<1>5. f \in Bijection(1 .. Len(w), S)
  BY <1>2, <1>3, <1>4 DEF Bijection, Injection, Surjection, IsInjective
<1>6. ExistsBijection(1 .. Len(w), S)
  BY <1>5 DEF ExistsBijection
<1> QED
  BY <1>1, <1>6, FS_CountingElements

\* The first of a list, and its length, are what its owner has.
LEMMA ListsHead ==
  ASSUME NEW S \in SUBSET (Nat \ {0}), NEW w, Lists(w, S),
         NEW head, NEW tail, NEW size, ListEnds(S, head, tail, size)
  PROVE  /\ head = IF Len(w) = 0 THEN invalid ELSE w[1]
         /\ size = Len(w)
<1>1. /\ Len(w) \in Nat /\ \A i \in 1 .. Len(w) : w[i] \in S /\ w[i] \in Nat
      /\ \A i, j \in 1 .. Len(w) : i < j => w[i] < w[j]
      /\ \A a \in S : \E i \in 1 .. Len(w) : w[i] = a
  BY ListsFields
<1>2. size = Len(w)
  BY ListsLength DEF ListEnds
<1>3. CASE Len(w) = 0
  <2>1. S = {}
    BY <1>1, <1>3
  <2> QED
    BY <1>2, <1>3, <2>1 DEF ListEnds
<1>4. CASE Len(w) # 0
  <2>1. 1 \in 1 .. Len(w) /\ w[1] \in S
    BY <1>1, <1>4
  <2>2. head \in S /\ head <= w[1]
    BY <2>1 DEF ListEnds
  <2>3. PICK i \in 1 .. Len(w) : w[i] = head
    BY <1>1, <2>2
  <2>4. i = 1 \/ w[1] < w[i]
    BY <1>1, <2>1
  <2>5. head = w[1]
    BY <1>1, <2>1, <2>2, <2>3, <2>4
  <2> QED
    BY <1>2, <1>4, <2>5
<1> QED
  BY <1>3, <1>4

\* The successor in the list is the one after it.
LEMMA ListsNext ==
  ASSUME NEW S \in SUBSET (Nat \ {0}), NEW w, Lists(w, S), NEW i \in 1 .. Len(w),
         NEW next, IsNext(S, w[i], next)
  PROVE  next = IF i < Len(w) THEN w[i + 1] ELSE invalid
<1>1. /\ Len(w) \in Nat /\ \A k \in 1 .. Len(w) : w[k] \in S /\ w[k] \in Nat
      /\ \A j, k \in 1 .. Len(w) : j < k => w[j] < w[k]
      /\ \A a \in S : \E k \in 1 .. Len(w) : w[k] = a
  BY ListsFields
<1>2. CASE next = invalid
  <2>1. \A c \in S : c <= w[i]
    BY <1>2 DEF IsNext
  <2>2. ~ i < Len(w)
    <3> SUFFICES ASSUME i < Len(w) PROVE FALSE
      OBVIOUS
    <3>1. i + 1 \in 1 .. Len(w) /\ i < i + 1
      BY <1>1
    <3>2. w[i] < w[i + 1] /\ w[i + 1] \in S /\ w[i + 1] \in Nat /\ w[i] \in Nat
      BY <1>1, <3>1
    <3> QED
      BY <2>1, <3>2
  <2> QED
    BY <1>2, <2>2
<1>3. CASE next # invalid
  <2>1. next \in S /\ w[i] < next /\ \A c \in S : w[i] < c => next <= c
    BY <1>3 DEF IsNext
  <2>2. PICK k \in 1 .. Len(w) : w[k] = next
    BY <1>1, <2>1
  <2>3. i < k
    <3>1. k < i => w[k] < w[i]
      BY <1>1
    <3>2. k \in Nat /\ i \in Nat /\ w[k] \in Nat /\ w[i] \in Nat
      BY <1>1
    <3> QED
      BY <2>1, <2>2, <3>1, <3>2
  <2>4. i + 1 \in 1 .. Len(w) /\ i < i + 1 /\ i < Len(w)
    BY <1>1, <2>3
  <2>5. w[i] < w[i + 1] /\ w[i + 1] \in S /\ w[i + 1] \in Nat
    BY <1>1, <2>4
  <2>6. next <= w[i + 1]
    BY <2>1, <2>5
  <2>7. k = i + 1 \/ w[i + 1] < w[k]
    BY <1>1, <2>3, <2>4
  <2> QED
    BY <1>1, <2>2, <2>4, <2>5, <2>6, <2>7
<1> QED
  BY <1>2, <1>3

---------------------------------------------------------------------------
(***************************************************************************)
(* The queue and the stack of the functions that walk a tree.              *)
(***************************************************************************)
Entries(q) == {q[i] : i \in 1 .. Len(q)}
NoneTwice(q) == \A i, j \in 1 .. Len(q) : i # j => q[i] # q[j]

\* r is q and an entry more, x, at either end.
Extends(r, q, x, S) ==
  /\ r \in Seq(S) /\ r # <<>> /\ q \in Seq(S) /\ x \in S
  /\ Entries(r) = Entries(q) \union {x}
  /\ NoneTwice(r) <=> NoneTwice(q) /\ x \notin Entries(q)

\* push_back.
LEMMA Pushed ==
  ASSUME NEW S, NEW q \in Seq(S), NEW x \in S, NEW r, r = Append(q, x)
  PROVE  Extends(r, q, x, S)
<1>1. /\ r \in Seq(S) /\ Len(q) \in Nat /\ Len(r) = Len(q) + 1
      /\ r[Len(r)] = x /\ \A i \in 1 .. Len(q) : r[i] = q[i]
  OBVIOUS
<1>2. 1 .. Len(r) = (1 .. Len(q)) \union {Len(r)} /\ Len(r) \notin 1 .. Len(q)
  BY <1>1
<1>3. Entries(r) = Entries(q) \union {x}
  BY <1>1, <1>2 DEF Entries
<1>4. ASSUME NoneTwice(q), x \notin Entries(q) PROVE NoneTwice(r)
  <2> SUFFICES ASSUME NEW i \in 1 .. Len(r), NEW j \in 1 .. Len(r), i # j
               PROVE  r[i] # r[j]
    BY DEF NoneTwice
  <2>1. CASE i \in 1 .. Len(q) /\ j \in 1 .. Len(q)
    BY <1>1, <1>4, <2>1 DEF NoneTwice
  <2>2. CASE i = Len(r) \/ j = Len(r)
    BY <1>1, <1>2, <1>4, <2>2 DEF Entries
  <2> QED
    BY <1>2, <2>1, <2>2
<1>5. ASSUME NoneTwice(r) PROVE NoneTwice(q) /\ x \notin Entries(q)
  BY <1>1, <1>2, <1>5 DEF NoneTwice, Entries
<1>6. r # <<>>
  BY <1>1
<1> QED
  BY <1>1, <1>3, <1>4, <1>5, <1>6 DEF Extends

\* back and pop_back.
LEMMA PoppedBack ==
  ASSUME NEW S, NEW q \in Seq(S), q # <<>>,
         NEW x, x = q[Len(q)], NEW r, r = SubSeq(q, 1, Len(q) - 1)
  PROVE  Extends(q, r, x, S)
<1>1. PICK n : n = Len(q) - 1
  OBVIOUS
<1>2. n \in Nat /\ Len(q) = n + 1 /\ x \in S
  BY <1>1
<1>3. r \in Seq(S) /\ Len(r) = n /\ \A i \in 1 .. n : r[i] = q[i]
  BY <1>1, <1>2
<1>4. q = Append(r, x)
  BY <1>2, <1>3
<1> QED
  BY <1>2, <1>3, <1>4, Pushed

\* front and pop_front.
LEMMA PoppedFront ==
  ASSUME NEW S, NEW q \in Seq(S), q # <<>>, NEW x, x = Head(q), NEW r, r = Tail(q)
  PROVE  Extends(q, r, x, S)
<1>1. /\ Len(q) \in Nat \ {0} /\ 1 \in 1 .. Len(q) /\ x \in S /\ x = q[1]
      /\ r \in Seq(S) /\ Len(r) = Len(q) - 1
      /\ \A i \in 1 .. Len(r) : i + 1 \in 1 .. Len(q) /\ i + 1 # 1 /\ r[i] = q[i + 1]
  OBVIOUS
<1>2. \A j \in 1 .. Len(q) : j = 1 \/ (j - 1 \in 1 .. Len(r) /\ q[j] = r[j - 1])
  BY <1>1
<1>3. Entries(q) = Entries(r) \union {x}
  <2>1. ASSUME NEW y \in Entries(q) PROVE y \in Entries(r) \union {x}
    BY <1>1, <1>2 DEF Entries
  <2>2. ASSUME NEW y \in Entries(r) \union {x} PROVE y \in Entries(q)
    BY <1>1 DEF Entries
  <2> QED
    BY <2>1, <2>2
<1>4. ASSUME NoneTwice(q) PROVE NoneTwice(r) /\ x \notin Entries(r)
  <2>1. x \notin Entries(r)
    BY <1>1, <1>4 DEF NoneTwice, Entries
  <2>2. ASSUME NEW i \in 1 .. Len(r), NEW j \in 1 .. Len(r), i # j PROVE r[i] # r[j]
    <3>1. i + 1 # j + 1
      BY <2>2
    <3> QED
      BY <1>1, <1>4, <3>1 DEF NoneTwice
  <2> QED
    BY <2>1, <2>2 DEF NoneTwice
<1>5. ASSUME NoneTwice(r), x \notin Entries(r) PROVE NoneTwice(q)
  <2> SUFFICES ASSUME NEW i \in 1 .. Len(q), NEW j \in 1 .. Len(q), i # j
               PROVE  q[i] # q[j]
    BY DEF NoneTwice
  <2>1. CASE i = 1 \/ j = 1
    <3>1. PICK k \in 1 .. Len(q) : k # 1 /\ {q[i], q[j]} = {x, q[k]}
      BY <1>1, <2>1
    <3>2. q[k] \in Entries(r)
      BY <1>2, <3>1 DEF Entries
    <3> QED
      BY <1>5, <3>1, <3>2
  <2>2. CASE i # 1 /\ j # 1
    <3>1. i - 1 # j - 1
      OBVIOUS
    <3> QED
      BY <1>2, <1>5, <2>2, <3>1 DEF NoneTwice
  <2> QED
    BY <2>1, <2>2
<1> QED
  BY <1>1, <1>3, <1>4, <1>5 DEF Extends

---------------------------------------------------------------------------

\* The elements of a tree value have the fields of the code, each in its type.
LEMMA TreeFields ==
  ASSUME NEW D, NEW T \in TreeValue(D)
  PROVE  /\ T.arcs \in Seq(Arc(D)) /\ T.nodes \in Seq(Node(D))
         /\ Len(T.arcs) \in Nat /\ Len(T.nodes) \in Nat
         /\ \A a \in ArcIDs(T) :
              /\ T.arcs[a] \in Arc(D)
              /\ T.arcs[a].source \in Nat /\ T.arcs[a].target \in Nat
              /\ T.arcs[a].next_in \in Nat /\ T.arcs[a].next_out \in Nat
         /\ \A n \in NodeIDs(T) :
              /\ T.nodes[n] \in Node(D)
              /\ T.nodes[n].head_in \in Nat /\ T.nodes[n].head_out \in Nat
              /\ T.nodes[n].tail_in \in Nat /\ T.nodes[n].tail_out \in Nat
              /\ T.nodes[n].in_size \in Nat /\ T.nodes[n].out_size \in Nat
<1>1. T.arcs \in Seq(Arc(D)) /\ T.nodes \in Seq(Node(D))
  BY DEF TreeValue
<1>2. /\ Len(T.arcs) \in Nat /\ Len(T.nodes) \in Nat
      /\ \A a \in ArcIDs(T) : T.arcs[a] \in Arc(D)
      /\ \A n \in NodeIDs(T) : T.nodes[n] \in Node(D)
  BY <1>1 DEF ArcIDs, NodeIDs
<1> QED
  BY <1>1, <1>2 DEF Arc, Node

(***************************************************************************)
(* What each half of addArc writes, field by field.                        *)
(***************************************************************************)
LEMMA WithOutWrites ==
  ASSUME NEW D, NEW n \in Node(D), NEW id \in Nat
  PROVE  /\ withOut(n, id) \in Node(D)
         /\ withOut(n, id).head_in = n.head_in /\ withOut(n, id).tail_in = n.tail_in
         /\ withOut(n, id).in_size = n.in_size /\ withOut(n, id).data = n.data
         /\ withOut(n, id).head_out = IF n.head_out = invalid THEN id ELSE n.head_out
         /\ withOut(n, id).tail_out = id /\ withOut(n, id).out_size = n.out_size + 1
<1>1. PICK head \in Nat : head = IF n.head_out = invalid THEN id ELSE n.head_out
  BY DEF Node
<1>2. PICK size \in Nat : size = n.out_size + 1
  BY DEF Node
<1>3. withOut(n, id) = [n EXCEPT !.head_out = head, !.tail_out = id, !.out_size = size]
  BY ONLY <1>1, <1>2 DEF withOut
<1>4. [n EXCEPT !.head_out = head, !.tail_out = id, !.out_size = size] \in Node(D)
  BY DEF Node
<1> QED
  BY <1>1, <1>2, <1>3, <1>4 DEF Node

\* Likewise, a node that gets a new in-arc keeps its out-list.
LEMMA WithInWrites ==
  ASSUME NEW D, NEW n \in Node(D), NEW id \in Nat
  PROVE  /\ withIn(n, id) \in Node(D)
         /\ withIn(n, id).head_out = n.head_out /\ withIn(n, id).tail_out = n.tail_out
         /\ withIn(n, id).out_size = n.out_size /\ withIn(n, id).data = n.data
         /\ withIn(n, id).head_in = IF n.head_in = invalid THEN id ELSE n.head_in
         /\ withIn(n, id).tail_in = id /\ withIn(n, id).in_size = n.in_size + 1
<1>1. PICK head \in Nat : head = IF n.head_in = invalid THEN id ELSE n.head_in
  BY DEF Node
<1>2. PICK size \in Nat : size = n.in_size + 1
  BY DEF Node
<1>3. withIn(n, id) = [n EXCEPT !.head_in = head, !.tail_in = id, !.in_size = size]
  BY ONLY <1>1, <1>2 DEF withIn
<1>4. [n EXCEPT !.head_in = head, !.tail_in = id, !.in_size = size] \in Node(D)
  BY DEF Node
<1> QED
  BY <1>1, <1>2, <1>3, <1>4 DEF Node

\* What the out-half of addArc writes: the out-list of the source and the
\* next_out of its tail, and nothing else.
LEMMA LinkOutWrites ==
  ASSUME NEW D, NEW T \in TreeValue(D), NEW s \in NodeIDs(T), NEW id \in Nat,
         T.nodes[s].head_out # invalid => T.nodes[s].tail_out \in ArcIDs(T),
         NEW U, U = linkOut(T, s, id)
  PROVE  /\ U \in TreeValue(D)
         /\ Len(U.arcs) = Len(T.arcs) /\ Len(U.nodes) = Len(T.nodes)
         /\ \A a \in ArcIDs(T) :
              /\ U.arcs[a].source = T.arcs[a].source
              /\ U.arcs[a].target = T.arcs[a].target
              /\ U.arcs[a].data = T.arcs[a].data
              /\ U.arcs[a].next_in = T.arcs[a].next_in
              /\ U.arcs[a].next_out =
                   IF T.nodes[s].head_out # invalid /\ a = T.nodes[s].tail_out
                   THEN id ELSE T.arcs[a].next_out
         /\ \A n \in NodeIDs(T) : n # s => U.nodes[n] = T.nodes[n]
         /\ U.nodes[s] = withOut(T.nodes[s], id)
<1> DEFINE tail == T.nodes[s].tail_out
<1>1. /\ T.arcs \in Seq(Arc(D)) /\ T.nodes \in Seq(Node(D))
      /\ \A a \in ArcIDs(T) : T.arcs[a] \in Arc(D)
      /\ \A n \in NodeIDs(T) : T.nodes[n] \in Node(D)
  BY DEF TreeValue, ArcIDs, NodeIDs
<1>2. \A a \in ArcIDs(T) :
        /\ withNextOut(T.arcs[a], id) \in Arc(D)
        /\ withNextOut(T.arcs[a], id).next_out = id
        /\ withNextOut(T.arcs[a], id).next_in = T.arcs[a].next_in
        /\ withNextOut(T.arcs[a], id).source = T.arcs[a].source
        /\ withNextOut(T.arcs[a], id).target = T.arcs[a].target
        /\ withNextOut(T.arcs[a], id).data = T.arcs[a].data
  BY <1>1 DEF Arc, withNextOut
<1>3. /\ U.arcs \in Seq(Arc(D)) /\ Len(U.arcs) = Len(T.arcs)
      /\ \A a \in ArcIDs(T) :
           U.arcs[a] = IF T.nodes[s].head_out # invalid /\ a = tail
                       THEN withNextOut(T.arcs[a], id) ELSE T.arcs[a]
  <2>1. CASE T.nodes[s].head_out = invalid
    BY <1>1, <2>1 DEF linkOut
  <2>2. CASE T.nodes[s].head_out # invalid
    <3>1. U.arcs = [T.arcs EXCEPT ![tail] = withNextOut(T.arcs[tail], id)]
      BY <2>2 DEF linkOut
    <3> QED
      BY <1>1, <1>2, <2>2, <3>1 DEF ArcIDs
  <2> QED
    BY <2>1, <2>2
<1>4. /\ U.nodes \in Seq(Node(D)) /\ Len(U.nodes) = Len(T.nodes)
      /\ \A n \in NodeIDs(T) : n # s => U.nodes[n] = T.nodes[n]
      /\ U.nodes[s] = withOut(T.nodes[s], id)
  <2>1. withOut(T.nodes[s], id) \in Node(D)
    BY <1>1, WithOutWrites
  <2>2. U.nodes = [T.nodes EXCEPT ![s] = withOut(T.nodes[s], id)]
    BY DEF linkOut
  <2> QED
    BY <1>1, <2>1, <2>2 DEF NodeIDs
<1>5. U \in TreeValue(D)
  BY <1>3, <1>4 DEF linkOut, TreeValue
<1>6. \A a \in ArcIDs(T) :
        /\ U.arcs[a].source = T.arcs[a].source
        /\ U.arcs[a].target = T.arcs[a].target
        /\ U.arcs[a].data = T.arcs[a].data
        /\ U.arcs[a].next_in = T.arcs[a].next_in
        /\ U.arcs[a].next_out = IF T.nodes[s].head_out # invalid /\ a = tail
                                THEN id ELSE T.arcs[a].next_out
  BY <1>2, <1>3
<1> QED
  BY <1>3, <1>4, <1>5, <1>6

\* What the in-half of addArc writes: the in-list of the target and the
\* next_in of its tail, and nothing else.
LEMMA LinkInWrites ==
  ASSUME NEW D, NEW T \in TreeValue(D), NEW t \in NodeIDs(T), NEW id \in Nat,
         T.nodes[t].head_in # invalid => T.nodes[t].tail_in \in ArcIDs(T),
         NEW U, U = linkIn(T, t, id)
  PROVE  /\ U \in TreeValue(D)
         /\ Len(U.arcs) = Len(T.arcs) /\ Len(U.nodes) = Len(T.nodes)
         /\ \A a \in ArcIDs(T) :
              /\ U.arcs[a].source = T.arcs[a].source
              /\ U.arcs[a].target = T.arcs[a].target
              /\ U.arcs[a].data = T.arcs[a].data
              /\ U.arcs[a].next_out = T.arcs[a].next_out
              /\ U.arcs[a].next_in =
                   IF T.nodes[t].head_in # invalid /\ a = T.nodes[t].tail_in
                   THEN id ELSE T.arcs[a].next_in
         /\ \A n \in NodeIDs(T) : n # t => U.nodes[n] = T.nodes[n]
         /\ U.nodes[t] = withIn(T.nodes[t], id)
<1> DEFINE tail == T.nodes[t].tail_in
<1>1. /\ T.arcs \in Seq(Arc(D)) /\ T.nodes \in Seq(Node(D))
      /\ \A a \in ArcIDs(T) : T.arcs[a] \in Arc(D)
      /\ \A n \in NodeIDs(T) : T.nodes[n] \in Node(D)
  BY DEF TreeValue, ArcIDs, NodeIDs
<1>2. \A a \in ArcIDs(T) :
        /\ withNextIn(T.arcs[a], id) \in Arc(D)
        /\ withNextIn(T.arcs[a], id).next_in = id
        /\ withNextIn(T.arcs[a], id).next_out = T.arcs[a].next_out
        /\ withNextIn(T.arcs[a], id).source = T.arcs[a].source
        /\ withNextIn(T.arcs[a], id).target = T.arcs[a].target
        /\ withNextIn(T.arcs[a], id).data = T.arcs[a].data
  BY <1>1 DEF Arc, withNextIn
<1>3. /\ U.arcs \in Seq(Arc(D)) /\ Len(U.arcs) = Len(T.arcs)
      /\ \A a \in ArcIDs(T) :
           U.arcs[a] = IF T.nodes[t].head_in # invalid /\ a = tail
                       THEN withNextIn(T.arcs[a], id) ELSE T.arcs[a]
  <2>1. CASE T.nodes[t].head_in = invalid
    BY <1>1, <2>1 DEF linkIn
  <2>2. CASE T.nodes[t].head_in # invalid
    <3>1. U.arcs = [T.arcs EXCEPT ![tail] = withNextIn(T.arcs[tail], id)]
      BY <2>2 DEF linkIn
    <3> QED
      BY <1>1, <1>2, <2>2, <3>1 DEF ArcIDs
  <2> QED
    BY <2>1, <2>2
<1>4. /\ U.nodes \in Seq(Node(D)) /\ Len(U.nodes) = Len(T.nodes)
      /\ \A n \in NodeIDs(T) : n # t => U.nodes[n] = T.nodes[n]
      /\ U.nodes[t] = withIn(T.nodes[t], id)
  <2>1. withIn(T.nodes[t], id) \in Node(D)
    BY <1>1, WithInWrites
  <2>2. U.nodes = [T.nodes EXCEPT ![t] = withIn(T.nodes[t], id)]
    BY DEF linkIn
  <2> QED
    BY <1>1, <2>1, <2>2 DEF NodeIDs
<1>5. U \in TreeValue(D)
  BY <1>3, <1>4 DEF linkIn, TreeValue
<1>6. \A a \in ArcIDs(T) :
        /\ U.arcs[a].source = T.arcs[a].source
        /\ U.arcs[a].target = T.arcs[a].target
        /\ U.arcs[a].data = T.arcs[a].data
        /\ U.arcs[a].next_out = T.arcs[a].next_out
        /\ U.arcs[a].next_in = IF T.nodes[t].head_in # invalid /\ a = tail
                                THEN id ELSE T.arcs[a].next_in
  BY <1>2, <1>3
<1> QED
  BY <1>3, <1>4, <1>5, <1>6

(***************************************************************************)
(* The out-lists and the in-lists, one half of addArc at a time.           *)
(***************************************************************************)
LEMMA ArcSetsFinite ==
  ASSUME NEW T, NEW n, NEW m \in Nat
  PROVE  /\ ArcsFrom(T, n, m) \in SUBSET (1 .. m) /\ IsFiniteSet(ArcsFrom(T, n, m))
         /\ ArcsInto(T, n, m) \in SUBSET (1 .. m) /\ IsFiniteSet(ArcsInto(T, n, m))
<1>1. ArcsFrom(T, n, m) \in SUBSET (1 .. m) /\ ArcsInto(T, n, m) \in SUBSET (1 .. m)
  BY DEF ArcsFrom, ArcsInto
<1>2. IsFiniteSet(1 .. m)
  BY FS_Interval
<1> QED
  BY <1>1, <1>2, FS_Subset

\* The out-half of addArc takes exact out-lists of the arcs 1 .. m to exact
\* out-lists of the arcs 1 .. m + 1.
LEMMA OutHalfLinks ==
  ASSUME NEW D, NEW T \in TreeValue(D), NEW s \in NodeIDs(T),
         NEW m \in Nat, m + 1 \in ArcIDs(T),
         T.arcs[m + 1].source = s, T.arcs[m + 1].next_out = invalid,
         OutLinked(T, m)
  PROVE  OutLinked(linkOut(T, s, m + 1), m + 1)
<1> DEFINE U == linkOut(T, s, m + 1)
           S == ArcsFrom(T, s, m)
           head == T.nodes[s].head_out
           tail == T.nodes[s].tail_out
           size == T.nodes[s].out_size
<1>1. /\ T.nodes[s] \in Node(D) /\ head \in Nat /\ tail \in Nat /\ size \in Nat
      /\ \A a \in 1 .. m : T.arcs[a].next_out \in Nat
  BY TreeFields DEF ArcIDs
<1>2. /\ ListEnds(S, head, tail, size) /\ S \in SUBSET (1 .. m) /\ IsFiniteSet(S)
      /\ head # invalid => tail \in S
      /\ S \in SUBSET (Nat \ {0}) /\ m + 1 \in Nat \ {0} /\ \A a \in S : a < m + 1
  BY ArcSetsFinite DEF OutLinked, ListEnds
<1>3. head # invalid => tail \in ArcIDs(T)
  BY <1>2 DEF ArcIDs
<1>4. /\ Len(U.nodes) = Len(T.nodes)
      /\ \A a \in ArcIDs(T) : /\ U.arcs[a].source = T.arcs[a].source
                              /\ U.arcs[a].next_out = IF head # invalid /\ a = tail
                                                      THEN m + 1 ELSE T.arcs[a].next_out
      /\ \A n \in NodeIDs(T) : n # s => U.nodes[n] = T.nodes[n]
      /\ U.nodes[s] = withOut(T.nodes[s], m + 1)
  BY <1>3, LinkOutWrites
<1>5. \A n : ArcsFrom(U, n, m + 1) = IF n = s THEN S \union {m + 1} ELSE ArcsFrom(T, n, m)
  BY <1>4 DEF ArcsFrom, ArcIDs
<1> HIDE DEF U, S, head, tail, size
<1>6. ASSUME NEW n \in NodeIDs(U)
      PROVE  ListEnds(ArcsFrom(U, n, m + 1), U.nodes[n].head_out, U.nodes[n].tail_out,
                      U.nodes[n].out_size)
  <2>1. n \in NodeIDs(T)
    BY <1>4 DEF NodeIDs
  <2>2. CASE n = s
    <3>1. /\ U.nodes[n].head_out = IF head = invalid THEN m + 1 ELSE head
          /\ U.nodes[n].tail_out = m + 1 /\ U.nodes[n].out_size = size + 1
      <4>1. T.nodes[s] \in Node(D) /\ m + 1 \in Nat
        BY <1>1
      <4>2. /\ withOut(T.nodes[s], m + 1).head_out
                 = IF T.nodes[s].head_out = invalid THEN m + 1 ELSE T.nodes[s].head_out
            /\ withOut(T.nodes[s], m + 1).tail_out = m + 1
            /\ withOut(T.nodes[s], m + 1).out_size = T.nodes[s].out_size + 1
        BY ONLY <4>1, WithOutWrites
      <4> QED
        BY <1>4, <2>2, <4>2 DEF head, size
    <3>2. ListEnds(S \union {m + 1}, IF head = invalid THEN m + 1 ELSE head, m + 1, size + 1)
      BY <1>1, <1>2, AppendEnds
    <3> QED
      BY <1>5, <2>2, <3>1, <3>2
  <2>3. CASE n # s
    BY <1>4, <1>5, <2>1, <2>3 DEF OutLinked
  <2> QED
    BY <2>2, <2>3
<1>7. ASSUME NEW a \in 1 .. m + 1
      PROVE  IsNext(ArcsFrom(U, U.arcs[a].source, m + 1), a, U.arcs[a].next_out)
  <2>1. CASE a = m + 1
    <3>1. U.arcs[a].source = s /\ U.arcs[a].next_out = invalid
      BY <1>2, <1>4, <2>1
    <3>2. IsNext(S \union {m + 1}, m + 1, invalid)
      BY <1>2, AppendLast
    <3> QED
      BY <1>5, <2>1, <3>1, <3>2
  <2>2. CASE a \in 1 .. m /\ T.arcs[a].source = s
    <3>1. a \in S /\ IsNext(S, a, T.arcs[a].next_out)
      BY <2>2 DEF OutLinked, ArcsFrom, S
    <3>2. U.arcs[a].source = s
          /\ U.arcs[a].next_out = IF a = tail THEN m + 1 ELSE T.arcs[a].next_out
      <4>1. head # invalid
        BY <1>2, <3>1 DEF ListEnds, invalid
      <4> QED
        BY <1>4, <2>2, <4>1 DEF ArcIDs
    <3>3. IsNext(S \union {m + 1}, a, IF a = tail THEN m + 1 ELSE T.arcs[a].next_out)
      BY <1>1, <1>2, <2>2, <3>1, AppendNext
    <3> QED
      BY <1>5, <3>2, <3>3
  <2>3. CASE a \in 1 .. m /\ T.arcs[a].source # s
    <3>1. ~ (head # invalid /\ a = tail)
      BY <1>2, <2>3 DEF ArcsFrom, S
    <3>2. /\ U.arcs[a].source = T.arcs[a].source
          /\ U.arcs[a].next_out = T.arcs[a].next_out
      BY <1>4, <2>3, <3>1 DEF ArcIDs
    <3> QED
      BY <1>5, <2>3, <3>2 DEF OutLinked
  <2> QED
    BY <2>1, <2>2, <2>3
<1> QED
  BY <1>6, <1>7 DEF OutLinked, U

\* The in-half of addArc takes exact in-lists of the arcs 1 .. m to exact
\* in-lists of the arcs 1 .. m + 1.
LEMMA InHalfLinks ==
  ASSUME NEW D, NEW T \in TreeValue(D), NEW t \in NodeIDs(T),
         NEW m \in Nat, m + 1 \in ArcIDs(T),
         T.arcs[m + 1].target = t, T.arcs[m + 1].next_in = invalid,
         InLinked(T, m)
  PROVE  InLinked(linkIn(T, t, m + 1), m + 1)
<1> DEFINE U == linkIn(T, t, m + 1)
           S == ArcsInto(T, t, m)
           head == T.nodes[t].head_in
           tail == T.nodes[t].tail_in
           size == T.nodes[t].in_size
<1>1. /\ T.nodes[t] \in Node(D) /\ head \in Nat /\ tail \in Nat /\ size \in Nat
      /\ \A a \in 1 .. m : T.arcs[a].next_in \in Nat
  BY TreeFields DEF ArcIDs
<1>2. /\ ListEnds(S, head, tail, size) /\ S \in SUBSET (1 .. m) /\ IsFiniteSet(S)
      /\ head # invalid => tail \in S
      /\ S \in SUBSET (Nat \ {0}) /\ m + 1 \in Nat \ {0} /\ \A a \in S : a < m + 1
  BY ArcSetsFinite DEF InLinked, ListEnds
<1>3. head # invalid => tail \in ArcIDs(T)
  BY <1>2 DEF ArcIDs
<1>4. /\ Len(U.nodes) = Len(T.nodes)
      /\ \A a \in ArcIDs(T) : /\ U.arcs[a].target = T.arcs[a].target
                              /\ U.arcs[a].next_in = IF head # invalid /\ a = tail
                                                      THEN m + 1 ELSE T.arcs[a].next_in
      /\ \A n \in NodeIDs(T) : n # t => U.nodes[n] = T.nodes[n]
      /\ U.nodes[t] = withIn(T.nodes[t], m + 1)
  BY <1>3, LinkInWrites
<1>5. \A n : ArcsInto(U, n, m + 1) = IF n = t THEN S \union {m + 1} ELSE ArcsInto(T, n, m)
  BY <1>4 DEF ArcsInto, ArcIDs
<1> HIDE DEF U, S, head, tail, size
<1>6. ASSUME NEW n \in NodeIDs(U)
      PROVE  ListEnds(ArcsInto(U, n, m + 1), U.nodes[n].head_in, U.nodes[n].tail_in,
                      U.nodes[n].in_size)
  <2>1. n \in NodeIDs(T)
    BY <1>4 DEF NodeIDs
  <2>2. CASE n = t
    <3>1. /\ U.nodes[n].head_in = IF head = invalid THEN m + 1 ELSE head
          /\ U.nodes[n].tail_in = m + 1 /\ U.nodes[n].in_size = size + 1
      <4>1. T.nodes[t] \in Node(D) /\ m + 1 \in Nat
        BY <1>1
      <4>2. /\ withIn(T.nodes[t], m + 1).head_in
                 = IF T.nodes[t].head_in = invalid THEN m + 1 ELSE T.nodes[t].head_in
            /\ withIn(T.nodes[t], m + 1).tail_in = m + 1
            /\ withIn(T.nodes[t], m + 1).in_size = T.nodes[t].in_size + 1
        BY ONLY <4>1, WithInWrites
      <4> QED
        BY <1>4, <2>2, <4>2 DEF head, size
    <3>2. ListEnds(S \union {m + 1}, IF head = invalid THEN m + 1 ELSE head, m + 1, size + 1)
      BY <1>1, <1>2, AppendEnds
    <3> QED
      BY <1>5, <2>2, <3>1, <3>2
  <2>3. CASE n # t
    BY <1>4, <1>5, <2>1, <2>3 DEF InLinked
  <2> QED
    BY <2>2, <2>3
<1>7. ASSUME NEW a \in 1 .. m + 1
      PROVE  IsNext(ArcsInto(U, U.arcs[a].target, m + 1), a, U.arcs[a].next_in)
  <2>1. CASE a = m + 1
    <3>1. U.arcs[a].target = t /\ U.arcs[a].next_in = invalid
      BY <1>2, <1>4, <2>1
    <3>2. IsNext(S \union {m + 1}, m + 1, invalid)
      BY <1>2, AppendLast
    <3> QED
      BY <1>5, <2>1, <3>1, <3>2
  <2>2. CASE a \in 1 .. m /\ T.arcs[a].target = t
    <3>1. a \in S /\ IsNext(S, a, T.arcs[a].next_in)
      BY <2>2 DEF InLinked, ArcsInto, S
    <3>2. U.arcs[a].target = t
          /\ U.arcs[a].next_in = IF a = tail THEN m + 1 ELSE T.arcs[a].next_in
      <4>1. head # invalid
        BY <1>2, <3>1 DEF ListEnds, invalid
      <4> QED
        BY <1>4, <2>2, <4>1 DEF ArcIDs
    <3>3. IsNext(S \union {m + 1}, a, IF a = tail THEN m + 1 ELSE T.arcs[a].next_in)
      BY <1>1, <1>2, <2>2, <3>1, AppendNext
    <3> QED
      BY <1>5, <3>2, <3>3
  <2>3. CASE a \in 1 .. m /\ T.arcs[a].target # t
    <3>1. ~ (head # invalid /\ a = tail)
      BY <1>2, <2>3 DEF ArcsInto, S
    <3>2. /\ U.arcs[a].target = T.arcs[a].target
          /\ U.arcs[a].next_in = T.arcs[a].next_in
      BY <1>4, <2>3, <3>1 DEF ArcIDs
    <3> QED
      BY <1>5, <2>3, <3>2 DEF InLinked
  <2> QED
    BY <2>1, <2>2, <2>3
<1> QED
  BY <1>6, <1>7 DEF InLinked, U

\* Either half of addArc leaves the lists of the other kind alone.
LEMMA OutHalfKeepsIn ==
  ASSUME NEW D, NEW T \in TreeValue(D), NEW s \in NodeIDs(T), NEW id \in Nat,
         T.nodes[s].head_out # invalid => T.nodes[s].tail_out \in ArcIDs(T),
         NEW m \in 0 .. Len(T.arcs), InLinked(T, m)
  PROVE  InLinked(linkOut(T, s, id), m)
<1> DEFINE U == linkOut(T, s, id)
<1>1. /\ NodeIDs(U) = NodeIDs(T)
      /\ \A a \in 1 .. m : /\ U.arcs[a].target = T.arcs[a].target
                           /\ U.arcs[a].next_in = T.arcs[a].next_in
      /\ \A n \in NodeIDs(T) : n # s => U.nodes[n] = T.nodes[n]
      /\ U.nodes[s] = withOut(T.nodes[s], id)
  BY LinkOutWrites, TreeFields DEF ArcIDs, NodeIDs
<1>2. T.nodes[s] \in Node(D)
  BY TreeFields
<1>3. /\ withOut(T.nodes[s], id).head_in = T.nodes[s].head_in
      /\ withOut(T.nodes[s], id).tail_in = T.nodes[s].tail_in
      /\ withOut(T.nodes[s], id).in_size = T.nodes[s].in_size
  BY ONLY <1>2, id \in Nat, WithOutWrites, SMTT(60)
<1>4. \A n \in NodeIDs(T) : /\ U.nodes[n].head_in = T.nodes[n].head_in
                            /\ U.nodes[n].tail_in = T.nodes[n].tail_in
                            /\ U.nodes[n].in_size = T.nodes[n].in_size
  BY <1>1, <1>3
<1>5. \A n : ArcsInto(U, n, m) = ArcsInto(T, n, m)
  BY <1>1 DEF ArcsInto
<1> HIDE DEF U
<1>6. InLinked(U, m)
  BY <1>1, <1>4, <1>5 DEF InLinked
<1> QED
  BY <1>6 DEF U

\* The in-half of addArc leaves the out-lists as they are, also for a self-loop.
LEMMA InHalfKeepsOut ==
  ASSUME NEW D, NEW T \in TreeValue(D), NEW s \in NodeIDs(T), NEW id \in Nat,
         T.nodes[s].head_in # invalid => T.nodes[s].tail_in \in ArcIDs(T),
         NEW m \in 0 .. Len(T.arcs), OutLinked(T, m)
  PROVE  OutLinked(linkIn(T, s, id), m)
<1> DEFINE U == linkIn(T, s, id)
<1>1. /\ NodeIDs(U) = NodeIDs(T)
      /\ \A a \in 1 .. m : /\ U.arcs[a].source = T.arcs[a].source
                           /\ U.arcs[a].next_out = T.arcs[a].next_out
      /\ \A n \in NodeIDs(T) : n # s => U.nodes[n] = T.nodes[n]
      /\ U.nodes[s] = withIn(T.nodes[s], id)
  BY LinkInWrites, TreeFields DEF ArcIDs, NodeIDs
<1>2. T.nodes[s] \in Node(D)
  BY TreeFields
<1>3. /\ withIn(T.nodes[s], id).head_out = T.nodes[s].head_out
      /\ withIn(T.nodes[s], id).tail_out = T.nodes[s].tail_out
      /\ withIn(T.nodes[s], id).out_size = T.nodes[s].out_size
  BY ONLY <1>2, id \in Nat, WithInWrites, SMTT(60)
<1>4. \A n \in NodeIDs(T) : /\ U.nodes[n].head_out = T.nodes[n].head_out
                            /\ U.nodes[n].tail_out = T.nodes[n].tail_out
                            /\ U.nodes[n].out_size = T.nodes[n].out_size
  BY <1>1, <1>3
<1>5. \A n : ArcsFrom(U, n, m) = ArcsFrom(T, n, m)
  BY <1>1 DEF ArcsFrom
<1> HIDE DEF U
<1>6. OutLinked(U, m)
  BY <1>1, <1>4, <1>5 DEF OutLinked
<1> QED
  BY <1>6 DEF U

(***************************************************************************)
(* The three operations that make a tree.                                  *)
(***************************************************************************)
\* The tree of addArc before the new arc is in any list.
LEMMA ArcAppended ==
  ASSUME NEW D, NEW T \in TreeValue(D), NEW m \in Nat, m = Len(T.arcs),
         NEW arc \in Arc(D), NEW A, A = appendArc(T, arc)
  PROVE  /\ A \in TreeValue(D)
         /\ Len(A.arcs) = m + 1 /\ A.nodes = T.nodes
         /\ \A a \in ArcIDs(T) : A.arcs[a] = T.arcs[a]
         /\ A.arcs[m + 1] = arc
         /\ OutLinked(T, m) => OutLinked(A, m)
         /\ InLinked(T, m) => InLinked(A, m)
<1>1. T.arcs \in Seq(Arc(D)) /\ T.nodes \in Seq(Node(D))
  BY TreeFields
<1>2. A.arcs = Append(T.arcs, arc) /\ A.nodes = T.nodes
  BY DEF appendArc
<1>3. A \in TreeValue(D)
  BY <1>1 DEF TreeValue, appendArc
<1>4. /\ Len(A.arcs) = m + 1
      /\ \A a \in ArcIDs(T) : A.arcs[a] = T.arcs[a]
      /\ A.arcs[m + 1] = arc
  BY <1>1, <1>2 DEF ArcIDs
<1>5. \A n : /\ ArcsFrom(A, n, m) = ArcsFrom(T, n, m)
             /\ ArcsInto(A, n, m) = ArcsInto(T, n, m)
  BY <1>4 DEF ArcsFrom, ArcsInto, ArcIDs
<1>6. NodeIDs(A) = NodeIDs(T)
  BY <1>2 DEF NodeIDs
<1>7. OutLinked(T, m) => OutLinked(A, m)
  BY <1>2, <1>4, <1>5, <1>6 DEF OutLinked, ArcIDs
<1>8. InLinked(T, m) => InLinked(A, m)
  BY <1>2, <1>4, <1>5, <1>6 DEF InLinked, ArcIDs
<1> QED
  BY <1>2, <1>3, <1>4, <1>7, <1>8

\* The tail of an exact list is an arc, and the end of the list.
LEMMA OutTail ==
  ASSUME NEW D, NEW T \in TreeValue(D), NEW m \in 0 .. Len(T.arcs), OutLinked(T, m),
         NEW s \in NodeIDs(T), T.nodes[s].head_out # invalid
  PROVE  T.nodes[s].tail_out \in 1 .. m /\ T.arcs[T.nodes[s].tail_out].next_out = invalid
<1> DEFINE S == ArcsFrom(T, s, m)
           tail == T.nodes[s].tail_out
           next == T.arcs[tail].next_out
<1>1. m \in Nat /\ \A a \in 1 .. m : T.arcs[a].next_out \in Nat
  BY TreeFields DEF ArcIDs
<1>2. ListEnds(S, T.nodes[s].head_out, tail, T.nodes[s].out_size)
  BY DEF OutLinked
<1>3. tail \in S /\ \A c \in S : c <= tail
  BY <1>2 DEF ListEnds
<1>4. S \in SUBSET (1 .. m) /\ S \in SUBSET (Nat \ {0})
  BY <1>1, ArcSetsFinite
<1>5. next \in Nat /\ IsNext(S, tail, next)
  BY <1>1, <1>3, <1>4 DEF OutLinked, ArcsFrom
<1>6. next = invalid
  <2> HIDE DEF S, tail, next
  <2> QED
    BY <1>3, <1>4, <1>5, LastHasNoNext
<1> QED
  BY <1>3, <1>4, <1>6

\* The tail of an in-list is one of the arcs 1 .. m, and has no successor.
LEMMA InTail ==
  ASSUME NEW D, NEW T \in TreeValue(D), NEW m \in 0 .. Len(T.arcs), InLinked(T, m),
         NEW t \in NodeIDs(T), T.nodes[t].head_in # invalid
  PROVE  T.nodes[t].tail_in \in 1 .. m /\ T.arcs[T.nodes[t].tail_in].next_in = invalid
<1> DEFINE S == ArcsInto(T, t, m)
           tail == T.nodes[t].tail_in
           next == T.arcs[tail].next_in
<1>1. m \in Nat /\ \A a \in 1 .. m : T.arcs[a].next_in \in Nat
  BY TreeFields DEF ArcIDs
<1>2. ListEnds(S, T.nodes[t].head_in, tail, T.nodes[t].in_size)
  BY DEF InLinked
<1>3. tail \in S /\ \A c \in S : c <= tail
  BY <1>2 DEF ListEnds
<1>4. S \in SUBSET (1 .. m) /\ S \in SUBSET (Nat \ {0})
  BY <1>1, ArcSetsFinite
<1>5. next \in Nat /\ IsNext(S, tail, next)
  BY <1>1, <1>3, <1>4 DEF InLinked, ArcsInto
<1>6. next = invalid
  <2> HIDE DEF S, tail, next
  <2> QED
    BY <1>3, <1>4, <1>5, LastHasNoNext
<1> QED
  BY <1>3, <1>4, <1>6

\* The fields of the arcs and nodes of addArc ( source, target ) after its two
\* halves, O the tree between them.
LEMMA AddArcWrites ==
  ASSUME NEW D, NEW A \in TreeValue(D), NEW m \in Nat, Len(A.arcs) = m + 1,
         NEW s \in NodeIDs(A), NEW t \in NodeIDs(A),
         OutLinked(A, m), InLinked(A, m),
         A.arcs[m + 1].source = s, A.arcs[m + 1].next_out = invalid,
         A.arcs[m + 1].target = t, A.arcs[m + 1].next_in = invalid,
         NEW O, O = linkOut(A, s, m + 1),
         NEW U, U = linkIn(O, t, m + 1)
  PROVE  /\ U \in TreeValue(D) /\ Linked(U)
         /\ Len(U.arcs) = m + 1 /\ Len(U.nodes) = Len(A.nodes)
         /\ \A a \in ArcIDs(A) :
              /\ U.arcs[a].source = A.arcs[a].source
              /\ U.arcs[a].target = A.arcs[a].target
              /\ U.arcs[a].data = A.arcs[a].data
              /\ A.arcs[a].next_out \in {invalid, U.arcs[a].next_out}
              /\ A.arcs[a].next_in \in {invalid, U.arcs[a].next_in}
         /\ \A n \in NodeIDs(A) :
              /\ U.nodes[n].data = A.nodes[n].data
              /\ A.nodes[n].head_out \in {invalid, U.nodes[n].head_out}
              /\ A.nodes[n].head_in \in {invalid, U.nodes[n].head_in}
<1>1. /\ m + 1 \in Nat /\ m \in 0 .. Len(A.arcs) /\ m + 1 \in ArcIDs(A)
      /\ \A a \in 1 .. m : a \in ArcIDs(A)
  BY DEF ArcIDs
<1>2. A.nodes[s].head_out # invalid =>
        A.nodes[s].tail_out \in ArcIDs(A) /\ A.arcs[A.nodes[s].tail_out].next_out = invalid
  BY <1>1, OutTail
\* The out-half.
<1>3. /\ O \in TreeValue(D)
      /\ Len(O.arcs) = m + 1 /\ Len(O.nodes) = Len(A.nodes)
      /\ \A a \in ArcIDs(A) :
           /\ O.arcs[a].source = A.arcs[a].source
           /\ O.arcs[a].target = A.arcs[a].target
           /\ O.arcs[a].data = A.arcs[a].data
           /\ O.arcs[a].next_in = A.arcs[a].next_in
           /\ A.arcs[a].next_out \in {invalid, O.arcs[a].next_out}
      /\ \A n \in NodeIDs(A) : n # s => O.nodes[n] = A.nodes[n]
      /\ O.nodes[s] = withOut(A.nodes[s], m + 1)
  <2>1. /\ A \in TreeValue(D) /\ s \in NodeIDs(A) /\ m + 1 \in Nat
        /\ A.nodes[s].head_out # invalid => A.nodes[s].tail_out \in ArcIDs(A)
        /\ O = linkOut(A, s, m + 1)
    BY <1>1, <1>2
  <2>2. /\ O \in TreeValue(D)
        /\ Len(O.arcs) = Len(A.arcs) /\ Len(O.nodes) = Len(A.nodes)
        /\ \A a \in ArcIDs(A) :
             /\ O.arcs[a].source = A.arcs[a].source
             /\ O.arcs[a].target = A.arcs[a].target
             /\ O.arcs[a].data = A.arcs[a].data
             /\ O.arcs[a].next_in = A.arcs[a].next_in
             /\ O.arcs[a].next_out =
                  IF A.nodes[s].head_out # invalid /\ a = A.nodes[s].tail_out
                  THEN m + 1 ELSE A.arcs[a].next_out
        /\ \A n \in NodeIDs(A) : n # s => O.nodes[n] = A.nodes[n]
        /\ O.nodes[s] = withOut(A.nodes[s], m + 1)
    BY ONLY <2>1, LinkOutWrites
  <2> QED
    BY <1>1, <1>2, <2>2
<1>4. \A n \in NodeIDs(A) : /\ O.nodes[n].data = A.nodes[n].data
                            /\ O.nodes[n].head_in = A.nodes[n].head_in
                            /\ A.nodes[n].head_out \in {invalid, O.nodes[n].head_out}
  <2>1. A.nodes[s] \in Node(D)
    BY TreeFields
  <2>2. /\ withOut(A.nodes[s], m + 1).data = A.nodes[s].data
        /\ withOut(A.nodes[s], m + 1).head_in = A.nodes[s].head_in
        /\ A.nodes[s].head_out \in {invalid, withOut(A.nodes[s], m + 1).head_out}
    BY ONLY <1>1, <2>1, WithOutWrites
  <2> QED
    BY <1>3, <2>2
<1>5. OutLinked(O, m + 1)
  BY <1>1, OutHalfLinks
<1>6. InLinked(O, m)
  BY <1>1, <1>2, OutHalfKeepsIn
\* The in-half.
<1>7. /\ ArcIDs(O) = ArcIDs(A) /\ NodeIDs(O) = NodeIDs(A)
      /\ t \in NodeIDs(O) /\ m + 1 \in ArcIDs(O)
      /\ m \in 0 .. Len(O.arcs) /\ m + 1 \in 0 .. Len(O.arcs)
      /\ O.arcs[m + 1].target = t /\ O.arcs[m + 1].next_in = invalid
  BY <1>1, <1>3 DEF ArcIDs, NodeIDs
<1>8. O.nodes[t].head_in # invalid =>
        O.nodes[t].tail_in \in ArcIDs(O) /\ O.arcs[O.nodes[t].tail_in].next_in = invalid
  BY <1>1, <1>3, <1>6, <1>7, InTail
<1>9. /\ U \in TreeValue(D)
      /\ Len(U.arcs) = m + 1 /\ Len(U.nodes) = Len(A.nodes)
      /\ \A a \in ArcIDs(O) :
           /\ U.arcs[a].source = O.arcs[a].source
           /\ U.arcs[a].target = O.arcs[a].target
           /\ U.arcs[a].data = O.arcs[a].data
           /\ U.arcs[a].next_out = O.arcs[a].next_out
           /\ O.arcs[a].next_in \in {invalid, U.arcs[a].next_in}
      /\ \A n \in NodeIDs(O) : n # t => U.nodes[n] = O.nodes[n]
      /\ U.nodes[t] = withIn(O.nodes[t], m + 1)
  <2>1. /\ O \in TreeValue(D) /\ t \in NodeIDs(O) /\ m + 1 \in Nat
        /\ O.nodes[t].head_in # invalid => O.nodes[t].tail_in \in ArcIDs(O)
        /\ U = linkIn(O, t, m + 1)
    BY <1>1, <1>3, <1>7, <1>8
  <2>2. /\ U \in TreeValue(D)
        /\ Len(U.arcs) = Len(O.arcs) /\ Len(U.nodes) = Len(O.nodes)
        /\ \A a \in ArcIDs(O) :
             /\ U.arcs[a].source = O.arcs[a].source
             /\ U.arcs[a].target = O.arcs[a].target
             /\ U.arcs[a].data = O.arcs[a].data
             /\ U.arcs[a].next_out = O.arcs[a].next_out
             /\ U.arcs[a].next_in =
                  IF O.nodes[t].head_in # invalid /\ a = O.nodes[t].tail_in
                  THEN m + 1 ELSE O.arcs[a].next_in
        /\ \A n \in NodeIDs(O) : n # t => U.nodes[n] = O.nodes[n]
        /\ U.nodes[t] = withIn(O.nodes[t], m + 1)
    BY ONLY <2>1, LinkInWrites
  <2> QED
    BY <1>3, <1>8, <2>2
<1>10. \A n \in NodeIDs(O) : /\ U.nodes[n].data = O.nodes[n].data
                             /\ U.nodes[n].head_out = O.nodes[n].head_out
                             /\ O.nodes[n].head_in \in {invalid, U.nodes[n].head_in}
  <2>1. O.nodes[t] \in Node(D)
    BY <1>3, <1>7, TreeFields
  <2>2. /\ withIn(O.nodes[t], m + 1).data = O.nodes[t].data
        /\ withIn(O.nodes[t], m + 1).head_out = O.nodes[t].head_out
        /\ O.nodes[t].head_in \in {invalid, withIn(O.nodes[t], m + 1).head_in}
    BY ONLY <1>1, <2>1, WithInWrites
  <2> QED
    BY <1>9, <2>2
<1>11. InLinked(U, m + 1)
  BY <1>1, <1>3, <1>6, <1>7, InHalfLinks
<1>12. OutLinked(U, m + 1)
  BY <1>1, <1>3, <1>5, <1>7, <1>8, InHalfKeepsOut
<1>13. Linked(U)
  BY <1>9, <1>11, <1>12 DEF Linked
<1>14. \A a \in ArcIDs(A) :
         /\ U.arcs[a].source = A.arcs[a].source
         /\ U.arcs[a].target = A.arcs[a].target
         /\ U.arcs[a].data = A.arcs[a].data
         /\ A.arcs[a].next_out \in {invalid, U.arcs[a].next_out}
         /\ A.arcs[a].next_in \in {invalid, U.arcs[a].next_in}
  BY <1>3, <1>7, <1>9
<1>15. \A n \in NodeIDs(A) :
         /\ U.nodes[n].data = A.nodes[n].data
         /\ A.nodes[n].head_out \in {invalid, U.nodes[n].head_out}
         /\ A.nodes[n].head_in \in {invalid, U.nodes[n].head_in}
  BY <1>4, <1>7, <1>10
<1> QED
  BY <1>9, <1>13, <1>14, <1>15

\* addArc ( source, target, data ) on two nodes of the tree keeps the ids in
\* range and every list exact, and only grows the tree: the new arc is the one
\* after the last, and the payloads that were there stay.
THEOREM AddArcKeepsLists ==
  ASSUME NEW D, NEW T, IsTree(T, D), Linked(T),
         NEW s \in NodeIDs(T), NEW t \in NodeIDs(T), NEW d \in D,
         NEW U, U = addArc(T, s, t, d)
  PROVE  /\ IsTree(U, D) /\ Linked(U) /\ GrownFrom(U, T)
         /\ Len(U.arcs) = Len(T.arcs) + 1 /\ Len(U.nodes) = Len(T.nodes)
         /\ U.arcs[Len(T.arcs) + 1].source = s
         /\ U.arcs[Len(T.arcs) + 1].target = t
         /\ U.arcs[Len(T.arcs) + 1].data = d
         /\ \A a \in ArcIDs(T) : U.arcs[a].data = T.arcs[a].data
         /\ \A n \in NodeIDs(T) : U.nodes[n].data = T.nodes[n].data
<1>1. /\ T \in TreeValue(D) /\ Len(T.arcs) \in Nat /\ Len(T.nodes) \in Nat
      /\ s \in Nat /\ t \in Nat
  BY TreeFields DEF IsTree, NodeIDs
<1>2. PICK m \in Nat : m = Len(T.arcs)
  BY <1>1
<1>3. PICK A : A = appendArc(T, NewArc(s, t, d))
  OBVIOUS
<1>4. PICK O : O = linkOut(A, s, m + 1)
  OBVIOUS
<1>5. U = linkIn(O, t, m + 1)
  BY <1>2, <1>3, <1>4 DEF addArc
<1>6. /\ NewArc(s, t, d) \in Arc(D)
      /\ NewArc(s, t, d).source = s /\ NewArc(s, t, d).target = t
      /\ NewArc(s, t, d).data = d
      /\ NewArc(s, t, d).next_out = invalid /\ NewArc(s, t, d).next_in = invalid
  BY <1>1 DEF NewArc, Arc, invalid
<1>7. /\ A \in TreeValue(D)
      /\ Len(A.arcs) = m + 1 /\ A.nodes = T.nodes
      /\ \A a \in ArcIDs(T) : A.arcs[a] = T.arcs[a]
      /\ A.arcs[m + 1] = NewArc(s, t, d)
      /\ OutLinked(A, m) /\ InLinked(A, m)
  BY <1>1, <1>2, <1>3, <1>6, ArcAppended DEF Linked
<1>8. NodeIDs(A) = NodeIDs(T) /\ ArcIDs(A) = ArcIDs(T) \union {m + 1}
  BY <1>1, <1>2, <1>7 DEF NodeIDs, ArcIDs
<1>9. /\ U \in TreeValue(D) /\ Linked(U)
      /\ Len(U.arcs) = m + 1 /\ Len(U.nodes) = Len(T.nodes)
      /\ \A a \in ArcIDs(A) :
           /\ U.arcs[a].source = A.arcs[a].source
           /\ U.arcs[a].target = A.arcs[a].target
           /\ U.arcs[a].data = A.arcs[a].data
           /\ A.arcs[a].next_out \in {invalid, U.arcs[a].next_out}
           /\ A.arcs[a].next_in \in {invalid, U.arcs[a].next_in}
      /\ \A n \in NodeIDs(A) :
           /\ U.nodes[n].data = A.nodes[n].data
           /\ A.nodes[n].head_out \in {invalid, U.nodes[n].head_out}
           /\ A.nodes[n].head_in \in {invalid, U.nodes[n].head_in}
  <2>1. /\ s \in NodeIDs(A) /\ t \in NodeIDs(A)
        /\ A.arcs[m + 1].source = s /\ A.arcs[m + 1].next_out = invalid
        /\ A.arcs[m + 1].target = t /\ A.arcs[m + 1].next_in = invalid
        /\ A \in TreeValue(D) /\ Len(A.arcs) = m + 1
        /\ OutLinked(A, m) /\ InLinked(A, m)
    BY <1>6, <1>7, <1>8
  <2>2. /\ U \in TreeValue(D) /\ Linked(U)
        /\ Len(U.arcs) = m + 1 /\ Len(U.nodes) = Len(A.nodes)
    BY ONLY <1>4, <1>5, <2>1, m \in Nat, AddArcWrites
  <2>3. \A a \in ArcIDs(A) :
           /\ U.arcs[a].source = A.arcs[a].source
           /\ U.arcs[a].target = A.arcs[a].target
           /\ U.arcs[a].data = A.arcs[a].data
           /\ A.arcs[a].next_out \in {invalid, U.arcs[a].next_out}
           /\ A.arcs[a].next_in \in {invalid, U.arcs[a].next_in}
    BY ONLY <1>4, <1>5, <2>1, m \in Nat, AddArcWrites
  <2>4. \A n \in NodeIDs(A) :
           /\ U.nodes[n].data = A.nodes[n].data
           /\ A.nodes[n].head_out \in {invalid, U.nodes[n].head_out}
           /\ A.nodes[n].head_in \in {invalid, U.nodes[n].head_in}
    BY ONLY <1>4, <1>5, <2>1, m \in Nat, AddArcWrites, SMTT(30)
  <2> QED
    BY <1>7, <2>2, <2>3, <2>4
<1>10. NodeIDs(U) = NodeIDs(T) /\ ArcIDs(U) = ArcIDs(A)
  BY <1>7, <1>9 DEF NodeIDs, ArcIDs
<1>11. /\ U.arcs[m + 1].source = s /\ U.arcs[m + 1].target = t
       /\ U.arcs[m + 1].data = d
  BY <1>6, <1>7, <1>8, <1>9
<1>12. EndsExist(U)
  <2>1. /\ 1 \in ArcIDs(T) /\ 1 \in NodeIDs(T)
        /\ U.arcs[root_arc].source = invalid /\ U.arcs[root_arc].target = root_node
    BY <1>7, <1>8, <1>9 DEF IsTree, EndsExist, root_arc
  <2>2. \A a \in ArcIDs(T) : /\ U.arcs[a].target \in NodeIDs(T)
                             /\ a # root_arc => U.arcs[a].source \in NodeIDs(T)
    BY <1>7, <1>8, <1>9 DEF IsTree, EndsExist
  <2> QED
    BY <1>8, <1>10, <1>11, <2>1, <2>2 DEF EndsExist
<1>13. GrownFrom(U, T)
  BY <1>7, <1>8, <1>9, <1>10 DEF GrownFrom
<1> QED
  BY <1>2, <1>7, <1>8, <1>9, <1>11, <1>12, <1>13 DEF IsTree

\* addNode ( data ) adds an isolated node and leaves the rest alone.
THEOREM AddNodeKeepsLists ==
  ASSUME NEW D, NEW T, IsTree(T, D), Linked(T), NEW d \in D,
         NEW U, U = addNode(T, d)
  PROVE  /\ IsTree(U, D) /\ Linked(U) /\ GrownFrom(U, T)
         /\ U.arcs = T.arcs /\ Len(U.nodes) = Len(T.nodes) + 1
         /\ U.nodes[Len(T.nodes) + 1] = NewNode(d)
         /\ \A n \in NodeIDs(T) : U.nodes[n] = T.nodes[n]
<1>1. /\ T \in TreeValue(D) /\ T.arcs \in Seq(Arc(D)) /\ T.nodes \in Seq(Node(D))
      /\ Len(T.arcs) \in Nat /\ Len(T.nodes) \in Nat
  BY TreeFields DEF IsTree
<1>2. /\ NewNode(d) \in Node(D)
      /\ NewNode(d).head_in = 0 /\ NewNode(d).tail_in = 0 /\ NewNode(d).in_size = 0
      /\ NewNode(d).head_out = 0 /\ NewNode(d).tail_out = 0 /\ NewNode(d).out_size = 0
  BY DEF NewNode, Node, invalid
<1>3. U.arcs = T.arcs /\ U.nodes = Append(T.nodes, NewNode(d))
  BY DEF addNode
<1>4. /\ Len(U.nodes) = Len(T.nodes) + 1
      /\ U.nodes[Len(T.nodes) + 1] = NewNode(d)
      /\ \A n \in NodeIDs(T) : U.nodes[n] = T.nodes[n]
  BY <1>1, <1>2, <1>3 DEF NodeIDs
<1>5. U \in TreeValue(D)
  BY <1>1, <1>2 DEF addNode, TreeValue
<1>6. NodeIDs(U) = NodeIDs(T) \union {Len(T.nodes) + 1} /\ ArcIDs(U) = ArcIDs(T)
  BY <1>1, <1>3, <1>4 DEF NodeIDs, ArcIDs
<1>7. EndsExist(U) /\ GrownFrom(U, T)
  BY <1>3, <1>4, <1>6 DEF IsTree, EndsExist, GrownFrom
<1>8. /\ \A n, k : ArcsFrom(U, n, k) = ArcsFrom(T, n, k)
      /\ \A n, k : ArcsInto(U, n, k) = ArcsInto(T, n, k)
  BY <1>3 DEF ArcsFrom, ArcsInto
\* No arc has the new node as an end.
<1>9. /\ ArcsFrom(T, Len(T.nodes) + 1, Len(T.arcs)) = {}
      /\ ArcsInto(T, Len(T.nodes) + 1, Len(T.arcs)) = {}
  BY <1>1 DEF IsTree, EndsExist, ArcsFrom, ArcsInto, ArcIDs, NodeIDs, invalid
<1>10. ListEnds({}, 0, 0, 0)
  BY FS_EmptySet DEF ListEnds, invalid
<1>11. OutLinked(U, Len(U.arcs))
  <2>1. ASSUME NEW n \in NodeIDs(U)
        PROVE  ListEnds(ArcsFrom(U, n, Len(U.arcs)), U.nodes[n].head_out,
                        U.nodes[n].tail_out, U.nodes[n].out_size)
    <3>1. CASE n \in NodeIDs(T)
      BY <1>3, <1>4, <1>8, <3>1 DEF Linked, OutLinked
    <3>2. CASE n = Len(T.nodes) + 1
      BY <1>2, <1>3, <1>4, <1>8, <1>9, <1>10, <3>2
    <3> QED
      BY <1>6, <3>1, <3>2
  <2>2. \A a \in 1 .. Len(U.arcs) :
          IsNext(ArcsFrom(U, U.arcs[a].source, Len(U.arcs)), a, U.arcs[a].next_out)
    BY <1>3, <1>8 DEF Linked, OutLinked
  <2> QED
    BY <2>1, <2>2 DEF OutLinked
<1>12. InLinked(U, Len(U.arcs))
  <2>1. ASSUME NEW n \in NodeIDs(U)
        PROVE  ListEnds(ArcsInto(U, n, Len(U.arcs)), U.nodes[n].head_in,
                        U.nodes[n].tail_in, U.nodes[n].in_size)
    <3>1. CASE n \in NodeIDs(T)
      BY <1>3, <1>4, <1>8, <3>1 DEF Linked, InLinked
    <3>2. CASE n = Len(T.nodes) + 1
      BY <1>2, <1>3, <1>4, <1>8, <1>9, <1>10, <3>2
    <3> QED
      BY <1>6, <3>1, <3>2
  <2>2. \A a \in 1 .. Len(U.arcs) :
          IsNext(ArcsInto(U, U.arcs[a].target, Len(U.arcs)), a, U.arcs[a].next_in)
    BY <1>3, <1>8 DEF Linked, InLinked
  <2> QED
    BY <2>1, <2>2 DEF InLinked
<1> QED
  BY <1>3, <1>4, <1>5, <1>7, <1>11, <1>12 DEF IsTree, Linked

\* SearchTree ( data ): the root arc is in the in-list of the root.
THEOREM NewTreeLists ==
  ASSUME NEW D, NEW noData \in D, NEW d \in D, NEW T, T = NewTree(noData, d)
  PROVE  /\ IsTree(T, D) /\ Linked(T)
         /\ Len(T.arcs) = 1 /\ Len(T.nodes) = 1
         /\ T.nodes[1].data = d /\ T.nodes[1].head_out = invalid
<1>1. PICK r : r = [NewNode(d) EXCEPT !.head_in = root_arc, !.tail_in = root_arc,
                                      !.in_size = 1]
  OBVIOUS
<1>2. PICK a : a = NewArc(invalid, root_node, noData)
  OBVIOUS
<1>3. T.arcs = <<a>> /\ T.nodes = <<r>> /\ T = [arcs |-> <<a>>, nodes |-> <<r>>]
  BY <1>1, <1>2 DEF NewTree
<1>4. /\ r \in Node(D) /\ r.data = d
      /\ r.head_in = 1 /\ r.tail_in = 1 /\ r.in_size = 1
      /\ r.head_out = 0 /\ r.tail_out = 0 /\ r.out_size = 0
  BY <1>1 DEF NewNode, Node, root_arc, invalid
<1>5. /\ a \in Arc(D) /\ a.source = 0 /\ a.target = 1
      /\ a.next_in = 0 /\ a.next_out = 0
  BY <1>2 DEF NewArc, Arc, root_node, invalid
<1>6. /\ Len(T.arcs) = 1 /\ Len(T.nodes) = 1 /\ T.arcs[1] = a /\ T.nodes[1] = r
      /\ NodeIDs(T) = {1} /\ ArcIDs(T) = {1}
  BY <1>3 DEF NodeIDs, ArcIDs
<1>7. T \in TreeValue(D) /\ EndsExist(T)
  <2>1. <<a>> \in Seq(Arc(D)) /\ <<r>> \in Seq(Node(D))
    BY <1>4, <1>5
  <2>2. T \in TreeValue(D)
    BY <1>3, <2>1 DEF TreeValue
  <2> QED
    BY <1>5, <1>6, <2>2 DEF EndsExist, root_arc, root_node, invalid
<1>8. /\ ArcsFrom(T, 1, 1) = {} /\ ArcsFrom(T, 0, 1) = {1}
      /\ ArcsInto(T, 1, 1) = {1}
  BY <1>5, <1>6 DEF ArcsFrom, ArcsInto
<1>9. Cardinality({}) = 0 /\ Cardinality({1}) = 1
  BY FS_EmptySet, FS_Singleton
<1>10. OutLinked(T, 1)
  BY <1>4, <1>5, <1>6, <1>8, <1>9 DEF OutLinked, ListEnds, IsNext, invalid
<1>11. InLinked(T, 1)
  BY <1>4, <1>5, <1>6, <1>8, <1>9 DEF InLinked, ListEnds, IsNext, invalid
<1> QED
  BY <1>4, <1>6, <1>7, <1>10, <1>11 DEF IsTree, Linked, invalid

\* The lists of a tree are what WalkLists asks for.
LEMMA ListsAreForward ==
  ASSUME NEW D, NEW T, IsTree(T, D), Linked(T),
         NEW nextIns, nextIns = [a \in ArcIDs(T) |-> nextIn(T, a)],
         NEW nextOuts, nextOuts = [a \in ArcIDs(T) |-> nextOut(T, a)]
  PROVE  /\ Forward(nextIns, Len(T.arcs)) /\ Forward(nextOuts, Len(T.arcs))
         /\ \A n \in NodeIDs(T) :
              /\ ArcsInto(T, n, Len(T.arcs)) \in SUBSET (1 .. Len(T.arcs))
              /\ ArcsFrom(T, n, Len(T.arcs)) \in SUBSET (1 .. Len(T.arcs))
              /\ \A a \in ArcsInto(T, n, Len(T.arcs)) :
                   IsNext(ArcsInto(T, n, Len(T.arcs)), a, nextIns[a])
              /\ \A a \in ArcsFrom(T, n, Len(T.arcs)) :
                   IsNext(ArcsFrom(T, n, Len(T.arcs)), a, nextOuts[a])
<1>1. ASSUME NEW a \in 1 .. Len(T.arcs)
      PROVE  /\ nextIns[a] = T.arcs[a].next_in /\ nextOuts[a] = T.arcs[a].next_out
             /\ IsNext(ArcsInto(T, T.arcs[a].target, Len(T.arcs)), a, nextIns[a])
             /\ IsNext(ArcsFrom(T, T.arcs[a].source, Len(T.arcs)), a, nextOuts[a])
  BY DEF Linked, InLinked, OutLinked, ArcIDs, nextIn, nextOut
<1>2. Forward(nextIns, Len(T.arcs))
  BY <1>1 DEF Forward, IsNext, ArcsInto, ArcIDs
<1>3. Forward(nextOuts, Len(T.arcs))
  BY <1>1 DEF Forward, IsNext, ArcsFrom, ArcIDs
<1>4. ASSUME NEW n
      PROVE  /\ ArcsInto(T, n, Len(T.arcs)) \in SUBSET (1 .. Len(T.arcs))
             /\ ArcsFrom(T, n, Len(T.arcs)) \in SUBSET (1 .. Len(T.arcs))
             /\ \A a \in ArcsInto(T, n, Len(T.arcs)) : a \in 1 .. Len(T.arcs) /\ T.arcs[a].target = n
             /\ \A a \in ArcsFrom(T, n, Len(T.arcs)) : a \in 1 .. Len(T.arcs) /\ T.arcs[a].source = n
  BY DEF ArcsInto, ArcsFrom
<1> QED
  BY <1>1, <1>2, <1>3, <1>4

\* Walking an in-list or an out-list of a tree delivers the arcs of the node,
\* each once, from the oldest to the newest.
THEOREM IteratorsDeliverLists ==
  ASSUME NEW D, NEW T, IsTree(T, D), Linked(T), NEW n \in NodeIDs(T)
  PROVE  /\ Lists(inArcs(T, n), ArcsInto(T, n, Len(T.arcs)))
         /\ Lists(outArcs(T, n), ArcsFrom(T, n, Len(T.arcs)))
<1>1. Len(T.arcs) \in Nat
  BY TreeFields DEF IsTree
<1>2. PICK nextIns, nextOuts : /\ nextIns = [a \in ArcIDs(T) |-> nextIn(T, a)]
                               /\ nextOuts = [a \in ArcIDs(T) |-> nextOut(T, a)]
  OBVIOUS
<1>3. /\ ListEnds(ArcsInto(T, n, Len(T.arcs)), T.nodes[n].head_in, T.nodes[n].tail_in, T.nodes[n].in_size)
      /\ ListEnds(ArcsFrom(T, n, Len(T.arcs)), T.nodes[n].head_out, T.nodes[n].tail_out, T.nodes[n].out_size)
  BY DEF Linked, InLinked, OutLinked
<1>4. PICK N, I, O : N = Len(T.arcs) /\ I = ArcsInto(T, n, Len(T.arcs)) /\ O = ArcsFrom(T, n, Len(T.arcs))
  OBVIOUS
<1>5. /\ Forward(nextIns, N) /\ I \in SUBSET (1 .. N)
      /\ \A a \in I : IsNext(I, a, nextIns[a])
  BY <1>2, <1>4, ListsAreForward
<1>6. /\ Forward(nextOuts, N) /\ O \in SUBSET (1 .. N)
      /\ \A a \in O : IsNext(O, a, nextOuts[a])
  BY <1>2, <1>4, ListsAreForward
<1>7. Lists(Walk(nextIns, T.nodes[n].head_in), I)
  BY <1>1, <1>3, <1>4, <1>5, WalkLists
<1>8. Lists(Walk(nextOuts, T.nodes[n].head_out), O)
  BY <1>1, <1>3, <1>4, <1>6, WalkLists
<1> QED
  BY <1>2, <1>4, <1>7, <1>8 DEF inArcs, outArcs, beginIn, beginOut

\* link ( source, target ), which searches the in-list of the target, finds the
\* oldest arc from the source to the target, or none when there is none.
THEOREM LinkFinds ==
  ASSUME NEW D, NEW T, IsTree(T, D), Linked(T), NEW s \in NodeIDs(T), NEW t \in NodeIDs(T),
         NEW both, both = {a \in ArcIDs(T) : T.arcs[a].source = s /\ T.arcs[a].target = t},
         NEW found, found = link(T, s, t)
  PROVE  IF both = {} THEN found = invalid
                      ELSE found \in both /\ \A a \in both : found <= a
<1>1. PICK N : N = Len(T.arcs)
  OBVIOUS
<1>2. N \in Nat /\ ArcIDs(T) = 1 .. N
  BY <1>1, TreeFields DEF IsTree, ArcIDs
<1>3. PICK next, nextOuts : /\ next = [a \in ArcIDs(T) |-> nextIn(T, a)]
                            /\ nextOuts = [a \in ArcIDs(T) |-> nextOut(T, a)]
  OBVIOUS
<1>4. PICK S : S = ArcsInto(T, t, N)
  OBVIOUS
<1>5. /\ Forward(next, N) /\ S \in SUBSET (1 .. N)
      /\ \A a \in S : IsNext(S, a, next[a])
  BY <1>1, <1>3, <1>4, ListsAreForward
<1>6. PICK V, v0, F : /\ V = 0 .. N /\ v0 = 0
                      /\ F = [a \in 1 .. N |-> [x \in V |-> IF T.arcs[a].source = s THEN a ELSE x]]
  OBVIOUS
<1>7. v0 \in V /\ F \in [1 .. N -> [V -> V]]
  BY <1>2, <1>6
<1>8. PICK g : Recursive(g, next, N, V, v0, F)
  BY <1>2, <1>5, <1>7, RecursionDefined
<1>9. /\ g \in [ArcIDs(T) \union {invalid} -> V] /\ g[invalid] = invalid
      /\ DOMAIN next = ArcIDs(T)
  BY <1>2, <1>3, <1>6, <1>8 DEF Recursive, invalid
<1>10. ASSUME NEW a \in 1 .. N
       PROVE  /\ a # invalid /\ next[a] = nextIn(T, a)
              /\ g[a] = IF T.arcs[a].source = s THEN a ELSE g[nextIn(T, a)]
  <2>1. a # invalid /\ next[a] = nextIn(T, a) /\ next[a] \in ArcIDs(T) \union {invalid}
    BY <1>2, <1>3, <1>5 DEF Forward, invalid
  <2>2. g[next[a]] \in V
    BY <1>9, <2>1
  <2> QED
    BY <1>6, <1>8, <2>1, <2>2 DEF Recursive
<1>11. g = [a \in ArcIDs(T) \union {invalid} |->
              IF a = invalid \/ T.arcs[a].source = s THEN a ELSE g[nextIn(T, a)]]
  <2>1. \A a \in ArcIDs(T) \union {invalid} :
          g[a] = IF a = invalid \/ T.arcs[a].source = s THEN a ELSE g[nextIn(T, a)]
    BY <1>2, <1>9, <1>10
  <2> QED
    BY <1>9, <2>1
<1> DEFINE search == CHOOSE f : f = [a \in ArcIDs(T) \union {invalid} |->
              IF a = invalid \/ T.arcs[a].source = s THEN a ELSE f[nextIn(T, a)]]
<1>12. search = [a \in ArcIDs(T) \union {invalid} |->
              IF a = invalid \/ T.arcs[a].source = s THEN a ELSE search[nextIn(T, a)]]
  BY <1>11
<1>13. found = search[beginIn(T, t)]
  BY DEF link
<1> HIDE DEF search
<1>14. /\ search[invalid] = invalid
       /\ \A a \in S : search[a] = IF T.arcs[a].source = s THEN a ELSE search[next[a]]
  <2>1. \A a \in S : a \in ArcIDs(T) /\ a # invalid /\ next[a] = nextIn(T, a)
    BY <1>2, <1>5, <1>10
  <2> QED
    BY <1>12, <2>1
<1> DEFINE From(b) == {a \in S : b <= a /\ T.arcs[a].source = s}
           Finds(b) == IF From(b) = {} THEN search[b] = invalid
                       ELSE search[b] \in From(b) /\ \A a \in From(b) : search[b] <= a
           Good == {b \in S : Finds(b)}
<1>15. \A a \in S : a \in Nat
  BY <1>5
<1>16. ASSUME NEW b \in S, NEW nx, nx = next[b], nx = invalid \/ nx \in S \cap Good
       PROVE  b \in Good
  <2>1. b \in Nat /\ IsNext(S, b, nx)
    BY <1>5, <1>15, <1>16
  <2>2. CASE T.arcs[b].source = s
    <3>1. search[b] = b /\ b \in From(b)
      BY <1>14, <1>15, <2>2
    <3> QED
      BY <3>1
  <2>3. CASE T.arcs[b].source # s /\ nx = invalid
    <3>1. \A c \in S : c <= b
      BY <2>1, <2>3 DEF IsNext
    <3>2. From(b) = {}
      <4>1. \A c \in S : b <= c => c = b
        BY <1>15, <2>1, <3>1
      <4> QED
        BY <2>3, <4>1
    <3>3. search[b] = invalid
      BY <1>14, <1>16, <2>3
    <3> QED
      BY <3>2, <3>3
  <2>4. CASE T.arcs[b].source # s /\ nx # invalid
    <3>1. nx \in S /\ b < nx /\ \A c \in S : b < c => nx <= c
      BY <2>1, <2>4 DEF IsNext
    <3>2. ASSUME NEW c \in S, T.arcs[c].source = s PROVE b <= c <=> nx <= c
      BY <1>15, <2>1, <2>4, <3>1, <3>2
    <3>3. From(b) = From(nx)
      BY <3>2
    <3>4. search[b] = search[nx]
      BY <1>14, <1>16, <2>4
    <3>5. Finds(nx)
      <4> HIDE DEF Finds
      <4> QED
        BY <1>16, <2>4
    <3>6. Finds(b)
      <4> HIDE DEF From
      <4> QED
        BY <3>3, <3>4, <3>5
    <3> HIDE DEF Finds
    <3> QED
      BY <3>6
  <2> QED
    BY <2>2, <2>3, <2>4
<1>17. S \subseteq Good
  <2> HIDE DEF Good
  <2>1. \A b \in S : next[b] = invalid \/ next[b] \in S \cap Good => b \in Good
    BY <1>16
  <2> QED
    BY <1>2, <1>5, <2>1, ListInduction
<1>18. PICK head, tail, size : head = beginIn(T, t) /\ ListEnds(S, head, tail, size)
  BY <1>1, <1>4 DEF Linked, InLinked, beginIn
<1>19. both = {a \in S : T.arcs[a].source = s}
  BY <1>2, <1>4 DEF ArcsInto
<1>20. CASE S = {}
  BY <1>13, <1>14, <1>18, <1>19, <1>20 DEF ListEnds
<1>21. CASE S # {}
  <2>1. head \in S /\ \A a \in S : head <= a
    BY <1>18, <1>21 DEF ListEnds
  <2>2. From(head) = both
    BY <1>19, <2>1
  <2>3. Finds(head)
    <3> HIDE DEF Finds
    <3> QED
      BY <1>17, <2>1
  <2> HIDE DEF From
  <2> QED
    BY <1>13, <1>18, <2>2, <2>3
<1> QED
  BY <1>20, <1>21

---------------------------------------------------------------------------
(***************************************************************************)
(* The lists as the sequences the iterators deliver.                       *)
(***************************************************************************)
\* A list is empty when its head is invalid, and there is one sequence that
\* lists the arcs of a node.
LEMMA WalkOf ==
  ASSUME NEW D, NEW T, IsTree(T, D), Linked(T), NEW n \in NodeIDs(T)
  PROVE  /\ ArcsInto(T, n, Len(T.arcs)) \in SUBSET Nat
         /\ ArcsFrom(T, n, Len(T.arcs)) \in SUBSET Nat
         /\ \A w : Lists(w, ArcsInto(T, n, Len(T.arcs))) => w = inArcs(T, n)
         /\ \A w : Lists(w, ArcsFrom(T, n, Len(T.arcs))) => w = outArcs(T, n)
         /\ inArcs(T, n) # <<>> <=> beginIn(T, n) # invalid
         /\ outArcs(T, n) # <<>> <=> beginOut(T, n) # invalid
<1>1. PICK I, O : I = ArcsInto(T, n, Len(T.arcs)) /\ O = ArcsFrom(T, n, Len(T.arcs))
  OBVIOUS
<1>2. I \in SUBSET Nat /\ O \in SUBSET Nat /\ invalid \notin I /\ invalid \notin O
  BY <1>1 DEF ArcsInto, ArcsFrom, invalid
<1>3. Lists(inArcs(T, n), I) /\ Lists(outArcs(T, n), O)
  BY <1>1, IteratorsDeliverLists
<1>4. ASSUME NEW w, NEW S \in SUBSET Nat, Lists(w, S) PROVE w # <<>> <=> S # {}
  <2>1. w \in Seq(Nat) /\ {w[i] : i \in 1 .. Len(w)} = S
    BY <1>4 DEF Lists
  <2>2. w = <<>> <=> Len(w) = 0
    BY <2>1
  <2>3. Len(w) \in Nat
    BY <2>1
  <2>4. CASE Len(w) = 0
    BY <2>1, <2>2, <2>4
  <2>5. CASE Len(w) # 0
    <3>1. 1 \in 1 .. Len(w)
      BY <2>3, <2>5
    <3> QED
      BY <2>1, <2>2, <2>5, <3>1
  <2> QED
    BY <2>4, <2>5
<1>5. (I # {} <=> beginIn(T, n) # invalid) /\ (O # {} <=> beginOut(T, n) # invalid)
  BY <1>1, <1>2 DEF Linked, InLinked, OutLinked, ListEnds, beginIn, beginOut
<1>6. \A w : Lists(w, I) => w = inArcs(T, n)
  BY <1>2, <1>3, ListsUnique
<1>7. \A w : Lists(w, O) => w = outArcs(T, n)
  BY <1>2, <1>3, ListsUnique
<1>8. (inArcs(T, n) # <<>> <=> I # {}) /\ (outArcs(T, n) # <<>> <=> O # {})
  BY <1>2, <1>3, <1>4
<1> QED
  BY <1>1, <1>2, <1>5, <1>6, <1>7, <1>8

\* addNode changes no list, and the new node has empty ones.
LEMMA AddNodeWalks ==
  ASSUME NEW D, NEW T, IsTree(T, D), Linked(T), NEW d \in D, NEW U, U = addNode(T, d),
         NEW m, m = Len(T.nodes) + 1
  PROVE  /\ NodeIDs(U) = NodeIDs(T) \union {m} /\ m \notin NodeIDs(T) /\ m \in NodeIDs(U)
         /\ NodeIDs(T) = 1 .. m - 1 /\ m \in Nat \ {0}
         /\ \A n \in NodeIDs(T) : inArcs(U, n) = inArcs(T, n) /\ outArcs(U, n) = outArcs(T, n)
         /\ inArcs(U, m) = <<>> /\ outArcs(U, m) = <<>>
<1>1. /\ IsTree(U, D) /\ Linked(U) /\ U.arcs = T.arcs
      /\ Len(U.nodes) = Len(T.nodes) + 1
  BY AddNodeKeepsLists
<1>2. Len(T.nodes) \in Nat /\ Len(T.arcs) \in Nat
  BY TreeFields DEF IsTree
<1>4. /\ NodeIDs(U) = NodeIDs(T) \union {m} /\ m \notin NodeIDs(T) /\ m \in NodeIDs(U)
      /\ NodeIDs(T) = 1 .. m - 1 /\ m \in Nat \ {0}
  BY <1>1, <1>2 DEF NodeIDs
<1>5. ASSUME NEW n
      PROVE  /\ ArcsInto(U, n, Len(U.arcs)) = ArcsInto(T, n, Len(T.arcs))
             /\ ArcsFrom(U, n, Len(U.arcs)) = ArcsFrom(T, n, Len(T.arcs))
  BY <1>1 DEF ArcsInto, ArcsFrom
<1>6. ASSUME NEW n \in NodeIDs(T)
      PROVE  inArcs(U, n) = inArcs(T, n) /\ outArcs(U, n) = outArcs(T, n)
  <2>1. /\ Lists(inArcs(U, n), ArcsInto(T, n, Len(T.arcs)))
        /\ Lists(outArcs(U, n), ArcsFrom(T, n, Len(T.arcs)))
    BY <1>1, <1>4, <1>5, IteratorsDeliverLists
  <2> QED
    BY <2>1, WalkOf
<1>7. ArcsInto(U, m, Len(U.arcs)) = {} /\ ArcsFrom(U, m, Len(U.arcs)) = {}
  <2>1. /\ \A a \in ArcIDs(T) : T.arcs[a].target # m /\ T.arcs[a].source # m
    BY <1>4 DEF IsTree, EndsExist, root_arc, invalid
  <2>2. ArcsInto(T, m, Len(T.arcs)) = {} /\ ArcsFrom(T, m, Len(T.arcs)) = {}
    BY ONLY <2>1 DEF ArcsInto, ArcsFrom, ArcIDs
  <2> QED
    BY ONLY <1>5, <2>2
<1>8. inArcs(U, m) = <<>> /\ outArcs(U, m) = <<>>
  <2>1. Lists(<<>>, {})
    BY DEF Lists
  <2>2. /\ Lists(<<>>, ArcsInto(U, m, Len(U.arcs)))
        /\ Lists(<<>>, ArcsFrom(U, m, Len(U.arcs)))
    BY <1>7, <2>1
  <2> QED
    BY <1>1, <1>4, <2>2, WalkOf
<1> QED
  BY <1>4, <1>6, <1>8

\* addArc appends the arc to the out-list of its source and to the in-list of its
\* target.
LEMMA AddArcWalks ==
  ASSUME NEW D, NEW T, IsTree(T, D), Linked(T), NEW s \in NodeIDs(T), NEW t \in NodeIDs(T),
         NEW d \in D, NEW U, U = addArc(T, s, t, d), NEW id, id = Len(T.arcs) + 1
  PROVE  /\ ArcIDs(U) = 1 .. id /\ ArcIDs(T) = 1 .. id - 1 /\ id \in Nat \ {0}
         /\ NodeIDs(U) = NodeIDs(T)
         /\ \A n \in NodeIDs(T) :
              /\ inArcs(U, n) = IF n = t THEN Append(inArcs(T, n), id) ELSE inArcs(T, n)
              /\ outArcs(U, n) = IF n = s THEN Append(outArcs(T, n), id) ELSE outArcs(T, n)
<1>1. /\ IsTree(U, D) /\ Linked(U) /\ GrownFrom(U, T)
      /\ Len(U.arcs) = id /\ Len(U.nodes) = Len(T.nodes)
      /\ U.arcs[id].source = s /\ U.arcs[id].target = t
  BY AddArcKeepsLists
<1>2. Len(T.nodes) \in Nat /\ Len(T.arcs) \in Nat
  BY TreeFields DEF IsTree
<1>3. /\ ArcIDs(U) = 1 .. id /\ ArcIDs(T) = 1 .. id - 1 /\ id \in Nat \ {0}
      /\ NodeIDs(U) = NodeIDs(T) /\ s \in Nat /\ t \in Nat
  BY <1>1, <1>2 DEF NodeIDs, ArcIDs
<1>4. \A a \in 1 .. id - 1 : /\ U.arcs[a].source = T.arcs[a].source
                             /\ U.arcs[a].target = T.arcs[a].target
  BY <1>1, <1>3 DEF GrownFrom
<1>7. ASSUME NEW n \in NodeIDs(T)
      PROVE  /\ Lists(inArcs(T, n), ArcsInto(T, n, Len(T.arcs)))
             /\ Lists(outArcs(T, n), ArcsFrom(T, n, Len(T.arcs)))
             /\ \A a \in ArcsInto(T, n, Len(T.arcs)) : a < id
             /\ \A a \in ArcsFrom(T, n, Len(T.arcs)) : a < id
             /\ ArcsInto(T, n, Len(T.arcs)) \in SUBSET Nat
             /\ ArcsFrom(T, n, Len(T.arcs)) \in SUBSET Nat
  <2>1. /\ Lists(inArcs(T, n), ArcsInto(T, n, Len(T.arcs)))
        /\ Lists(outArcs(T, n), ArcsFrom(T, n, Len(T.arcs)))
    BY IteratorsDeliverLists
  <2>2. \A a \in 1 .. Len(T.arcs) : a < id /\ a \in Nat
    BY <1>2
  <2>3. /\ ArcsInto(T, n, Len(T.arcs)) \in SUBSET (1 .. Len(T.arcs))
        /\ ArcsFrom(T, n, Len(T.arcs)) \in SUBSET (1 .. Len(T.arcs))
    BY DEF ArcsInto, ArcsFrom
  <2> QED
    BY <2>1, <2>2, <2>3
<1>8. ASSUME NEW n \in NodeIDs(T)
      PROVE  /\ ArcsInto(U, n, Len(U.arcs)) =
                  IF n = t THEN ArcsInto(T, n, Len(T.arcs)) \union {id}
                           ELSE ArcsInto(T, n, Len(T.arcs))
             /\ ArcsFrom(U, n, Len(U.arcs)) =
                  IF n = s THEN ArcsFrom(T, n, Len(T.arcs)) \union {id}
                           ELSE ArcsFrom(T, n, Len(T.arcs))
  <2>1. 1 .. Len(U.arcs) = (1 .. id - 1) \union {id} /\ 1 .. Len(T.arcs) = 1 .. id - 1
    BY <1>1, <1>2
  <2> QED
    BY <1>1, <1>4, <2>1 DEF ArcsInto, ArcsFrom
<1>9. ASSUME NEW n \in NodeIDs(T)
      PROVE  inArcs(U, n) = IF n = t THEN Append(inArcs(T, n), id) ELSE inArcs(T, n)
  <2>1. Lists(Append(inArcs(T, n), id), ArcsInto(T, n, Len(T.arcs)) \union {id})
    BY <1>3, <1>7, AppendLists
  <2>2. Lists(IF n = t THEN Append(inArcs(T, n), id) ELSE inArcs(T, n),
              ArcsInto(U, n, Len(U.arcs)))
    BY <1>7, <1>8, <2>1
  <2> QED
    BY <1>1, <1>3, <2>2, WalkOf
<1>10. ASSUME NEW n \in NodeIDs(T)
       PROVE  outArcs(U, n) = IF n = s THEN Append(outArcs(T, n), id) ELSE outArcs(T, n)
  <2>1. Lists(Append(outArcs(T, n), id), ArcsFrom(T, n, Len(T.arcs)) \union {id})
    BY <1>3, <1>7, AppendLists
  <2>2. Lists(IF n = s THEN Append(outArcs(T, n), id) ELSE outArcs(T, n),
              ArcsFrom(U, n, Len(U.arcs)))
    BY <1>7, <1>8, <2>1
  <2> QED
    BY <1>1, <1>3, <2>2, WalkOf
<1> QED
  BY <1>3, <1>9, <1>10

\* The out-list of a node by position: its arcs, each once, with beginOut and
\* nextOut walking from one to the next.
LEMMA OutListOf ==
  ASSUME NEW D, NEW T, IsTree(T, D), Linked(T), NEW n \in NodeIDs(T),
         NEW w, w = outArcs(T, n)
  PROVE  /\ w \in Seq(Nat) /\ Len(w) \in Nat /\ Len(w) = outArcNum(T, n)
         /\ \A i \in 1 .. Len(w) : w[i] \in ArcIDs(T) /\ T.arcs[w[i]].source = n
         /\ \A i, j \in 1 .. Len(w) : w[i] = w[j] => i = j
         /\ \A a \in ArcIDs(T) : T.arcs[a].source = n => \E i \in 1 .. Len(w) : w[i] = a
         /\ beginOut(T, n) = IF Len(w) = 0 THEN invalid ELSE w[1]
         /\ \A i \in 1 .. Len(w) : nextOut(T, w[i]) = IF i < Len(w) THEN w[i + 1] ELSE invalid
<1>1. PICK S : S = ArcsFrom(T, n, Len(T.arcs))
  OBVIOUS
<1>2. S \in SUBSET (Nat \ {0}) /\ S \in SUBSET Nat
  BY <1>1 DEF ArcsFrom
<1>3. Lists(w, S)
  BY <1>1, IteratorsDeliverLists
<1>4. \A a : a \in S <=> a \in ArcIDs(T) /\ T.arcs[a].source = n
  BY <1>1 DEF ArcsFrom, ArcIDs
<1>5. /\ w \in Seq(Nat) /\ Len(w) \in Nat /\ \A i \in 1 .. Len(w) : w[i] \in S /\ w[i] \in Nat
      /\ \A i, j \in 1 .. Len(w) : i < j => w[i] < w[j]
      /\ \A a \in S : \E i \in 1 .. Len(w) : w[i] = a
  BY <1>2, <1>3, ListsFields
<1>6. ListEnds(S, beginOut(T, n), T.nodes[n].tail_out, outArcNum(T, n))
  BY <1>1 DEF Linked, OutLinked, beginOut, outArcNum
<1>7. Len(w) = outArcNum(T, n) /\ beginOut(T, n) = IF Len(w) = 0 THEN invalid ELSE w[1]
  BY <1>2, <1>3, <1>6, ListsHead
<1>8. ASSUME NEW i \in 1 .. Len(w)
      PROVE  nextOut(T, w[i]) = IF i < Len(w) THEN w[i + 1] ELSE invalid
  <2>1. w[i] \in 1 .. Len(T.arcs) /\ T.arcs[w[i]].source = n
    BY <1>4, <1>5 DEF ArcIDs
  <2>2. IsNext(S, w[i], nextOut(T, w[i]))
    BY <1>1, <2>1 DEF Linked, OutLinked, nextOut
  <2> QED
    BY <1>2, <1>3, <2>2, ListsNext
<1>9. \A i, j \in 1 .. Len(w) : w[i] = w[j] => i = j
  <2> SUFFICES ASSUME NEW i \in 1 .. Len(w), NEW j \in 1 .. Len(w), w[i] = w[j] PROVE i = j
    OBVIOUS
  <2>1. i < j \/ j < i \/ i = j
    BY <1>5
  <2>2. w[i] \in Nat /\ w[j] \in Nat
    BY <1>5
  <2> QED
    BY <1>5, <2>1, <2>2
<1> QED
  BY <1>4, <1>5, <1>7, <1>8, <1>9

\* A node of a new tree has no out-arcs.
LEMMA NewTreeWalks ==
  ASSUME NEW D, NEW noData \in D, NEW d \in D, NEW T, T = NewTree(noData, d)
  PROVE  outArcs(T, root_node) = <<>> /\ T.arcs[root_arc].data = noData
<1>1. IsTree(T, D) /\ Linked(T) /\ Len(T.nodes) = 1 /\ T.nodes[1].head_out = invalid
  BY NewTreeLists
<1>2. 1 \in NodeIDs(T) /\ beginOut(T, 1) = invalid
  BY <1>1 DEF NodeIDs, beginOut
<1>3. outArcs(T, 1) = <<>>
  BY <1>1, <1>2, WalkOf
<1>4. T.arcs[1].data = noData
  BY DEF NewTree, NewArc
<1> QED
  BY <1>3, <1>4 DEF root_node, root_arc

---------------------------------------------------------------------------
(***************************************************************************)
(* Payloads.  Writing them changes no list.                                *)
(***************************************************************************)
\* Two trees that differ in their payloads only.
SameGraph(T, U) ==
  /\ Len(T.arcs) = Len(U.arcs) /\ Len(T.nodes) = Len(U.nodes)
  /\ \A a \in ArcIDs(U) :
       /\ T.arcs[a].source = U.arcs[a].source /\ T.arcs[a].target = U.arcs[a].target
       /\ T.arcs[a].next_in = U.arcs[a].next_in /\ T.arcs[a].next_out = U.arcs[a].next_out
  /\ \A n \in NodeIDs(U) :
       /\ T.nodes[n].head_in = U.nodes[n].head_in /\ T.nodes[n].tail_in = U.nodes[n].tail_in
       /\ T.nodes[n].head_out = U.nodes[n].head_out /\ T.nodes[n].tail_out = U.nodes[n].tail_out
       /\ T.nodes[n].in_size = U.nodes[n].in_size /\ T.nodes[n].out_size = U.nodes[n].out_size

withNodeData(T, n, v) ==
  [T EXCEPT !.nodes = [T.nodes EXCEPT ![n] = [T.nodes[n] EXCEPT !.data = v]]]
withArcData(T, a, v) ==
  [T EXCEPT !.arcs = [T.arcs EXCEPT ![a] = [T.arcs[a] EXCEPT !.data = v]]]

\* A payload of the type is written.
LEMMA DataWritten ==
  ASSUME NEW D, NEW v \in D
  PROVE  /\ \A r \in Node(D) : [r EXCEPT !.data = v] \in Node(D)
         /\ \A r \in Arc(D) : [r EXCEPT !.data = v] \in Arc(D)
<1>1. ASSUME NEW r \in Node(D) PROVE [r EXCEPT !.data = v] \in Node(D)
  BY DEF Node
<1>2. ASSUME NEW r \in Arc(D) PROVE [r EXCEPT !.data = v] \in Arc(D)
  BY DEF Arc
<1> QED
  BY <1>1, <1>2

\* Writing the payload of a node writes nothing else.
LEMMA NodeDataWrites ==
  ASSUME NEW D, NEW v \in D, NEW T, IsTree(T, D), NEW n \in NodeIDs(T), NEW U, U = withNodeData(T, n, v)
  PROVE  /\ IsTree(U, D) /\ SameGraph(U, T) /\ U.arcs = T.arcs
         /\ \A m \in NodeIDs(T) : U.nodes[m].data = IF m = n THEN v ELSE T.nodes[m].data
<1>1. T \in TreeValue(D) /\ EndsExist(T)
  BY DEF IsTree
<1>2. /\ T.nodes \in Seq(Node(D)) /\ T.arcs \in Seq(Arc(D))
      /\ T.nodes[n] \in Node(D) /\ Len(T.nodes) \in Nat
  BY <1>1, TreeFields
<1>3. PICK x : x = [T.nodes[n] EXCEPT !.data = v]
  OBVIOUS
<1>4. /\ x \in Node(D)
      /\ x.head_in = T.nodes[n].head_in /\ x.tail_in = T.nodes[n].tail_in
      /\ x.head_out = T.nodes[n].head_out /\ x.tail_out = T.nodes[n].tail_out
      /\ x.in_size = T.nodes[n].in_size /\ x.out_size = T.nodes[n].out_size
      /\ x.data = v
  <2>1. PICK r \in Node(D) : r = T.nodes[n]
    BY <1>2
  <2>2. x = [r EXCEPT !.data = v]
    BY <1>3, <2>1
  <2>3. x \in Node(D)
    BY <2>2, DataWritten
  <2> QED
    BY <2>1, <2>2, <2>3 DEF Node
<1>5. U.arcs = T.arcs /\ U.nodes = [T.nodes EXCEPT ![n] = x]
  <2>1. U = [T EXCEPT !.nodes = [T.nodes EXCEPT ![n] = x]]
    BY <1>3 DEF withNodeData
  <2> QED
    BY <1>1, <2>1 DEF TreeValue
<1>6. /\ U.nodes \in Seq(Node(D)) /\ Len(U.nodes) = Len(T.nodes)
      /\ \A m \in NodeIDs(T) : U.nodes[m] = IF m = n THEN x ELSE T.nodes[m]
  BY <1>2, <1>4, <1>5 DEF NodeIDs
<1>7. U = [arcs |-> U.arcs, nodes |-> U.nodes]
  <2>1. DOMAIN T = {"arcs", "nodes"}
    BY <1>1 DEF TreeValue
  <2>2. U = [T EXCEPT !.nodes = U.nodes]
    BY <1>3, <1>5 DEF withNodeData
  <2> QED
    BY <1>1, <1>5, <2>2 DEF TreeValue
<1>8. U \in TreeValue(D)
  BY <1>2, <1>5, <1>6, <1>7 DEF TreeValue
<1>9. EndsExist(U)
  BY <1>1, <1>5, <1>6 DEF EndsExist, ArcIDs, NodeIDs
<1>10. SameGraph(U, T)
  BY <1>4, <1>5, <1>6 DEF SameGraph
<1> QED
  BY <1>4, <1>5, <1>6, <1>8, <1>9, <1>10 DEF IsTree

\* Writing the payload of an arc writes nothing else.
LEMMA ArcDataWrites ==
  ASSUME NEW D, NEW v \in D, NEW T, IsTree(T, D), NEW a \in ArcIDs(T), NEW U, U = withArcData(T, a, v)
  PROVE  /\ IsTree(U, D) /\ SameGraph(U, T) /\ U.nodes = T.nodes
         /\ \A b \in ArcIDs(T) : U.arcs[b].data = IF b = a THEN v ELSE T.arcs[b].data
<1>1. T \in TreeValue(D) /\ EndsExist(T)
  BY DEF IsTree
<1>2. /\ T.nodes \in Seq(Node(D)) /\ T.arcs \in Seq(Arc(D))
      /\ T.arcs[a] \in Arc(D) /\ Len(T.arcs) \in Nat
  BY <1>1, TreeFields
<1>3. PICK x : x = [T.arcs[a] EXCEPT !.data = v]
  OBVIOUS
<1>4. /\ x \in Arc(D)
      /\ x.source = T.arcs[a].source /\ x.target = T.arcs[a].target
      /\ x.next_in = T.arcs[a].next_in /\ x.next_out = T.arcs[a].next_out
      /\ x.data = v
  <2>1. PICK r \in Arc(D) : r = T.arcs[a]
    BY <1>2
  <2>2. x = [r EXCEPT !.data = v]
    BY <1>3, <2>1
  <2>3. x \in Arc(D)
    BY <2>2, DataWritten
  <2> QED
    BY <2>1, <2>2, <2>3 DEF Arc
<1>5. U.nodes = T.nodes /\ U.arcs = [T.arcs EXCEPT ![a] = x]
  <2>1. U = [T EXCEPT !.arcs = [T.arcs EXCEPT ![a] = x]]
    BY <1>3 DEF withArcData
  <2> QED
    BY <1>1, <2>1 DEF TreeValue
<1>6. /\ U.arcs \in Seq(Arc(D)) /\ Len(U.arcs) = Len(T.arcs)
      /\ \A b \in ArcIDs(T) : U.arcs[b] = IF b = a THEN x ELSE T.arcs[b]
  BY <1>2, <1>4, <1>5 DEF ArcIDs
<1>7. U = [arcs |-> U.arcs, nodes |-> U.nodes]
  <2>1. U = [T EXCEPT !.arcs = U.arcs]
    BY <1>3, <1>5 DEF withArcData
  <2> QED
    BY <1>1, <1>5, <2>1 DEF TreeValue
<1>8. U \in TreeValue(D)
  BY <1>2, <1>5, <1>6, <1>7 DEF TreeValue
<1>9. \A b \in ArcIDs(T) : /\ U.arcs[b].source = T.arcs[b].source
                           /\ U.arcs[b].target = T.arcs[b].target
                           /\ U.arcs[b].next_in = T.arcs[b].next_in
                           /\ U.arcs[b].next_out = T.arcs[b].next_out
  BY <1>4, <1>6
<1>10. EndsExist(U)
  BY <1>1, <1>5, <1>6, <1>9 DEF EndsExist, ArcIDs, NodeIDs, root_arc
<1>11. SameGraph(U, T)
  BY <1>5, <1>6, <1>9 DEF SameGraph
<1> QED
  BY <1>4, <1>5, <1>6, <1>8, <1>10, <1>11 DEF IsTree

\* Two trees that differ from a third in payloads do so from each other.
LEMMA SameGraphs ==
  ASSUME NEW T, NEW U, NEW V
  PROVE  /\ SameGraph(T, T)
         /\ SameGraph(T, U) /\ SameGraph(U, V) => SameGraph(T, V)
BY DEF SameGraph, ArcIDs, NodeIDs

\* The lists are exact in both, and lead from arc to arc alike.
LEMMA SameGraphLinked ==
  ASSUME NEW T, NEW U, SameGraph(T, U)
  PROVE  /\ ArcIDs(T) = ArcIDs(U) /\ NodeIDs(T) = NodeIDs(U)
         /\ Linked(U) => Linked(T)
         /\ \A n \in NodeIDs(U) : beginOut(T, n) = beginOut(U, n)
         /\ \A a \in ArcIDs(U) : nextOut(T, a) = nextOut(U, a)
<1>1. ArcIDs(T) = ArcIDs(U) /\ NodeIDs(T) = NodeIDs(U) /\ Len(T.arcs) = Len(U.arcs)
  BY DEF SameGraph, ArcIDs, NodeIDs
<1>2. ASSUME NEW n
      PROVE  /\ ArcsFrom(T, n, Len(T.arcs)) = ArcsFrom(U, n, Len(U.arcs))
             /\ ArcsInto(T, n, Len(T.arcs)) = ArcsInto(U, n, Len(U.arcs))
  BY <1>1 DEF SameGraph, ArcsFrom, ArcsInto, ArcIDs
<1>3. ASSUME Linked(U) PROVE OutLinked(T, Len(T.arcs))
  <2>1. OutLinked(U, Len(U.arcs))
    BY <1>3 DEF Linked
  <2> QED
    BY <1>1, <1>2, <2>1 DEF OutLinked, SameGraph, ArcIDs
<1>4. ASSUME Linked(U) PROVE InLinked(T, Len(T.arcs))
  <2>1. InLinked(U, Len(U.arcs))
    BY <1>4 DEF Linked
  <2> QED
    BY <1>1, <1>2, <2>1 DEF InLinked, SameGraph, ArcIDs
<1>5. Linked(U) => Linked(T)
  BY <1>3, <1>4 DEF Linked
<1> QED
  BY <1>1, <1>5 DEF SameGraph, beginOut, nextOut

===========================================================================
