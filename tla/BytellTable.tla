---------------------------- MODULE BytellTable ----------------------------
(***************************************************************************)
(* The hash table behind the transposition table of fsth::SearchTree:      *)
(* sherwood_v8_table of include/bytell_hash_map.hpp, with the policy       *)
(* fibonacci_hash_policy of include/flat_hash_map.hpp.                     *)
(*                                                                         *)
(* A table is an array of slots.  The elements of one home slot form a     *)
(* chain that starts there, as a direct hit, and goes on in list entries   *)
(* that are reached by jumps out of a fixed list of distances.  An element *)
(* that needs a home where the list entry of another chain stands moves    *)
(* that entry and the rest of its chain away.                              *)
(*                                                                         *)
(* What a member function does without calling emplace is an operator from *)
(* a table to a table.  emplace and rehash call each other: the elements   *)
(* that the calls still have to emplace are in todo, and each step places  *)
(* or drops the first of them, moves one element out of its way, or grows  *)
(* the table, whose elements then come before it.  A block only groups     *)
(* slots and their metadata, and is left out.                              *)
(***************************************************************************)
EXTENDS Integers, SequencesExt

CONSTANTS Keys,             \* what is looked up
          Words,            \* a hash is one of 0 .. Words - 1
          jump_distances,   \* distances 1, 2, .. of a jump; 0 is "no next"
          MinBuckets        \* the least size that grow asks for, 10 in the code

ASSUME TableAssumption == /\ Keys \subseteq Nat /\ Words \in Nat \ {0}
                          /\ jump_distances \in Seq(Nat) /\ MinBuckets \in Nat \ {0}

VARIABLES
  table,   \* hasher, slots and num_elements
  todo,    \* the elements to be emplaced, the next one first
  moving   \* locals of emplace_direct_hit while it moves a chain, or StandsStill

tableVars == <<table, todo, moving>>

StandsStill == <<>>
End == -1   \* end ( )

Slot(kind, jump, item) == [kind |-> kind, jump |-> jump, item |-> item]

\* magic_for_empty, magic_for_reserved.
NoItem == <<>>
empty_slot == Slot("empty", 0, NoItem)
reserved_slot == Slot("reserved", 0, NoItem)

\* The table without slots is the one of the default constructor, whose
\* empty_block has no direct hit.
Table(hasher, slots, n) == [hasher |-> hasher, slots |-> slots, num_elements |-> n]
NoSlots == [i \in {} |-> empty_slot]
EmptyTable(hasher) == Table(hasher, NoSlots, 0)

bucket_count(t) == Cardinality(DOMAIN t.slots)
Used(t) == {i \in DOMAIN t.slots : t.slots[i].kind # "empty"}

\* A pair < key, value > is stored; it is hashed and compared by its key.
Item(k, v) == <<k, v>>
KeyOf(item) == item[1]

(***************************************************************************)
(* fibonacci_hash_policy: the number of slots is a power of two, at least  *)
(* 2, the home slot is given by the leading bits of the hash, and an index *)
(* is taken modulo the number of slots.                                    *)
(***************************************************************************)
\* 2^e, by a recursion that can be reasoned about.
power(e) ==
  LET double[i \in 0 .. e] == IF i = 0 THEN 1 ELSE 2 * double[i - 1] IN double[e]

next_size_over(n) ==
  power(CHOOSE e \in 1 .. n : power(e) >= n /\ \A i \in 1 .. e - 1 : power(i) < n)

index_for_hash(t, k) == (t.hasher[k] * bucket_count(t)) \div Words
keep_in_range(t, i) == i % bucket_count(t)

(***************************************************************************)
(* LinkedListIt.                                                           *)
(***************************************************************************)
set(t, i, slot) == [t EXCEPT !.slots = [@ EXCEPT ![i] = slot]]
set_next(t, i, jump) == set(t, i, Slot(t.slots[i].kind, jump, t.slots[i].item))

has_next(t, i) == t.slots[i].jump # 0
distance(jump) == IF jump = 0 THEN 0 ELSE jump_distances[jump]
jumpTo(t, i, jump) == keep_in_range(t, i + distance(jump))
next(t, i) == jumpTo(t, i, t.slots[i].jump)

\* The slots of a chain from i on.
chain(t, i) ==
  LET walk[n \in 0 .. bucket_count(t)] == IF n = 0 THEN i ELSE next(t, walk[n - 1])
      end == CHOOSE n \in DOMAIN walk :
               ~ has_next(t, walk[n]) /\ \A m \in 0 .. n - 1 : has_next(t, walk[m])
  IN  [p \in 1 .. end + 1 |-> walk[p - 1]]

last(c) == c[Len(c)]

find_direct_hit(t, i) == index_for_hash(t, KeyOf(t.slots[i].item))

find_parent_block(t, i) ==
  LET c == chain(t, find_direct_hit(t, i))
  IN  c[CHOOSE p \in 1 .. Len(c) : has_next(t, c[p]) /\ next(t, c[p]) = i]

\* The first jump from i to an empty slot, 0 when there is none.
find_free_index(t, i) ==
  LET free == {j \in DOMAIN jump_distances : t.slots[jumpTo(t, i, j)].kind = "empty"}
  IN  IF free = {} THEN 0 ELSE Min(free)

(***************************************************************************)
(* Lookup.                                                                 *)
(***************************************************************************)
\* The chain that has the key, when its home slot is a direct hit.
chainOf(t, k) ==
  LET home == index_for_hash(t, k)
  IN  IF DOMAIN t.slots # {} /\ t.slots[home].kind = "direct" THEN chain(t, home) ELSE <<>>

find(t, k) ==
  LET c == chainOf(t, k)
      hits == {p \in 1 .. Len(c) : KeyOf(t.slots[c[p]].item) = k}
  IN  IF hits = {} THEN End ELSE c[Min(hits)]

\* Iterators go down the slots: operator++ counts the index down, one pass of its
\* loop after the other, until the slot there is not empty.  At 0 the index wraps
\* to the largest size_t, for which End stands, and the loop breaks off.
\* [Mutant: the loop breaks off when it comes to 0.]
before_breaksAtZero(t, i) ==
  LET pass[j \in 0 .. i] == IF j <= 1 THEN End
                            ELSE IF j - 1 \in Used(t) THEN j - 1
                            ELSE pass[j - 1]
  IN  pass[i]

before(t, i) ==
  LET pass[j \in 0 .. i] == IF j = 0 THEN End
                            ELSE IF j - 1 \in Used(t) THEN j - 1
                            ELSE pass[j - 1]
  IN  pass[i]

\* From one behind the last slot; a table without slots starts at 0.
begin(t) == before(t, bucket_count(t))

(***************************************************************************)
(* Growth.                                                                 *)
(***************************************************************************)
\* At most 15/16 of the slots are used.
num_buckets_for_reserve(n) == (16 * n + 14) \div 15
is_full(t) == 16 * (t.num_elements + 1) > 15 * bucket_count(t)

NewTable(hasher, size) == Table(hasher, [i \in 0 .. size - 1 |-> empty_slot], 0)

\* The elements, as the loop of rehash finds them in the old slots.
items(t) ==
  LET found[n \in 0 .. bucket_count(t)] ==
        IF n = 0 THEN <<>>
        ELSE IF t.slots[n - 1].item = NoItem THEN found[n - 1]
        ELSE Append(found[n - 1], t.slots[n - 1].item)
  IN  found[bucket_count(t)]

\* A table and what is to be emplaced in it.
Rest(t, w) == [table |-> t, todo |-> w]

rehash(t, n) ==
  LET num_items == Max({n, num_buckets_for_reserve(t.num_elements)})
      size == next_size_over(num_items)
  IN  IF num_items = 0 THEN Rest(EmptyTable(t.hasher), <<>>)
      ELSE IF size = bucket_count(t) THEN Rest(t, <<>>)
      ELSE Rest(NewTable(t.hasher, size), items(t))

grow(t) == rehash(t, Max({MinBuckets, 2 * bucket_count(t)}))

reserve(t, n) ==
  IF num_buckets_for_reserve(n) > bucket_count(t)
  THEN rehash(t, num_buckets_for_reserve(n)) ELSE Rest(t, <<>>)

rehash_for_other_container(t, other) ==
  rehash(t, Min({num_buckets_for_reserve(other.num_elements), bucket_count(other)}))

shrink_to_fit(t) == rehash_for_other_container(t, t)

\* The loop of insert goes from begin to end.
copy(other) ==
  Rest(rehash_for_other_container(EmptyTable(other.hasher), other).table, Reverse(items(other)))

(***************************************************************************)
(* emplace, of the first element of todo.                                  *)
(***************************************************************************)
item == Head(todo)
home == index_for_hash(table, KeyOf(item))
itsChain == chainOf(table, KeyOf(item))

\* The element behind which it goes, or behind which the one at its home goes
\* that is no direct hit.
parent_block == IF itsChain # <<>> THEN last(itsChain) ELSE find_parent_block(table, home)
free == find_free_index(table, parent_block)

Emplacing == todo # <<>> /\ moving = StandsStill
isKnown == find(table, KeyOf(item)) # End
lacksRoom == ~ is_full(table) => table.slots[home].kind # "empty" /\ free = 0

place(t, i, kind) == [set(t, i, Slot(kind, 0, item)) EXCEPT !.num_elements = @ + 1]

\* A key that is found keeps its element.
KeyIsKnown ==
  /\ Emplacing /\ isKnown
  /\ todo' = Tail(todo) /\ UNCHANGED <<table, moving>>

EmplaceDirectHit ==
  /\ Emplacing /\ ~ isKnown /\ ~ lacksRoom /\ table.slots[home].kind = "empty"
  /\ table' = place(table, home, "direct")
  /\ todo' = Tail(todo) /\ UNCHANGED moving

EmplaceNewKey ==
  /\ Emplacing /\ ~ isKnown /\ ~ lacksRoom /\ itsChain # <<>>
  /\ table' = set_next(place(table, jumpTo(table, parent_block, free), "list"), parent_block, free)
  /\ todo' = Tail(todo) /\ UNCHANGED moving

\* t grows, and what is left of it comes first.
GrowFrom(t) ==
  /\ table' = grow(t).table /\ todo' = grow(t).todo \o todo
  /\ moving' = StandsStill

Grow == Emplacing /\ ~ isKnown /\ lacksRoom /\ GrowFrom(table)

\* The home of the element has a list entry, which moves away with the rest of
\* its chain: the element at it goes to the free slot below its new parent.
Move(it, to, jump) == [it |-> it, parent |-> to, free |-> jump]

Displace ==
  /\ Emplacing /\ ~ isKnown /\ ~ lacksRoom
  /\ itsChain = <<>> /\ table.slots[home].kind # "empty"
  /\ moving' = Move(home, parent_block, free)
  /\ UNCHANGED <<table, todo>>

\* What is left at a slot of the moved chain: nothing, but the home itself must
\* not be taken for the rest of the chain.
\* [Mutant: the home is not reserved.]
vacate_unreserved(t, it) == set(t, it, empty_slot)

vacate(t, it) == set(set(t, it, empty_slot), home, reserved_slot)

moveTo == jumpTo(table, moving.parent, moving.free)
moved == set(set_next(table, moving.parent, moving.free), moveTo,
             Slot("list", 0, table.slots[moving.it].item))
vacated == vacate(moved, moving.it)
onward == find_free_index(vacated, moveTo)

MoveLast ==
  /\ moving # StandsStill /\ ~ has_next(table, moving.it)
  /\ table' = place(set(moved, moving.it, empty_slot), home, "direct")
  /\ todo' = Tail(todo) /\ moving' = StandsStill

MoveOne ==
  /\ moving # StandsStill /\ has_next(table, moving.it) /\ onward # 0
  /\ table' = vacated
  /\ moving' = Move(next(table, moving.it), moveTo, onward)
  /\ UNCHANGED todo

\* There is no free slot half-way: the table grows, and rehash finds the elements
\* of a broken chain, too.
MoveStuck ==
  /\ moving # StandsStill /\ has_next(table, moving.it) /\ onward = 0
  /\ GrowFrom(vacated)

EmplaceStep ==
  \/ KeyIsKnown \/ EmplaceDirectHit \/ EmplaceNewKey \/ Grow
  \/ Displace \/ MoveLast \/ MoveOne \/ MoveStuck

(***************************************************************************)
(* Erasure.                                                                *)
(***************************************************************************)
\* The end of a chain is cut off: its parent has no next any more.
cut(t, i, above) == set_next(set(t, i, empty_slot), above, 0)

\* The last element of the chain takes the place of one that is not the last.
erase(t, i) ==
  LET c == chain(t, i)
      rest == IF has_next(t, i)
              THEN cut(set(t, i, Slot(t.slots[i].kind, t.slots[i].jump, t.slots[last(c)].item)),
                       last(c), c[Len(c) - 1])
              ELSE IF t.slots[i].kind = "direct" THEN set(t, i, empty_slot)
              ELSE cut(t, i, find_parent_block(t, i))
  IN  [rest EXCEPT !.num_elements = @ - 1]

\* [Mutant: always the next slot.]
following_next(t, i) == before(t, i)

\* convertible_to_iterator: the slot itself when another element is there now.
following(t, i) == IF t.slots[i].kind = "empty" THEN before(t, i) ELSE i

clear(t) == [t EXCEPT !.slots = [i \in DOMAIN @ |-> empty_slot], !.num_elements = 0]

\* Of a range, the elements farthest from their direct hits go first, since
\* each erasure may move the end of a chain.
depth_in_chain(t, i) ==
  LET c == chain(t, find_direct_hit(t, i)) IN CHOOSE p \in 1 .. Len(c) : c[p] = i

(***************************************************************************)
(* The interface of bytell_hash_map.                                       *)
(***************************************************************************)
assign(t, k, v) == [t EXCEPT !.slots = [@ EXCEPT ![find(t, k)].item = Item(k, v)]]

equal(t, u) ==
  /\ t.num_elements = u.num_elements
  /\ \A i \in Used(t) : LET j == find(u, KeyOf(t.slots[i].item))
                        IN  j # End /\ u.slots[j].item = t.slots[i].item

============================================================================
