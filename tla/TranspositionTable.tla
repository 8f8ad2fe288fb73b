------------------------- MODULE TranspositionTable -------------------------
(***************************************************************************)
(* A client of ska::bytell_hash_map (include/bytell_hash_map.hpp), which   *)
(* fsth::SearchTree uses for its transpositions.  The table is driven by   *)
(* every sequence of its operations, next to the map it stands for.        *)
(*                                                                         *)
(* The hash function is any of Hashers: the code takes an arbitrary one,   *)
(* and fibonacci_hash_policy multiplies it into leading bits.              *)
(***************************************************************************)
EXTENDS BytellTable

CONSTANTS Values,      \* mapped values; 0 is V ( )
          Assigned,    \* keys that get other values than V ( )
          Hashers,     \* hash functions
          Sizes        \* arguments of rehash and reserve

ASSUME ClientAssumption == /\ 0 \in Values /\ Values \subseteq Nat
                           /\ Assigned \subseteq Keys /\ Sizes \subseteq Nat
                           /\ Hashers \subseteq [Keys -> 0 .. Words - 1]

VARIABLES
  map,        \* history: the value each key should have
  doomed,     \* the slots of a range that are still to be erased
  it,         \* the iterator of a loop that erases what is
  unwanted,   \*   unwanted, or End
  original    \* the table that this one was copied from, until the next call

clientVars == <<map, doomed, it, unwanted, original>>
mapVars == <<tableVars, clientVars>>

None == -1
NoKeys == [k \in Keys |-> None]
Without(m, gone) == [k \in Keys |-> IF k \in gone THEN None ELSE m[k]]

NoTable == EmptyTable(table.hasher)

TableInit ==
  /\ \E h \in Hashers : table = EmptyTable(h) /\ original = EmptyTable(h)
  /\ todo = <<>> /\ moving = StandsStill
  /\ map = NoKeys
  /\ doomed = {} /\ it = End /\ unwanted = {}

(***************************************************************************)
(* The calls.                                                              *)
(***************************************************************************)
Idle == todo = <<>> /\ doomed = {} /\ it = End

NoErasure == UNCHANGED <<doomed, it, unwanted>>

Emplace(k, v) ==
  /\ Idle
  /\ todo' = <<Item(k, v)>>
  /\ map' = IF map[k] = None THEN [map EXCEPT ![k] = v] ELSE map
  /\ original' = NoTable
  /\ NoErasure /\ UNCHANGED <<table, moving>>

\* operator [] gives a new key the value V ( ).
Index(k) == Emplace(k, 0)

\* What emplace finds is assigned.
InsertOrAssign(k, v) ==
  /\ Idle
  /\ IF find(table, k) # End THEN table' = assign(table, k, v) /\ UNCHANGED todo
     ELSE todo' = <<Item(k, v)>> /\ UNCHANGED table
  /\ map' = [map EXCEPT ![k] = v]
  /\ original' = NoTable
  /\ NoErasure /\ UNCHANGED moving

Erase(k) ==
  /\ Idle
  /\ table' = IF find(table, k) = End THEN table ELSE erase(table, find(table, k))
  /\ map' = Without(map, {k})
  /\ original' = NoTable
  /\ NoErasure /\ UNCHANGED <<todo, moving>>

\* The slots that an iteration from first to last, exclusive, comes by.
KeysOf(S) == {KeyOf(table.slots[i].item) : i \in S}
SlotsIn(first, end) == {i \in Used(table) : end < i /\ i <= first}

EraseRange(first, end) ==
  /\ Idle /\ first >= end
  /\ IF first = begin(table) /\ end = End /\ table.num_elements > 1
     THEN table' = clear(table) /\ UNCHANGED doomed
     ELSE doomed' = SlotsIn(first, end) /\ UNCHANGED table
  /\ map' = Without(map, KeysOf(SlotsIn(first, end)))
  /\ original' = NoTable
  /\ UNCHANGED <<todo, moving, it, unwanted>>

\* for ( it = begin; it != end; ) if ( unwanted ) it = erase ( it ); else ++it;
EraseIf(keys) ==
  /\ Idle
  /\ it' = begin(table)
  /\ unwanted' = IF it' = End THEN {} ELSE keys
  /\ map' = Without(map, keys)
  /\ original' = NoTable
  /\ UNCHANGED <<tableVars, doomed>>

Clear ==
  /\ Idle
  /\ table' = clear(table) /\ map' = NoKeys
  /\ original' = NoTable
  /\ NoErasure /\ UNCHANGED <<todo, moving>>

Rehash(n) ==
  /\ Idle
  /\ \E r \in {rehash(table, n), reserve(table, n), shrink_to_fit(table)} :
       table' = r.table /\ todo' = r.todo
  /\ original' = NoTable
  /\ NoErasure /\ UNCHANGED <<moving, map>>

\* The client goes on with a copy.
Copy ==
  /\ Idle
  /\ table' = copy(table).table /\ todo' = copy(table).todo
  /\ original' = table
  /\ NoErasure /\ UNCHANGED <<moving, map>>

Call ==
  \/ \E k \in Keys : Index(k) \/ Erase(k)
  \/ \E k \in Assigned, v \in Values : Emplace(k, v) \/ InsertOrAssign(k, v)
  \/ \E first, end \in Used(table) \union {End} : EraseRange(first, end)
  \/ \E keys \in SUBSET Keys : EraseIf(keys)
  \/ Clear \/ Copy
  \/ \E n \in Sizes : Rehash(n)

(***************************************************************************)
(* The loops.                                                              *)
(***************************************************************************)
EraseDeepest ==
  /\ \E i \in doomed :
       /\ \A j \in doomed : depth_in_chain(table, i) >= depth_in_chain(table, j)
       /\ table' = erase(table, i) /\ doomed' = doomed \ {i}
  /\ UNCHANGED <<todo, moving, map, it, unwanted, original>>

EraseNext ==
  /\ it # End
  /\ IF KeyOf(table.slots[it].item) \in unwanted
     THEN table' = erase(table, it) /\ it' = following(table', it)
     ELSE it' = before(table, it) /\ UNCHANGED table
  /\ unwanted' = IF it' = End THEN {} ELSE unwanted
  /\ UNCHANGED <<todo, moving, map, doomed, original>>

Loop == (EmplaceStep /\ UNCHANGED clientVars) \/ EraseDeepest \/ EraseNext

TableNext == Call \/ Loop

TableSpec == TableInit /\ [][TableNext]_mapVars

---------------------------------------------------------------------------
\* Between any two steps the slots are what every operation relies on: a power of
\* two of them, not too many used; a direct hit is an element at home; each list
\* entry is reached by exactly one slot, one of an element with the same home, and
\* every jump leads to a list entry.  While a chain is moved that only the
\* next element to move is reached by none but its new parent, and only the home
\* that was cleared is reserved.  So displacement moves every chain it cuts as a
\* whole, and erasure leaves no jump behind.
ChainsExact ==
  LET slots == table.slots
      kinds(ks) == {i \in DOMAIN slots : slots[i].kind \in ks}
      linked == {i \in DOMAIN slots : has_next(table, i)}
      loose == IF moving = StandsStill THEN {} ELSE {moving.it}
  IN  /\ DOMAIN slots = {} \/ \E e \in 1 .. bucket_count(table) : bucket_count(table) = power(e)
      /\ table.num_elements = Cardinality(kinds({"direct", "list"}))
      /\ 16 * table.num_elements <= 15 * bucket_count(table)
      /\ linked \subseteq kinds({"direct", "list"})
      /\ kinds({"reserved"}) = IF loose = {} \/ moving.it = home THEN {} ELSE {home}
      /\ \A i \in kinds({"direct"}) : find_direct_hit(table, i) = i
      /\ \A i \in linked :
           /\ slots[next(table, i)].kind = "list"
           /\ find_direct_hit(table, next(table, i)) = find_direct_hit(table, i)
      /\ \A i \in kinds({"list"}) \ loose :
           Cardinality({j \in linked : next(table, j) = i}) = 1
      /\ \A i \in loose :
           /\ slots[i].kind = "list"
           /\ {j \in linked : next(table, j) = i} \subseteq {moving.parent}
           /\ has_next(table, moving.parent) => next(table, moving.parent) = i

\* Whatever was inserted, moved, erased, rehashed or copied before, a lookup finds
\* the value of the last call for this key, or nothing, and nothing else is in the
\* table; and a copy is equal to its original, in both directions.
MapExact ==
  Idle =>
    /\ \A k \in Keys :
         LET i == find(table, k)
         IN  IF map[k] = None THEN i = End
             ELSE i # End /\ table.slots[i].item = Item(k, map[k])
    /\ table.num_elements = Cardinality({k \in Keys : map[k] # None})
    /\ original # NoTable => equal(table, original) /\ equal(original, table)

============================================================================
