# Verification of MCTSSearchTree

TLA+ specifications, TLC model checking and TLAPS proofs for the search-tree
containers of this repository (`include/`, `MCTSSearchTree/`).  Paths and line
numbers refer to the repository.

## The system

A header-only library of containers for Monte Carlo tree search, and a small
driver.  Everything is single-threaded, and nothing is persistent beyond the
serialization of whole vectors.  What is hard here is not scheduling: it is
lists threaded through the elements of vectors that grow under live iterators,
loops that move data out of a graph with shared nodes and cycles while they
rebuild it under new ids, static work vectors that survive from one call to the
next, chains of a hash table that are moved element by element, and arithmetic
that wraps.

| component | state | operations | what makes it correct |
|---|---|---|---|
| `fst::SearchTree` (`include/flat_search_tree.hpp`) | `m_arcs`, `m_nodes`: two vectors; each node heads an in-list and an out-list threaded through the arcs; static work vectors of the traversals | `addNode`, `addArc`, `link`, in/out iterators, `makeSubTree`, `traverseBreadthFirst`, `traverseDepthFirst`, `topologicalSort` | the lists are exactly the arcs of their node, in order; iterators survive growth; a sub-tree is the part below its root; a traversal visits each thing once; the sort is a topological order of what can be sorted |
| `fsth::SearchTree` (`include/flat_search_tree_hash.hpp`) | the same and `m_trans`, from hashes to nodes | the same, `contains`, `addNode` with a hash | a position is one node, and is found |
| bytell hash map (`include/bytell_hash_map.hpp`, policy and hashing of `flat_hash_map.hpp`; vendored) | slots with a chain per home slot, linked by jumps out of a fixed list of distances | `find`, `emplace`, `operator []`, `insert_or_assign`, `erase` of one, of a range and while iterating, `clear`, `rehash`, `reserve`, `shrink_to_fit`, copy | the map it stands for, through displacement and growth |
| `fsntu::SearchTree` (`include/flat_search_ntree_uni.hpp`) | `m_nodes`; one parent per node, children threaded from the newest (`tail`, `prev`) | `add_node`, `out_iterator`, `root`, `flatten` | lists and parents exact under growth and re-rooting; re-rooting keeps exactly what is below |
| `fsnt::SearchTree` (`include/flat_search_ntree.hpp`) | the same, threaded in both directions | `add_node`, `out_iterator` | lists exact both ways, also when the root is its own child |
| `ast::SearchTree` (`MCTSSearchTree/adjacency_search_tree.hpp`) | nodes and arcs allocated one by one, vectors of pointers in each node | `addNode`, `addArc`, `link`, `erase` of an arc and of a node, `setRoot`, destruction | counts and vectors agree after erasure, nothing erased is referred to |
| pool allocator (`pool_allocator.hpp`, `.inl`) | blocks of virtual memory, current slot, LIFO list of free slots | `allocate`, `deallocate`, destruction | a slot has one owner; destruction visits the live ones |
| `uniform_int_distribution_fast.hpp` | `param_type`: `min` and `range` | `operator ( )`, `param`, `a`, `b` | in the interval, uniformly, at every width |
| `Moves` (`moves.hpp`) | a fixed array and a size | `push_back`, `take`, `remove`, `find` | a set of moves; nothing beyond the size is read |
| MCTS emulation (`mcts_emu.hpp`, `main986986` of `main.cpp`) | a tree whose nodes own the untried moves | select, expand | a move becomes one child, calls are guarded |
| `Link`, `Path`, `types.hpp`, `padded.hpp` | a pair of ids; a vector of them; typedefs | those of `std::vector` | nothing of their own |

Interaction: the driver calls a tree and its payloads (`Moves`); `fsth` calls
its table; `ast` allocates from two pools; a client keeps ids and iterators
across calls of a tree, and that is the only state shared between components.
There are no callbacks: the traversals have comments where a visitor would go.

## Modules

| module | models |
|---|---|
| `ThreadedList` | what head, tail, size and successor fields must be for a list to be a given set of ids in order; the walk |
| `FlatTree` | the value of a `fst` tree and its operations, as operators |
| `GrownTree` | a `fst` tree and a client that grows it: the part the walks share |
| `FlatSearchTree` | a `fst` tree that its client grows while it walks a list with an in- or out-iterator |
| `AdjacencyGraph` | the abstract promise: a multigraph that stores a sequence of arcs per node, and an iterator that is a position |
| `MCFlatSearchTree` | the refinement of `AdjacencyGraph` by `FlatSearchTree` |
| `Reachability` | what a node leads to (by closed sets), and distance |
| `SubTree` | `makeSubTree` of `fst`, one step per loop test and loop pass, on graphs the client grows, again on its own result |
| `Traversal` | the breadth-first and depth-first traversals, with the static `visited` |
| `TopologicalSort` | the sort, with the static `removed_arcs` |
| `TreeWalks` | the two together, over one tree |
| `HashTree` | `fsth`: the transposition table, growth through it, `makeSubTree` |
| `BytellTable`, `TranspositionTable`, `MCTranspositionTable` | the hash table behind it, `emplace` and `rehash` step by step, and a client that calls its operations in any order beside the map they promise |
| `NaryTree`, `NaryTreeUni`, `NaryTrees` | `fsnt`: growth, iteration; `fsntu`: the same, `root` stepwise, `flatten`; the two together |
| `PoolAllocator`, `AdjacencyTree` | the pool as a value and its operations; `ast` over two pools |
| `UniformInt` | the distribution, one step per word drawn, with the loop that is called and the one beside it |
| `Moves`, `MovesList`, `MoveBag` | the list of moves: its value and operations, a client that asks for them in any order, and the bag it promises to be, which is asked for the same operation with the same move |
| `MctsEmu` | the driver `main986986` over `FlatTree` and `Moves` |
| `FlatTreeTheorems` | the lemmas: induction, threaded lists, the operations on the value of a tree |
| `FlatSearchTreeProofs`, `SubTreeProofs`, `TreeWalksProofs`, `MctsEmuProofs`, `NaryTreeProofs` | the proofs about the runs |
| `HashTreeProofs` | the proofs about `HashTree` and about the hash table, `TranspositionTable` |
| `StandAloneProofs` | the proofs about the two components that are not built on `FlatTree`: `AdjacencyTree` with its pools, and `UniformInt` |

Correspondence.  Ids are the indices of the code.  `FlatTree` leaves the admin
elements at index 0 implicit, so `Len + 1` is the `size ( )` that becomes the
next id; the n-ary trees have index 0 because a default-constructed tree uses it
as the owner of its root.  0 is `invalid ( )`.  A payload is a number that tells
where it was added, wherever payloads are moved or copied; in the other models
nothing reads it and it is a single model value, or left out.  In `AdjacencyTree`
an address stands for a block of virtual memory and its first slot; a block has
one slot, because `allocate_block` puts `m_last_slot` one chunk behind the first
slot whatever `no_chunks` says; an address that is no slot of the tree, `other_root`,
stands for the root of another tree of the type, which shares the static
`invalid_arc`.  In `BytellTable` a block only groups slots and is left out, an
iterator is its index, the largest `size_t` that the index wraps to being `End`,
and a hash is a word of `Words` values.  There `emplace` and
`rehash`, which call each other, go element by element: `todo` holds the elements
that the calls on the stack have yet to emplace, and `moving` the locals of
`emplace_direct_hit` while it moves a chain.  The loop that erases a range, and a
client's loop that erases while it iterates, go slot by slot (`doomed`, `it` and
`unwanted`).  Undefined behaviour is a choice: the destructor of the pool may take
a slot behind every free one for a free one (`lower_bound` at `end ( )`), and
erasing a node may go on in the state "undefined".  One case is not a choice:
`max_ - min_ + 1` of the distribution is computed in the signed type, where it
overflows for wide intervals of 32- and 64-bit types; `rangeOf` takes the wrap that
the conversion to the unsigned type makes of it.  Lines marked `[Mutant: ...]` are deliberately wrong variants of the
definition that follows them: no specification uses them; each is the bug that
one of the properties is there to find.

Where two components share a run (`TreeWalks`, `NaryTrees`, the two loops of
`UniformInt`) a variable that is fixed in Init says which one it is, and the
variables of the other keep their initial values.

A client is free: it calls every operation with every id that exists, in any
order.  What it must not do is left out: using ids or iterators of a tree that
was replaced (`Adopt`, `Return`, `Flatten` drop them), ids that were never
handed out, pointers into the vectors (`node_iterator`, `arc_iterator`) across
growth, erasing the root of an `ast`.

## Runs

| run | question | bounds | states |
|---|---|---|---|
| `FlatSearchTree` | lists, iterators under growth, `link`, growth, refinement of `AdjacencyGraph` | 3 nodes, 5 arcs (root arc included) | 173 thousand |
| `SubTree` | is what `makeSubTree` returns the part below the new root, and does it return | 3 nodes, 4 arcs | 127 thousand |
| `TreeWalks` | what a traversal meets, in which order, over calls that share `visited`; is the sort a topological order of what can be sorted; do they return | 4 nodes; 4 arcs for a traversal, 5 for the sort | 1.34 million |
| `NaryTrees` | lists, parents and iterators of both n-ary trees; `root` and `flatten` in any sequence, from either constructor | 5 nodes, 7 payloads | 115 thousand |
| `HashTree` | is the table exact until `makeSubTree`, and what does that keep | 3 nodes, 4 arcs, 2 hashes, 2 payloads | 121 thousand |
| `TranspositionTable` | is the hash table the map it stands for, whatever the operations and wherever the keys fall | 5 keys, hashes of 8 values, 4 in use; jumps of 1 and 2; tables up to 32 slots | 1.98 million |
| `AdjacencyTree` | vectors, counts and free lists through growth and erasure; how many blocks a pool asks for; when is erasing a node undefined; what does the destructor visit | 3 nodes, 3 arcs, 3 addresses | 652 thousand |
| `UniformInt` | is the result in the interval, and each integer of it equally likely | 16 values, signed and unsigned, every interval, both loops | 7 thousand |
| `MovesList` | does each operation of a list of moves do to a bag what it says about its move, through any calls and assignments | 3 moves, capacity 3 | 207 thousand |
| `MctsEmu` | is each move of a node untried or on one arc, with exhausted nodes; does the driver grow a tree and end | 2 moves, 5 iterations | 151 thousand |
| `HashContains`, `UniformNarrow` | the findings below | small | stop at the counterexample |

Bounds.  All the cases that the code distinguishes occur within them: an empty
list, a list of one (head = tail) and of several; self-loops, parallel arcs,
both at once; cycles through the root and away from it; nodes nothing leads to;
a node met first from one parent and then from another.  A list operation
touches one tail and one new arc, so the third arc of a list is the first one
that can lose an older one.  `SubTree` was also run to the end at 4 nodes and
4 arcs (1.2 million states) and at 3 nodes and 5 arcs (2.9 million) with the
same result.  The static vectors need two calls with growth between them, which
the client actions allow at every size.  Where there is a proof (see below) it
removes the bounds altogether.

`TranspositionTable` replaces the 126 jump distances by two, and the least
number of buckets, 10, by 3: with five keys a chain then runs out of free
slots, also in the middle of a displacement, so that the table grows out of a
half-moved chain.  `AdjacencyTree` has three arcs because that is the least
number for which erasing a node goes wrong (`UndefinedFromThree`), and gives the
blocks every order of addresses, because the destructor compares them.  In
`UniformInt` 16 values are few enough to count the words for every integer of
every interval, and have ranges that divide them, that do not, and the one that
wraps to 0.

With two moves a node is exhausted after two expansions, so that five
iterations meet nodes with and without moves; an iteration expands at most once
(`cnt` is tested after it is decremented: 6 gives 5 iterations).

Deadlock is checked wherever a client can always make one more call.  It is not
in `MctsEmu`, whose driver ends, and in `AdjacencyTree`, which ends destroyed or
undefined; neither of them waits.

Fairness.  Only the steps of a function that was called are weakly fair
(`MakeSubTree`, `Traverse`, `Sort`, `Root`): it runs on the thread of its
caller, which waits for it, and nothing can block it.  The client owes no call.
`Returns` follows from that alone; the argument is that a node is pushed once.
In `MctsEmu` the one thread of the driver is weakly fair.  Its coins are not
assumed to be: a run of heads ends at a leaf.  The loops of `UniformInt` end
with probability one only, and no liveness is stated for them.

## Findings

* `HashContains`: `makeSubTree` of `fsth` (`flat_search_tree_hash.hpp:697`) calls
  `addNode ( payload )`, and the first parameter of that `addNode` is the hash.
  For a payload type that converts to `Hash` the payloads of the sub-tree are
  lost, its table is keyed by payloads, so that `contains` finds hashes that were
  never added and does not find those that were, and a client that looks
  positions up first adds them twice.  For any other type the function does not
  compile.  Until then the table is exact (`TableExact`), when the client passes
  the hash twice, once for the table and once for the node
  (`addNode ( h, h, payload )`).
* `UniformNarrow`: for 16-bit result types the rejection threshold
  `( 0 - range ) % range` (`uniform_int_distribution_fast.hpp:338`) is computed in
  `int`, where it is 0: no word is rejected, and the integers of an interval
  whose length does not divide 2^16 are not equally likely.  The run has
  `Promoted = TRUE`; the run `UniformInt` shows that nothing is wrong at widths
  that are not promoted.

Not disagreements, but worth knowing:

* The comment `All nodes traversed once here.` (`flat_search_tree.hpp:620`) is
  not reached for the node a walk starts at; every other node is met there once
  (`ReachMetOnce`).
* `root` and `flatten` of `fsntu` turn the order of siblings around (`RootExact`,
  `FlattenExact`).
* An iterator of `fst` sees arcs that are added under it (`IterationComplete`),
  one of `fsntu` does not (`DeliversSnapshot`); one of `fst` that has run off its
  list stays off, also when arcs are added later (`CursorExact`).
* The first node added to a default-constructed `fsnt` or `fsntu` tree may be its
  own child; lists and iterators cope with it (`ListsExact`, `TreesExact`).
* Erasing a node of an `ast` runs through a vector that the erasures shorten: it
  is right up to two arcs, by what the memory behind the end still holds, and
  undefined from three (`UndefinedFromThree`).
* The destructor of a pool may leave live elements behind the last free slot
  undestroyed (`DestroysLive`).

## Proofs

Each of these holds for all values of the constants, all sizes and all
sequences of calls:

| module | theorem | what |
|---|---|---|
| `FlatSearchTreeProofs` | `TypeCorrect`, `ListsStayExact`, `TreeOnlyGrows`, `CursorStaysExact`, `IterationsComplete`, `LinkStaysExact`, `Implements` | every property of the run `FlatSearchTree`, the refinement of `AdjacencyGraph` included |
| `SubTreeProofs` | `SubLoopInv`, `SubMovedOnce`, `SubResultExact` | the invariants of the run `SubTree`: the loops are right, no payload is moved twice, and what `makeSubTree` returns is the part below its root, arc by arc in order |
| `TreeWalksProofs` | `LoopsStayRight`, `NodesMetOnce`, `ArcsPassedOnce`, `SortIsTopological`, `SortIsLeast` | the invariants of the run `TreeWalks`: both traversals and the sort are right, in whatever state earlier calls left the static vectors |
| `TreeWalksProofs` | `NeverNearer`, `AlwaysDeeper` | the action properties of that run: breadth first, the walk never goes on to a node nearer to its start; depth first, it goes on with the last of the nodes that the one it leaves was the first to lead to |
| `HashTreeProofs` | `TableStaysExact` | the invariant of the run `HashTree`: the table is exact until the first `makeSubTree`, and afterwards still names nodes that exist, each once |
| `HashTreeProofs` | `SubTreesKeepArcs` | the action property of that run: the sub-tree is what the new root leads to, arc by arc in order, and its table leads from each payload to the first node with it |
| `HashTreeProofs` | `TableInvariant`, `ChainsAlwaysExact`, `MapAlwaysExact` | every property of the run `TranspositionTable`: the chains are exact between any two steps, also of a displacement and of an erasure, and between two calls the table is the map, for any hash function, keys, values, sizes and jump distances |
| `MctsEmuProofs` | `MovesStayKept`, `TreeIsGrown` | the invariants of the run `MctsEmu`: each move of a node is untried or on one arc; the nodes are a tree |
| `MctsEmuProofs` | `ListIsBag` | the refinement of the run `MovesList`: a list of moves, with what is left in its array, implements a bag, each operation doing what it says about its move |
| `NaryTreeProofs` | `TypeCorrect`, `ListsStayExact`, `CursorStaysExact` | the lists of `fsnt`, in both directions, and its iterators |
| `NaryTreeProofs` | `TreesStayExact`, `SnapshotDelivered` | the lists and parents of `fsntu`, under growth, `flatten` and `root`; its iterators deliver the children there were |
| `NaryTreeProofs` | `FlattenKeepsUpper`, `RootKeepsBelow` | what `flatten` and `root` of `fsntu` return: the two upper levels, and the part below the new root, with their payloads and the siblings turned around |
| `StandAloneProofs` | `VectorsFollowHistory`, `SlotsAccountedFor`, `ErasesDefined`, `DestructorSpares` | every property of the run `AdjacencyTree`: vectors, counts and `link` agree with the history; a slot is alive or free, once; a pool has as many blocks as elements were alive at a time; when erasing a node is defined; what the destructor leaves out |
| `StandAloneProofs` | `StaysInInterval` | every result is in its interval, for every width, signed or not, and either loop |
| `StandAloneProofs` | `EveryIntegerEvenly` | each integer of the interval is the result of equally many words, and no more words are rejected than must be (but by the second loop for half of the words), for types that are computed with at their own width (`~ Promoted`); where they are promoted it is false, as the run `UniformNarrow` shows |
| `FlatTreeTheorems` | `AddArcKeepsLists`, `AddNodeKeepsLists`, `IteratorsDeliverLists`, `LinkFinds` | the operations on the value of a tree |

Assumptions: `DataAssumption` (a default-constructed payload is a payload) for
`FlatSearchTree`, `WordsAssumption` (at least two words) for `UniformInt`,
`MoveAssumption` (there are finitely many moves, because the capacity of `Moves`
is their number) for `MctsEmu` and `MovesList`, `AddressAssumption` (no block is at
`nullptr`) for `AdjacencyTree`, and, for the hash table, `TableAssumption` (keys
are numbers, a hash has at least one value, `grow` asks for at least one bucket,
the jump distances are a sequence of numbers) and `ClientAssumption` (0, which is
`V ( )`, is a value, values and sizes are numbers, hash functions give words).  The
others need none.

Growth.  `TypeOK` is not inductive: `addArc` writes to the tail of a list, and
that the tail is an existing arc, and the last of its list, follows only from
the lists being exact.  `ListsExact` needs the types.  `TreeInv`, their
conjunction, is inductive.  The heart is `AddArcKeepsLists`: exactness is stated
with a parameter m, for the arcs 1 .. m, and `addArc` goes through three states:
the arc is in the vector but in no list (out- and in-lists exact up to m), then
in the out-list of its source (out-lists exact up to m + 1, in-lists still up to
m, which is where self-loops and parallel arcs would go wrong), then in both.
Each half comes down to a fact on one list: appending a larger id behind the
tail extends an exact list.  `CursorInv` adds to `TreeInv`
what the iterator has delivered: the prefix of its list before the position.
`NaryTreeProofs` follows the same line with two links per element.

Walks.  `Walk` and the loop of `link` are recursive functions over the list.
They are well-defined (`RecursionDefined`) and unfold (`WalkUnfolds`), from one
fact: a list is `Forward`, its successors have
larger ids.  The induction is over the well-founded order of Nat, with the set of
ids for which the claim holds in the place of a predicate (`Least`,
`SetInduction`, `ListInduction`).  So the walk over an exact list delivers it
(`WalkLists`, `IteratorsDeliverLists`), there is one such sequence
(`ListsUnique`), and appending to the list appends to the sequence
(`AppendLists`): that is the refinement of `addArc`.  A step of the iterator
refines a step of the position because the position is the number of arcs before
it (`ListsPosition`).

Traversals and sort.  Their work lists and static vectors do not say what has
been done; the invariants do.  `WalkInv`: an arc is passed when its source was
met, is not on the work list, and the for-loop is past it (`HereAreWalked`), and
the targets of the arcs passed were met.  When the list is empty what was met is
closed under the arcs, and the part below the start is the least such set.
`SortInv`: an arc is removed when its source is sorted and the for-loop is past
it (`RemovedAreTaken`), and a node is listed when its in-arcs are all removed
(`ListedAreFree`).  So a node is pushed by the removal of its last in-arc, once;
the root arc is never removed, so an arc back to the root does not push the root
again; and by `ListedAreLeast` nothing is sorted that another order would leave
out.

The order of a depth-first traversal follows from its stack: while the node
that was met last was met from `parent`, it is on top (`LatestOnTop`).  For the
breadth-first one the queue is in two layers (`Layers`): some nodes that are as
far from the start as `parent`, d arcs, and then nodes that are one farther, while
everything within d arcs has been met; when the first layer is used up, so is what
lies within d + 1 (`NextLayerMet`).  Distances are those of `Within`, a function
whose recursion has to be unfolded first (`BallsDefined`, `WithinSteps`).  It is
defined up to the number of nodes, and no node is farther than that: a queue that
has come to distance d has met a node at each distance below, and none twice
(`NoLonger`).

Both invariants are kept by the growth of the client between calls because that
is a step of `GrownTree` that keeps exact lists (`GrownExact`).

`makeSubTree`.  The loops move the payloads out of `tree` while `sub` is built
from them, so a statement on the result needs the tree as it was at the call
(`orig`).  `SubInv` says that the two agree on everything but what was moved
(`PayloadsLeft`), that the numbers in `visited` are those of the sub-tree's nodes,
each used once (`Numbered`), and how far each node has come (`WorkDone`): the
out-arcs of its copy are as many as its own when it is done, none while it is on
the stack, and those before `arc` while the for-loop runs over it;
`CopiesAgree` makes them copies, in order.  A pass of the for-loop adds one arc,
for which `PassedArc` carries all of this over, and `NodeGiven` covers the node
that a first visit adds.  At the return nothing is on the stack, so the nodes with
a copy are closed under the arcs and are what is reachable (`KnownAreReached`
gives the other half).

The transpositions.  `HashInv` says that the table names nodes of the tree, each once
and the root under the root's hash (`Hashed`), and, until `makeSubTree` was
called, that it finds every node under the hash it was added with (`FindsEach`).
`makeSubTree` is one step there, whose loops are bounded iterations over the
value of the locals; `Copying` is what a pass of the for-loop and a turn of the
while-loop keep of the types (`TurnPasses`, `LoopTurns`).  What the finding below
`addNode ( payload )` breaks is `FindsEach`; that the table then still names
nodes, each once, is what the proof shows.  That the copy is right (`CopyRight`)
is an invariant of the turns: a known node has copies of its first out-arcs, none
while it is on the stack and all of them when it is finished.  Each turn finishes
one node more (`TurnRight`), so that the loop is over after as many turns as the
tree has nodes, which is the bound of the iteration (`LoopRight`); then the known
nodes are closed under the arcs and are what the root leads to (`SubTreeMeans`).
`FirstNamed` says what the new table has: a payload is emplaced once, for the
first node with it, because no payload is the root's hash (`PlainPayloads`).

The hash table.  The exact chains are not inductive: that a jump leads to a list
entry of the same home does not exclude a chain that bites its tail.  `Ranked` adds
a depth, 0 for a direct hit and one more with every jump, so that chains are
finite, `chain` delivers them and none meets another.  `Sound` is a table nobody is
changing: ranked, with nothing reserved, filled within its limit and with a key at
one slot only (`Filled`).

`ChainMoves` is the table inside a displacement.  The rest of the chain, from
`moving.it`, is `loose`: its ranks are still right, no jump leads there but the old
one of `moving.parent`, and the home of the element to come is the only reserved
slot.  The slot that `find_free_index` found is empty and stays so until it is
filled.  The reservation is what the proof needs, since the element at the home is
the first to move, and its slot would otherwise be handed out as a free one to the
rest of its chain.  `MoveLastKeeps` closes the chain; `MoveStuckKeeps` drops the
broken table, whose elements are all found by `rehash`.

The map is not that of the table but of table and `todo`: together they hold the
pairs of `map`, each once (`Complete`), or what is to be emplaced is known already
(`AlreadyKnown`), so that an emplacement moves a pair from one to the other and
growth moves all of them back (`AllAgain`).  During the erasure of a range
(`Shrinks`) the elements outside of `doomed` are the pairs; the deepest goes first,
and so the end of the chain that takes its place is not itself doomed, or is the
same element.  A loop that erases while it iterates (`Sweeps`) has elements with
unwanted keys only at or below the iterator: an end of a chain that is moved into
the gap is met again, because `following` stays there, and the loop of `operator++`
misses no used slot below its index (`BeforeRight`).  When nothing is in progress
the table is `Sound` and holds the pairs of `map`, and a lookup goes through the
one chain its key can be in.  A copy keeps the pairs of its original (`CopyKept`).

The driver.  `MovesKept` of a node: its list of moves has none twice, and a move
is either in it, and on no arc from the node, or gone, and on exactly one.
`PlayKeepsMoves` does both halves of an expansion at once: `take` removes the
move from the list, and the arc carries it; between them neither side has it.
Each node but the root has one in-arc, from an older node (`OneOlderParent`), which
makes the graph a tree.

The list of moves.  The bag counts each move, so the refinement mapping counts
too.  All that changes a list with a move in it puts the last one over another
(`Replaced`), which brings one count down by one (`ReplacedCounts`, where the
replaced move may be the last one itself, or equal to it); `push_back` brings one
up although its slot held an old move before (`PushCounts`).  A client first names
an operation and its argument (`call`) and then has it done, in a step that the
bag sees too: no operation can pass for a stutter or for another one.  Each step
of the list is the step of the bag with the same move (`RequestBag`, `ReturnedIn`,
`StepBag`).

The n-ary trees.  `fsntu` has no successor links to write into old elements, so
its exactness is that each element names the sibling before it and its parent the
newest (`UniTree`).  `flatten` and the loops of `root` add the elements of one
tree to another; `UniInv` has the sizes of the three trees as parameters, because
the old tree is still there (`orig`) while the sub-tree is grown, and an iterator
that is in use keeps the set of children it began with (`SnapshotInv`).

`root` of `fsntu`.  `RootState` relates the tree at the call, what is left of it
and the tree that is built.  It needs no sequences: the children of a node in the
new tree are the images of those that have an id in `visited`, and a later sibling
has an earlier image (`Copied`).  While the for-loop is at `child` those are the
newer siblings (`Walking`), of a node on the stack none, of one that is done all
(`Worked`).  That a node which moves has no child that moved before it is where
cycles must be ruled out: nothing moves that is older than the new root
(`Reached`), and only a root can be its own child.  Since an out_iterator delivers
a set of children in the one decreasing order (`UniNewest`, `NewestUnique`), the
sets give the sequences at the return (`RootReverses`), and an empty stack makes
the set closed (`RootReaches`).  `flatten` is an induction over the children
(`TwoLevels`, `LeafAdded`).

The tree of pointers.  `AdjInv` says that the tree is `Consistent` with the
history `made` until an erasure was undefined.  Between the two loops of `erase`
the counts are wrong, and the history still has arcs that are gone, so the part
of it that holds inside a call is a predicate of its own, `Whole`: each vector
holds its arcs once, in the order of the history (`Holds`, `InOrder`), and the
pools have every slot alive or free (`PoolOK`).  `EraseKeeps` is one erasure.  A
loop over a vector reads memory that each of its passes shifts: `Passed` follows
the memory pass by pass.  What it shows is why two arcs are the limit.  The first
pass shifts the second arc to the front.  With two arcs it also stays behind the
new end, where the second pass reads it.  With more it does not, so that no later
pass reads it; a loop that came to its end would have erased as many arcs as
there were, but not that one, and so must have read one twice (`EraseAllKeeps`).
When a call is over `HistoryThinned` takes the erased arcs out of the history,
and there is one sequence of a set of arcs in its order (`InOrderUnique`), which
makes the vectors the ones `VectorsExact` names.  `DestroysLive` comes from
`PoolOK` of the nodes: what is in a block and not free is alive.  The blocks are
the live and the free slots, each once, so a pool that has nothing free and asks
for a block has as many blocks as live elements, and the one to come makes more
alive than ever before (`AllocatePeaks`).

The distribution.  `DrawInv` says that the parameters are those of the interval
(`ParamInv`) and the result is in it.  A multiplication of a word by a range has
its high part below the range (`HighBelow`), and the conversions between the two
types, modulo W, meet in the interval (`Conversion`, `UpperBound`).

The words that give an integer are those whose product with the length r of the
interval has its upper half at that integer and its lower half not below the
threshold.  These products are the multiples of r in a stretch of W - W % r numbers
when the threshold is W % r, and there are W div r of them wherever the stretch
lies (`EquallyMany`).  That the threshold is W % r in either loop (`RejectsRemainder`;
from half of W on the second loop takes one word for each integer instead) is where `Promoted` comes in.

Only model-checked: liveness (`Returns` of the three loops, `Terminates` of the
driver), which is out of the prover's reach.  The invariants give the reason for
it, that a node is pushed once.  That a table stops growing while it emplaces is
not stated as a property: the graph of the run is finite, but for a hash function
that sends every key to one home it depends on the jump distances.

## Not modelled

* Serialization and stream output (formatting only); the pointer iterators over
  the vectors (addresses); allocation failure (the functions are `noexcept` and
  terminate); overflow of 32-bit ids (beyond memory); data races on the static
  vectors (no threads).
* `Link` and `Path`: each call is one of `std::vector`, and no code uses a path.
  `types.hpp` and `padded.hpp`: typedefs and compile-time arithmetic.
* The table of `flat_hash_map.hpp` itself, which nothing instantiates (only its
  policy and hashing are used), the other policies, and of the bytell map
  allocators, exceptions, swap and moves of whole tables, and the set.
* `addLink` of `mcts_emu.hpp`: a template that compiles only for a tree with
  `data ( node )`, which of the trees only `ast` has; nothing calls it.  What the
  target of `invalid_arc` should be: nothing reads it, and `setRoot` of any tree
  of the type writes it.
* Pools with more than one element in a chunk, and moved pools: no code has
  them, and the move assignment does not compile.
* `bounded_range_bitmask`, which a condition that is false for every type
  leaves out, and generators of fewer bits than the type.
* What the callers of `Moves` must not do (push beyond the capacity, draw or
  remove from an empty list).

## What is left

An abstract allocator, and `PoolAllocator` shown to implement it, apart from the
tree above it.
