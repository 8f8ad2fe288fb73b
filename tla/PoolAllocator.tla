--------------------------- MODULE PoolAllocator ---------------------------
(***************************************************************************)
(* pool_allocator of MCTSSearchTree/pool_allocator.inl, with ChunkCount 1: *)
(* blocks of virtual memory, and a list of the slots that were given back, *)
(* which is threaded through the slots themselves.                         *)
(*                                                                         *)
(* An address stands for a block and for its first slot.  allocate_block   *)
(* sets m_last_slot one chunk behind the first slot, and a chunk is one    *)
(* element: whatever block_size and no_chunks say, a block has one slot.   *)
(***************************************************************************)
EXTENDS Integers, FiniteSets, SequencesExt

CONSTANT Addresses   \* of the blocks VirtualAlloc may return

ASSUME AddressAssumption == Addresses \subseteq Nat \ {0}

nullptr == 0

\* The blocks, newest first, the next slot and the end of the newest block, and
\* the free slots, last freed first.
Pool(blocks, slot, last, free) ==
  [m_current_block |-> blocks, m_current_slot |-> slot, m_last_slot |-> last,
   m_free_slots |-> free]

NewPool == Pool(<<>>, nullptr, nullptr, <<>>)

first_slot(block) == block

\* [Mutant: a block has room for two chunks.]
last_slot_two(block) == block + 2

last_slot(block) == block + 1

Blocks(p) == ToSet(p.m_current_block)
Free(p) == ToSet(p.m_free_slots)

\* Where virtual_alloc may put a block.
virtual_alloc(p) == Addresses \ Blocks(p)

allocate_block(p, block) ==
  Pool(<<block>> \o p.m_current_block, first_slot(block), last_slot(block), p.m_free_slots)

\* What allocate may return: the last slot that was freed, or a slot never used.
allocate(p) ==
  IF p.m_free_slots # <<>> THEN {Head(p.m_free_slots)}
  ELSE IF p.m_current_slot >= p.m_last_slot THEN virtual_alloc(p)
  ELSE {p.m_current_slot}

\* [Mutant: the free list is not shortened.]
allocated_again(p, slot) ==
  IF p.m_free_slots # <<>> THEN p
  ELSE LET q == IF p.m_current_slot >= p.m_last_slot THEN allocate_block(p, slot) ELSE p
       IN  [q EXCEPT !.m_current_slot = @ + 1]

\* The pool after it returned a slot.
allocated(p, slot) ==
  IF p.m_free_slots # <<>> THEN [p EXCEPT !.m_free_slots = Tail(@)]
  ELSE LET q == IF p.m_current_slot >= p.m_last_slot THEN allocate_block(p, slot) ELSE p
       IN  [q EXCEPT !.m_current_slot = @ + 1]

deallocate(p, slot) == [p EXCEPT !.m_free_slots = <<slot>> \o @]

\* The slots that were handed out at some time: in the newest block up to
\* m_current_slot, in the others all.
slots(p) ==
  UNION {first_slot(p.m_current_block[i]) ..
           (IF i = 1 THEN p.m_current_slot ELSE last_slot(p.m_current_block[i])) - 1 :
         i \in DOMAIN p.m_current_block}

\* [Mutant: the last free slot is not in the vector.]
destroyed_missesOne(p) == {slots(p) \ ToSet(Tail(p.m_free_slots \o <<nullptr>>))}

\* The slots that the destructor may destroy, one set for each outcome: those
\* that are not free.  A slot behind every free one is compared with what
\* lower_bound finds at the end of the sorted vector, memory nobody wrote: when
\* this happens to be its address it is taken for a free one.
destroyed(p) ==
  LET behind == {s \in slots(p) : Free(p) # {} /\ \A f \in Free(p) : s > f}
  IN  {(slots(p) \ Free(p)) \ taken : taken \in SUBSET behind}

============================================================================
