----------------------------- MODULE PoolSingle -----------------------------
(***************************************************************************)
(* PoolSingle<T> (checker/pool_single.h): the pool of equally sized slots  *)
(* that backs every Type and TypeRef of the type VM.  Memory comes in      *)
(* blocks linked by their headers; a slot is taken from the free list, from *)
(* the bump pointer currentSlot of the current block, from a block left    *)
(* over from before a clear(), or from a new block.  gc() defers a release *)
(* to a queue of bounded size.                                             *)
(*                                                                         *)
(* Addresses are a block number and a byte offset, as the code computes    *)
(* the end of a block in bytes and the next slot by pointer increment.     *)
(***************************************************************************)
EXTENDS Integers, Sequences, FiniteSets, SequencesExt

CONSTANTS SlotSize,      \* sizeof(slot_type)
          BlockSize,     \* template parameter, sizeof(T) * (1 + Items)
          GCQueueSize,   \* template parameter, capacity of gcQueue
          MaxBlocks      \* bound of the model on calls of operator new

\* static_assert(BlockSize >= 2 * sizeof(slot_type)) and std::array sizes.
ASSUME SizesAssumption == /\ SlotSize \in Nat \ {0}
                          /\ BlockSize \in Nat
                          /\ BlockSize >= 2 * SlotSize
                          /\ GCQueueSize \in Nat \ {0}
                          /\ MaxBlocks \in Nat

VARIABLES
    active,         \* the pool's own count of slots in use
    blocks,         \* number of blocks ever allocated
    next, prev,     \* block headers: block number -> block number or Null
    currentBlock, firstBlock,
    currentSlot,    \* byte offset of the next unused slot in currentBlock
    lastSlot,       \* byte offset at which currentBlock is full
    freeSlot,       \* the linked list of released slots, head first
    gcQueue,        \* the first gcQueued entries of the array gcQueue
    live,           \* client side: the slots handed out and not yet released
    deleted         \* blocks given back to operator delete; Null: pool alive

headers == <<blocks, next, prev, firstBlock>>
bump    == <<currentBlock, currentSlot, lastSlot>>
vars    == <<active, headers, bump, freeSlot, gcQueue, live, deleted>>

Null   == 0
Blocks == 1..MaxBlocks

Slot(b, o) == [block |-> b, off |-> o, size |-> SlotSize]

\* The slots a pool of these sizes can be asked about.
Slots == {Slot(b, o) : b \in Blocks, o \in 0..BlockSize}

Alive == deleted = {}

\* Slots a client may still pass to the pool: held and not already queued.
Held == live \ Range(gcQueue)
-----------------------------------------------------------------------------
Init == /\ active = 0 /\ blocks = 0
        /\ next = [b \in Blocks |-> Null]
        /\ prev = [b \in Blocks |-> Null]
        /\ currentBlock = Null /\ firstBlock = Null
        /\ currentSlot = 0 /\ lastSlot = 0
        /\ freeSlot = <<>> /\ gcQueue = <<>>
        /\ live = {} /\ deleted = {}

\* Variant: the end of the block computed without room for the last slot.
InitializeBlockLong(b, used) ==
    /\ currentBlock' = b
    /\ currentSlot' = SlotSize + used
    /\ lastSlot' = BlockSize + 1

\* initializeBlock(nextBlock), after which `used` bytes of the first slot are
\* taken by the allocation that asked for the block.
InitializeBlock(b, used) ==
    /\ currentBlock' = b
    /\ currentSlot' = SlotSize + used
    /\ lastSlot' = BlockSize - SlotSize + 1

HandOut(p) == /\ active' = active + 1
              /\ live' = live \cup {p}

\* Variant: the free list is read but not advanced.
AllocateFreeTwice ==
    /\ freeSlot # <<>>
    /\ HandOut(Head(freeSlot))
    /\ UNCHANGED <<headers, bump, freeSlot, gcQueue, deleted>>

\* allocate(), free list first.
AllocateFree ==
    /\ freeSlot # <<>>
    /\ HandOut(Head(freeSlot))
    /\ freeSlot' = Tail(freeSlot)
    /\ UNCHANGED <<headers, bump, gcQueue, deleted>>

\* allocate() from the current block.
AllocateBump ==
    /\ freeSlot = <<>> /\ currentSlot < lastSlot
    /\ HandOut(Slot(currentBlock, currentSlot))
    /\ currentSlot' = currentSlot + SlotSize
    /\ UNCHANGED <<headers, currentBlock, lastSlot, freeSlot, gcQueue, deleted>>

\* allocate() when the current block is full and a later block is left over.
AllocateReusedBlock ==
    /\ freeSlot = <<>> /\ currentSlot >= lastSlot
    /\ currentBlock # Null /\ next[currentBlock] # Null
    /\ InitializeBlock(next[currentBlock], SlotSize)
    /\ HandOut(Slot(next[currentBlock], SlotSize))
    /\ UNCHANGED <<headers, freeSlot, gcQueue, deleted>>

\* Variant: the header of the current block is not asked for a next block.
AllocateNewBlockAlways ==
    /\ freeSlot = <<>> /\ currentSlot >= lastSlot
    /\ blocks < MaxBlocks
    /\ blocks' = blocks + 1
    /\ prev' = [prev EXCEPT ![blocks + 1] = currentBlock]
    /\ next' = [c \in Blocks |-> IF c = currentBlock THEN blocks + 1 ELSE next[c]]
    /\ firstBlock' = IF firstBlock = Null THEN blocks + 1 ELSE firstBlock
    /\ InitializeBlock(blocks + 1, SlotSize)
    /\ HandOut(Slot(blocks + 1, SlotSize))
    /\ UNCHANGED <<freeSlot, gcQueue, deleted>>

\* allocate() when there is no block left: allocateBlock and setNextBlock.
AllocateNewBlock ==
    /\ freeSlot = <<>> /\ currentSlot >= lastSlot
    /\ currentBlock # Null => next[currentBlock] = Null
    /\ blocks < MaxBlocks
    /\ LET b == blocks + 1 IN
       /\ blocks' = b
       /\ prev' = [prev EXCEPT ![b] = currentBlock]
       /\ next' = [c \in Blocks |-> IF c = b THEN Null
                                    ELSE IF c = currentBlock THEN b
                                    ELSE next[c]]
       /\ firstBlock' = IF firstBlock = Null THEN b ELSE firstBlock
       /\ InitializeBlock(b, SlotSize)
       /\ HandOut(Slot(b, SlotSize))
    /\ UNCHANGED <<freeSlot, gcQueue, deleted>>

\* construct(): allocate() and the constructor, which touches no pool state.
Construct == Alive /\ (\/ AllocateFree \/ AllocateBump
                       \/ AllocateReusedBlock \/ AllocateNewBlock)

\* destruct(p): the destructor, then deallocate(p).
Destruct(p) ==
    /\ Alive
    /\ p \in Held
    /\ active' = active - 1
    /\ freeSlot' = <<p>> \o freeSlot
    /\ live' = live \ {p}
    /\ UNCHANGED <<headers, bump, gcQueue, deleted>>

\* Variant: the last queued slot is skipped.
FlushAllButLast ==
    /\ active' = active - Len(gcQueue)
    /\ freeSlot' = Reverse(SubSeq(gcQueue, 1, Len(gcQueue) - 1)) \o freeSlot
    /\ live' = live \ Range(gcQueue)

\* What gcFlush() does: destruct() on every queued slot, in queue order.
Flush == /\ active' = active - Len(gcQueue)
         /\ freeSlot' = Reverse(gcQueue) \o freeSlot
         /\ live' = live \ Range(gcQueue)

GcFlush == /\ Alive
           /\ Flush
           /\ gcQueue' = <<>>
           /\ UNCHANGED <<headers, bump, deleted>>

\* Variant: the queue is flushed one entry too late.
GcLate(p) ==
    /\ Alive
    /\ p \in Held
    /\ \/ /\ Len(gcQueue) > GCQueueSize
          /\ Flush
          /\ gcQueue' = <<p>>
       \/ /\ Len(gcQueue) <= GCQueueSize
          /\ gcQueue' = Append(gcQueue, p)
          /\ UNCHANGED <<active, freeSlot, live>>
    /\ UNCHANGED <<headers, bump, deleted>>

\* gc(p): a full queue is flushed before p is queued.
Gc(p) ==
    /\ Alive
    /\ p \in Held
    /\ \/ /\ Len(gcQueue) >= GCQueueSize
          /\ Flush
          /\ gcQueue' = <<p>>
       \/ /\ Len(gcQueue) < GCQueueSize
          /\ gcQueue' = Append(gcQueue, p)
          /\ UNCHANGED <<active, freeSlot, live>>
    /\ UNCHANGED <<headers, bump, deleted>>

\* Variant: clear() keeps the free list.
ClearKeepingFree ==
    /\ Alive
    /\ active' = 0 /\ gcQueue' = <<>> /\ live' = {}
    /\ IF firstBlock # Null THEN InitializeBlock(firstBlock, 0) ELSE UNCHANGED bump
    /\ UNCHANGED <<headers, freeSlot, deleted>>

\* clear(): every slot is forgotten, the blocks are kept and used again.
Clear ==
    /\ Alive
    /\ active' = 0 /\ freeSlot' = <<>> /\ gcQueue' = <<>> /\ live' = {}
    /\ IF firstBlock # Null THEN InitializeBlock(firstBlock, 0) ELSE UNCHANGED bump
    /\ UNCHANGED <<headers, deleted>>

\* The blocks the destructor meets from block b back along the headers: what
\* every set with b that is closed under `prev` contains.
BackFrom(b) ==
    {d \in Blocks : \A S \in SUBSET Blocks :
        b \in S /\ (\A c \in S : prev[c] # Null => prev[c] \in S) => d \in S}

\* Variant: the walk starts behind the current block.
DestructorSkippingCurrent ==
    /\ Alive /\ currentBlock # Null
    /\ deleted' = IF prev[currentBlock] = Null THEN {} ELSE BackFrom(prev[currentBlock])
    /\ live' = {}
    /\ UNCHANGED <<active, headers, bump, freeSlot, gcQueue>>

\* ~PoolSingle(), when the process ends.
Destructor ==
    /\ Alive /\ currentBlock # Null
    /\ deleted' = BackFrom(currentBlock)
    /\ live' = {}
    /\ UNCHANGED <<active, headers, bump, freeSlot, gcQueue>>

Next == \/ Construct
        \/ \E p \in live : Destruct(p) \/ Gc(p)
        \/ GcFlush
        \/ Clear
        \/ Destructor

Spec == Init /\ [][Next]_vars
-----------------------------------------------------------------------------
(* Properties *)

\* The fields of PoolSingle and of the block headers have their types; every slot
\* that allocate() handed out, or that is queued or free, starts inside a block.
TypeOK ==
    /\ active \in Int
    /\ blocks \in 0..MaxBlocks
    /\ next \in [Blocks -> 0..MaxBlocks] /\ prev \in [Blocks -> 0..MaxBlocks]
    /\ currentBlock \in 0..MaxBlocks /\ firstBlock \in 0..MaxBlocks
    /\ currentSlot \in Nat /\ lastSlot \in Nat
    /\ freeSlot \in Seq(Slots) /\ gcQueue \in Seq(Slots)
    /\ live \subseteq Slots
    /\ deleted \subseteq Blocks

A == INSTANCE Allocator WITH HeaderSize <- SlotSize, held <- IF Alive THEN active ELSE 0

\* Every call of allocate(), destruct(), gc(), gcFlush() and clear() is a step of
\* the allocator the clients rely on: the slot allocate() returns lies inside a
\* block, after its header, and overlaps no slot still held, queued slots
\* included; the others only give slots back.
ImplementsAllocator == A!Spec

\* No two slots that allocate() returned and nobody released share a byte, none
\* reaches into a block header or behind a block, and `active`, which the tests
\* of the VM compare, is the number of slots in use and never wraps below zero.
NoAliasing == A!Safe

\* A slot is on the free list at most once and never while a client holds it.
FreeListSound == Alive => /\ \A i, j \in DOMAIN freeSlot : freeSlot[i] = freeSlot[j] => i = j
                          /\ Range(freeSlot) \cap live = {}

\* The slots of a block behind its header, and the slots allocate() carved from
\* the blocks up to the current one since the last clear().
SlotsPerBlock == (BlockSize \div SlotSize) - 1
Carved == IF currentBlock = Null THEN 0
          ELSE (currentBlock - 1) * SlotsPerBlock + (currentSlot \div SlotSize) - 1

\* Every slot ever carved from the blocks in use is either held or on the free
\* list: no sequence of gc(), gcFlush() and clear() loses one.
NoSlotLost == Alive => Carved = Cardinality(live) + Len(freeSlot)

\* gcQueue is a std::array of GCQueueSize pointers: gc() stays inside it and
\* queues nothing twice.
QueueInBounds == /\ Len(gcQueue) <= GCQueueSize
                 /\ Alive => IsInjective(gcQueue) /\ Range(gcQueue) \subseteq live

\* A new block is requested from operator new only after every block that
\* exists, those from before a clear() included, is completely handed out.
BlocksReused ==
    [][blocks' # blocks => /\ live = {Slot(b, o) : b \in 1..blocks, o \in {SlotSize * k : k \in 1..SlotsPerBlock}}]_vars

\* The destructor reaches every block up to the current one exactly once; only
\* blocks left over from before the last clear() stay behind.
DestructorReachesUsedBlocks == ~Alive => deleted = 1..currentBlock
=============================================================================
