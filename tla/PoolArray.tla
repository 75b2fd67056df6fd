------------------------------ MODULE PoolArray ------------------------------
(***************************************************************************)
(* PoolArray<T> (checker/pool_array.h): spans of TypeRefs for the hash     *)
(* tables of objects and unions.  A span of `size` elements comes from the *)
(* pool of the next power of two, which has blocks, a bump pointer, a free *)
(* list and a garbage collection queue of its own.                         *)
(*                                                                         *)
(* Offsets count slots: a TypeRef is as large as the header (two pointers), *)
(* so an element fills a slot and a block has Items + 1 slots.  The        *)
(* counter `active` is left out: gc() never decrements it, so it does not  *)
(* count what is in use, and nothing in the program reads it.              *)
(***************************************************************************)
EXTENDS Integers, Sequences, FiniteSets, SequencesExt

CONSTANTS Items,         \* template parameter: slots of a block behind its header
          GCQueueSize,   \* template parameter: slots of all spans in a queue
          Classes,       \* slotSize of each pool
          Sizes,         \* sizes of the spans clients ask for
          MaxBlocks      \* bound of the model on calls of operator new

\* static_assert(Items >= GCQueueSize); the classes are 1, 2, 4, ...
ASSUME ArrayAssumption == /\ Items \in Nat \ {0} /\ GCQueueSize \in 0..Items
                          /\ Classes \subseteq Nat \ {0} /\ 1 \in Classes
                          /\ \A c \in Classes : c > 1 => \E d \in Classes : c = 2 * d
                          /\ Sizes \subseteq Nat \ {0} /\ MaxBlocks \in Nat

VARIABLES
    blocks,       \* number of blocks ever allocated, over all pools
    headers,      \* header of every block: [prev, next]
    pools,        \* class -> struct Pool
    live, held    \* client side: the spans handed out and not yet released, and their number

vars == <<blocks, headers, pools, live, held>>

Null == 0
Blocks == 1..MaxBlocks

Span(b, o, n) == [block |-> b, off |-> o, size |-> n]

\* gcQueueSize(ceil(GCQueueSize/slotSize)): the division is one of integers.
QueueSizeOf(c) == GCQueueSize \div c

\* poolIndex(): sizes above the largest class are clamped to it.
ClassAbove(size) == CHOOSE c \in Classes : size <= c /\ \A d \in Classes : size <= d => c <= d
ClassBelow(size) == CHOOSE c \in Classes : c <= size /\ \A d \in Classes : d <= size => d <= c

\* Variant: floor instead of ceil.
PoolIndexFloor(size) == ClassBelow(size)

PoolIndex(size) == IF \E c \in Classes : size <= c THEN ClassAbove(size) ELSE Max(Classes)

\* Spans a client may still pass to the pool: held and not already queued.
Queued == {p \in live : \E c \in Classes : <<p.block, p.off>> \in Range(pools[c].gcQueue)}
Held == live \ Queued
-----------------------------------------------------------------------------
EmptyPool == [currentBlock |-> Null, firstBlock |-> Null, currentSlot |-> 0, lastSlot |-> 0,
              freeSlot |-> <<>>, gcQueue |-> <<>>]

Init == /\ blocks = 0
        /\ headers = [b \in Blocks |-> [prev |-> Null, next |-> Null]]
        /\ pools = [c \in Classes |-> EmptyPool]
        /\ live = {} /\ held = 0

\* initializeBlock(): lastSlot is one byte behind the start of the last slot.
InitializeBlock(pool, b) ==
    [pool EXCEPT !.currentBlock = b, !.currentSlot = 1, !.lastSlot = Items]

\* `currentSlot + slotSize - 1 >= lastSlot` for a lastSlot of Items slots and a byte.
Full(pool, c) == pool.currentBlock = Null \/ pool.currentSlot + c - 1 > pool.lastSlot

HandOut(p) == live' = live \cup {p} /\ held' = held + 1

\* The span allocate() returns once the current block is settled: it starts one
\* slot behind currentSlot.
TakeSlot(pool, c, size) ==
    /\ HandOut(Span(pool.currentBlock, pool.currentSlot + 1, size))
    /\ pools' = [pools EXCEPT ![c] = [pool EXCEPT !.currentSlot = @ + c]]

ConstructFree(size) ==
    LET c == PoolIndex(size) IN
    /\ pools[c].freeSlot # <<>>
    /\ LET p == Head(pools[c].freeSlot) IN HandOut(Span(p[1], p[2], size))
    /\ pools' = [pools EXCEPT ![c].freeSlot = Tail(@)]
    /\ UNCHANGED <<blocks, headers>>

ConstructBump(size) ==
    LET c == PoolIndex(size) IN
    /\ pools[c].freeSlot = <<>> /\ ~Full(pools[c], c)
    /\ TakeSlot(pools[c], c, size)
    /\ UNCHANGED <<blocks, headers>>

\* allocateBlock() with a block left over from before clear().
HasNextBlock(pool) == pool.currentBlock # Null /\ headers[pool.currentBlock].next # Null

ConstructReusedBlock(size) ==
    LET c == PoolIndex(size) IN
    /\ pools[c].freeSlot = <<>> /\ Full(pools[c], c) /\ HasNextBlock(pools[c])
    /\ TakeSlot(InitializeBlock(pools[c], headers[pools[c].currentBlock].next), c, size)
    /\ UNCHANGED <<blocks, headers>>

\* allocateBlock() and setNextBlock() with a new block.
ConstructNewBlock(size) ==
    LET c == PoolIndex(size)
        b == blocks + 1
        first == IF pools[c].firstBlock = Null THEN b ELSE pools[c].firstBlock
    IN
    /\ pools[c].freeSlot = <<>> /\ Full(pools[c], c) /\ ~HasNextBlock(pools[c])
    /\ blocks < MaxBlocks
    /\ blocks' = b
    /\ headers' = [d \in Blocks |->
                      CASE d = b -> [prev |-> pools[c].currentBlock, next |-> Null]
                        [] d = pools[c].currentBlock -> [headers[d] EXCEPT !.next = b]
                        [] OTHER -> headers[d]]
    /\ TakeSlot(InitializeBlock([pools[c] EXCEPT !.firstBlock = first], b), c, size)

\* destruct(span): the destructors, then deallocate(span).
Destruct(p) ==
    /\ p \in Held
    /\ live' = live \ {p} /\ held' = held - 1
    /\ pools' = [pools EXCEPT ![PoolIndex(p.size)].freeSlot = <<<<p.block, p.off>>>> \o @]
    /\ UNCHANGED <<blocks, headers>>

\* Variant: the entries stay queued.
FlushedKeepingQueue(pool) == [pool EXCEPT !.freeSlot = Reverse(pool.gcQueue) \o @]

\* Pool::gcFlush(): all gcQueueSize entries go to the free list.
Flushed(pool) == [pool EXCEPT !.freeSlot = Reverse(pool.gcQueue) \o @, !.gcQueue = <<>>]

\* gc(span): a full queue is flushed before the span is queued.
Gc(p) ==
    LET c == PoolIndex(p.size)
        full == Len(pools[c].gcQueue) >= QueueSizeOf(c)
        pool == IF full THEN Flushed(pools[c]) ELSE pools[c]
        gone == {q \in live : <<q.block, q.off>> \in Range(pools[c].gcQueue)}
    IN
    /\ p \in Held
    /\ pools' = [pools EXCEPT ![c] = [pool EXCEPT !.gcQueue = Append(@, <<p.block, p.off>>)]]
    /\ live' = IF full THEN live \ gone ELSE live
    /\ held' = IF full THEN held - Len(pools[c].gcQueue) ELSE held
    /\ UNCHANGED <<blocks, headers>>

\* Variant: the free list survives clear().
ClearedKeepingFree(pool) ==
    IF pool.firstBlock = Null THEN pool ELSE InitializeBlock([pool EXCEPT !.gcQueue = <<>>], pool.firstBlock)

\* clear(): every span is forgotten, the blocks are kept and used again.
Cleared(pool) ==
    LET empty == [pool EXCEPT !.freeSlot = <<>>, !.gcQueue = <<>>]
    IN  IF pool.firstBlock = Null THEN empty ELSE InitializeBlock(empty, pool.firstBlock)

Clear == /\ live' = {} /\ held' = 0
         /\ pools' = [c \in Classes |-> Cleared(pools[c])]
         /\ UNCHANGED <<blocks, headers>>

Next == \/ \E size \in Sizes : \/ ConstructFree(size) \/ ConstructBump(size)
                               \/ ConstructReusedBlock(size) \/ ConstructNewBlock(size)
        \/ \E p \in live : Destruct(p) \/ Gc(p)
        \/ Clear

Spec == Init /\ [][Next]_vars
-----------------------------------------------------------------------------
(* Properties *)

\* The class spans of size n come from is the class they are returned to, so
\* the whole slot of its class belongs to a span.
SlotOf(p) == [p EXCEPT !.size = IF @ > PoolIndex(@) THEN @ ELSE PoolIndex(@)]
FreeSlots == UNION {{Span(a[1], a[2], c) : a \in Range(pools[c].freeSlot)} : c \in Classes}

\* What an allocator promises, for blocks that were one slot longer than
\* operator new is asked for: every span overlaps no span still held, whatever
\* mix of sizes, releases, queued releases and clear() came before.
A == INSTANCE Allocator WITH HeaderSize <- 1, BlockSize <- Items + 2
ImplementsAllocator == A!Spec

\* Slots on the free lists of all pools are disjoint from each other and from
\* the slots of the spans clients hold: a slot released to one class is never
\* also part of a slot of another.
FreeListsSound ==
    /\ \A c \in Classes : IsInjective(pools[c].freeSlot)
    /\ LET all == FreeSlots \cup {SlotOf(p) : p \in live}
       IN  \A p, q \in all : p # q => A!Disjoint(p, q)
    /\ FreeSlots \cap {SlotOf(p) : p \in live} = {}

\* gc() writes inside the queue, which std::vector::operator[] does not check,
\* and what is queued is still held and queued once.
QueueInBounds ==
    \A c \in Classes : /\ Len(pools[c].gcQueue) <= QueueSizeOf(c)
                       /\ IsInjective(pools[c].gcQueue)
                       /\ Range(pools[c].gcQueue) \subseteq {<<p.block, p.off>> : p \in live}

\* A block is "(Items + 1) * sizeof<T>. Plus 1 because first entry is block
\* header" (checker/pool_array.h): no span reaches behind it.
SpansInsideBlock == \A p \in live : p.off + p.size <= Items + 1
=============================================================================
