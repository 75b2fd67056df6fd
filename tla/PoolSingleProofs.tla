-------------------------- MODULE PoolSingleProofs --------------------------
(***************************************************************************)
(* Proofs about PoolSingle for all sizes of slots, blocks and queue and    *)
(* any number of blocks: its type invariant, that no slot is handed out    *)
(* twice, that free list and queue are sound, and that the pool implements *)
(* the abstract Allocator.                                                 *)
(***************************************************************************)
EXTENDS PoolSingle, ListLemmas

(***************************************************************************)
(* The inductive invariant.  NoAliasing alone is not inductive: it says    *)
(* nothing about the slots that will be handed out next.                   *)
(***************************************************************************)

\* Every slot that was carved out of the blocks and can be held or handed out.
Owned == live \cup Range(freeSlot)

\* The headers link the blocks in the order they were requested.
Chain ==
    /\ IF blocks = 0 THEN currentBlock = Null /\ firstBlock = Null
                     ELSE currentBlock \in 1..blocks /\ firstBlock = 1
    /\ \A b \in Blocks : /\ next[b] = IF b < blocks THEN b + 1 ELSE Null
                         /\ prev[b] = IF b <= blocks THEN b - 1 ELSE Null

\* currentSlot < lastSlot means that a whole slot is left.
Cursor ==
    IF currentBlock = Null THEN currentSlot = 0 /\ lastSlot = 0
    ELSE SlotSize <= currentSlot /\ lastSlot = (BlockSize - SlotSize) + 1

\* A slot that was carved lies behind the header and below currentSlot.
Carving ==
    \A p \in Owned : /\ p.block \in 1..currentBlock
                     /\ SlotSize <= p.off /\ p.off + SlotSize <= BlockSize
                     /\ p.block = currentBlock => p.off + SlotSize <= currentSlot

\* No two slots that are held or free share a byte.
Apart == \A p, q \in Owned : p # q => A!Disjoint(p, q)

\* Free list and queue hold each slot once; what is free is not held, what is
\* queued still is.
Lists == /\ IsInjective(freeSlot) /\ Range(freeSlot) \cap live = {}
         /\ IsInjective(gcQueue) /\ Len(gcQueue) <= GCQueueSize
         /\ Alive => Range(gcQueue) \subseteq live

\* `active` counts the held slots.
Counting == IsFiniteSet(live) /\ IF Alive THEN active = Cardinality(live) ELSE live = {}

IInv == TypeOK /\ Chain /\ Cursor /\ Carving /\ Apart /\ Lists /\ Counting

\* The slots of the model are records of the fixed size.
LEMMA SlotShape ==
    ASSUME NEW p \in Slots
    PROVE  /\ p.block \in Blocks /\ p.off \in 0..BlockSize /\ p.size = SlotSize
           /\ p = Slot(p.block, p.off)
<1>1. PICK b \in Blocks, o \in 0..BlockSize : p = Slot(b, o)
  BY DEF Slots
<1> QED BY <1>1 DEF Slot

\* The fields of a slot.
LEMMA SlotFields ==
    ASSUME NEW b, NEW o
    PROVE  Slot(b, o).block = b /\ Slot(b, o).off = o /\ Slot(b, o).size = SlotSize
BY DEF Slot

\* Handing out one more slot, however it was found.
LEMMA OneMore ==
    ASSUME IInv, Alive, Alive', NEW p, p \notin live, HandOut(p)
    PROVE  Counting'
<1>1. IsFiniteSet(live') /\ Cardinality(live') = Cardinality(live) + 1
  BY FS_AddElement DEF IInv, Counting, HandOut
<1> QED BY <1>1 DEF IInv, Counting, HandOut

\* The slot allocate() returns is in no other hands (what Allocator asks for).
HandsOutFresh ==
    \E p \in Slots : /\ SlotSize <= p.off /\ p.off + SlotSize <= BlockSize
                     /\ p \notin live /\ \A q \in live : A!Disjoint(p, q)
                     /\ HandOut(p)

\* A slot at or behind the bump pointer is free: handing it out and moving the
\* pointer behind it keeps every slot apart from every other.
LEMMA FreshSlot ==
    ASSUME IInv, Alive, freeSlot = <<>>,
           NEW b \in Blocks, NEW o \in Nat,
           b >= currentBlock, SlotSize <= o, o + SlotSize <= BlockSize,
           b = currentBlock => currentSlot <= o,
           HandOut(Slot(b, o)), currentBlock' = b, currentSlot' = o + SlotSize,
           UNCHANGED <<freeSlot, gcQueue, deleted>>
    PROVE  /\ HandsOutFresh
           /\ live' \subseteq Slots /\ active' \in Int
           /\ Carving' /\ Apart' /\ Lists' /\ Counting'
<1> DEFINE p == Slot(b, o)
<1>1. p.block = b /\ p.off = o /\ p.size = SlotSize
  BY SlotFields
<1>2. SlotSize \in Nat \ {0} /\ BlockSize \in Nat /\ currentBlock \in Nat /\ currentSlot \in Nat
  BY SizesAssumption DEF IInv, TypeOK
<1>3. o \in 0..BlockSize
  BY <1>2
<1>4. p \in Slots
  BY <1>3 DEF Slots
<1>5. Range(freeSlot) = {} /\ Range(freeSlot') = {}
  BY DEF Range
<1>6. Owned = live /\ Owned' = live \cup {p} /\ live' = live \cup {p}
  BY <1>5 DEF Owned, HandOut
<1>7. \A q \in live : q \in Slots
  BY DEF IInv, TypeOK
<1> HIDE DEF p
<1>8. ASSUME NEW q \in live
      PROVE  /\ q.block \in 1..currentBlock /\ q.off \in Nat /\ q.size = SlotSize
             /\ SlotSize <= q.off /\ q.off + SlotSize <= BlockSize
             /\ q.block = currentBlock => q.off + SlotSize <= currentSlot
  BY <1>6, <1>7, SlotShape DEF IInv, Carving
<1>9. \A q \in live : A!Disjoint(p, q) /\ A!Disjoint(q, p)
  BY <1>1, <1>2, <1>8 DEF A!Disjoint
<1>10. p \notin live
  BY <1>1, <1>2, <1>9 DEF A!Disjoint
<1>11. Carving'
  <2>1. ASSUME NEW q \in Owned'
        PROVE  /\ q.block \in 1..b /\ SlotSize <= q.off /\ q.off + SlotSize <= BlockSize
               /\ q.block = b => q.off + SlotSize <= o + SlotSize
    <3>1. CASE q = p
      BY <1>1, <1>2, <3>1 DEF Blocks
    <3>2. CASE q \in live
      BY <1>2, <1>8, <3>2 DEF Blocks
    <3> QED BY <1>6, <3>1, <3>2
  <2> QED BY <2>1 DEF Carving
<1>12. Apart'
  BY <1>6, <1>9 DEF IInv, Apart
<1>13. Lists'
  BY <1>5, <1>6 DEF IInv, Lists, Alive
<1>14. Counting'
  BY <1>10, OneMore DEF p, Alive
<1>15. HandsOutFresh
  <2>1. HandOut(p)
    BY DEF p
  <2> QED BY <1>1, <1>2, <1>4, <1>9, <1>10, <2>1 DEF HandsOutFresh
<1>16. live' \subseteq Slots /\ active' \in Int
  BY <1>4, <1>6, <1>7 DEF HandOut, IInv, TypeOK
<1> QED BY <1>11, <1>12, <1>13, <1>14, <1>15, <1>16

(***************************************************************************)
(* Every step keeps the invariant, one lemma per action.                   *)
(***************************************************************************)

\* A pool without blocks satisfies the invariant.
LEMMA InitInv == Init => IInv
<1> SUFFICES ASSUME Init PROVE IInv
  OBVIOUS
<1>1. Range(freeSlot) = {} /\ Range(gcQueue) = {} /\ Owned = {}
  BY DEF Init, Range, Owned
<1>2. TypeOK
  BY SizesAssumption DEF Init, TypeOK, Null, Blocks
<1>3. Chain /\ Cursor
  BY SizesAssumption DEF Init, Chain, Cursor, Null, Blocks
<1>4. Carving /\ Apart
  BY <1>1 DEF Carving, Apart
<1>5. IsInjective(freeSlot) /\ IsInjective(gcQueue)
  BY DEF Init, IsInjective
<1>6. Lists
  BY <1>1, <1>5, SizesAssumption DEF Init, Lists
<1>7. Counting
  BY FS_EmptySet DEF Init, Counting
<1> QED BY <1>2, <1>3, <1>4, <1>6, <1>7 DEF IInv

\* allocate() from the free list: its head is a carved slot nobody holds.
LEMMA AllocateFreeInv == IInv /\ Alive /\ AllocateFree => IInv' /\ HandsOutFresh
<1> SUFFICES ASSUME IInv, Alive, AllocateFree PROVE IInv' /\ HandsOutFresh
  OBVIOUS
<1> DEFINE p == Head(freeSlot)
<1>1. freeSlot \in Seq(Slots) /\ freeSlot # <<>> /\ IsInjective(freeSlot)
  BY DEF IInv, TypeOK, Lists, AllocateFree
<1>2. /\ p \in Range(freeSlot) /\ Tail(freeSlot) \in Seq(Slots)
      /\ Range(Tail(freeSlot)) = Range(freeSlot) \ {p}
      /\ IsInjective(Tail(freeSlot))
  BY <1>1, TailOfInjective
<1>3. p \in Slots
  BY <1>1, <1>2, RangeOf
<1>4. /\ freeSlot' = Tail(freeSlot) /\ live' = live \cup {p} /\ active' = active + 1 /\ HandOut(p)
      /\ UNCHANGED <<blocks, next, prev, firstBlock, currentBlock, currentSlot, lastSlot, gcQueue, deleted>>
  BY DEF AllocateFree, HandOut, headers, bump
<1> HIDE DEF p
<1>5. Owned' = Owned /\ p \in Owned /\ p \notin live
  BY <1>2, <1>4 DEF Owned, IInv, Lists
<1>6. TypeOK'
  BY <1>2, <1>3, <1>4 DEF IInv, TypeOK
<1>7. Chain' /\ Cursor'
  BY <1>4 DEF IInv, Chain, Cursor
<1>8. Carving' /\ Apart'
  BY <1>4, <1>5 DEF IInv, Carving, Apart
<1>9. Lists'
  BY <1>2, <1>4 DEF IInv, Lists, Alive
<1>10. Counting'
  BY <1>4, <1>5, OneMore DEF Alive
<1>11. HandsOutFresh
  <2>1. \A q \in live : A!Disjoint(p, q)
    BY <1>5 DEF IInv, Apart, Owned
  <2>2. SlotSize <= p.off /\ p.off + SlotSize <= BlockSize
    BY <1>5 DEF IInv, Carving
  <2> QED BY <1>3, <1>4, <1>5, <2>1, <2>2 DEF HandsOutFresh
<1> QED BY <1>6, <1>7, <1>8, <1>9, <1>10, <1>11 DEF IInv

\* allocate() from the current block: the slot at the bump pointer is untouched.
LEMMA AllocateBumpInv == IInv /\ Alive /\ AllocateBump => IInv' /\ HandsOutFresh
<1> SUFFICES ASSUME IInv, Alive, AllocateBump PROVE IInv' /\ HandsOutFresh
  OBVIOUS
<1>1. SlotSize \in Nat \ {0} /\ BlockSize \in Nat /\ BlockSize >= 2 * SlotSize
  BY SizesAssumption
<1>2. currentBlock \in 0..MaxBlocks /\ currentSlot \in Nat /\ lastSlot \in Nat /\ MaxBlocks \in Nat
  BY SizesAssumption DEF IInv, TypeOK
<1>3. /\ currentSlot < lastSlot /\ freeSlot = <<>> /\ HandOut(Slot(currentBlock, currentSlot))
      /\ currentSlot' = currentSlot + SlotSize
      /\ UNCHANGED <<blocks, next, prev, firstBlock, currentBlock, lastSlot, freeSlot, gcQueue, deleted>>
  BY DEF AllocateBump, headers
<1>4. /\ currentBlock # Null /\ SlotSize <= currentSlot /\ lastSlot = (BlockSize - SlotSize) + 1
  BY <1>2, <1>3 DEF IInv, Cursor
<1>5. currentBlock \in Blocks /\ currentSlot + SlotSize <= BlockSize
  BY <1>1, <1>2, <1>3, <1>4 DEF Blocks, Null
<1>6. /\ HandsOutFresh
      /\ live' \subseteq Slots /\ active' \in Int
      /\ Carving' /\ Apart' /\ Lists' /\ Counting'
  BY <1>2, <1>3, <1>4, <1>5, FreshSlot
<1>7. TypeOK' /\ Chain' /\ Cursor'
  <2>1. TypeOK'
    BY <1>1, <1>2, <1>3, <1>6 DEF IInv, TypeOK
  <2>2. Chain' /\ Cursor'
    BY <1>1, <1>2, <1>3, <1>4 DEF IInv, Chain, Cursor
  <2> QED BY <2>1, <2>2
<1> QED BY <1>6, <1>7 DEF IInv

\* allocate() from a block of before a clear(): nothing in it is held.
LEMMA AllocateReusedBlockInv ==
    IInv /\ Alive /\ AllocateReusedBlock => IInv' /\ HandsOutFresh
<1> SUFFICES ASSUME IInv, Alive, AllocateReusedBlock PROVE IInv' /\ HandsOutFresh
  OBVIOUS
<1> DEFINE b == next[currentBlock]
<1>1. /\ SlotSize \in Nat \ {0} /\ BlockSize \in Nat /\ BlockSize >= 2 * SlotSize /\ MaxBlocks \in Nat
      /\ currentBlock \in 0..MaxBlocks /\ blocks \in 0..MaxBlocks
  BY SizesAssumption DEF IInv, TypeOK
<1>2. /\ freeSlot = <<>> /\ currentBlock # Null /\ b # Null /\ HandOut(Slot(b, SlotSize))
      /\ currentBlock' = b /\ currentSlot' = SlotSize + SlotSize
      /\ lastSlot' = (BlockSize - SlotSize) + 1
      /\ UNCHANGED <<blocks, next, prev, firstBlock, freeSlot, gcQueue, deleted>>
  BY <1>1 DEF AllocateReusedBlock, InitializeBlock, headers
<1>3. currentBlock \in Blocks /\ currentBlock < blocks /\ b = currentBlock + 1
  BY <1>1, <1>2 DEF IInv, Chain, Blocks, Null
<1>4. b \in Blocks /\ b \in 1..blocks /\ b >= currentBlock /\ b # currentBlock
  BY <1>1, <1>3 DEF Blocks
<1> HIDE DEF b
<1>5. /\ HandsOutFresh
      /\ live' \subseteq Slots /\ active' \in Int
      /\ Carving' /\ Apart' /\ Lists' /\ Counting'
  BY <1>1, <1>2, <1>4, FreshSlot
<1>6. TypeOK'
  BY <1>1, <1>2, <1>4, <1>5 DEF IInv, TypeOK
<1>7. Chain'
  BY <1>1, <1>2, <1>4 DEF IInv, Chain
<1>8. Cursor'
  BY <1>1, <1>2 DEF Cursor
<1> QED BY <1>5, <1>6, <1>7, <1>8 DEF IInv

\* allocate() from a new block: the chain of headers grows at its end.
LEMMA AllocateNewBlockInv == IInv /\ Alive /\ AllocateNewBlock => IInv' /\ HandsOutFresh
<1> SUFFICES ASSUME IInv, Alive, AllocateNewBlock PROVE IInv' /\ HandsOutFresh
  OBVIOUS
<1> DEFINE b == blocks + 1
<1>1. /\ SlotSize \in Nat \ {0} /\ BlockSize \in Nat /\ BlockSize >= 2 * SlotSize /\ MaxBlocks \in Nat
      /\ currentBlock \in 0..MaxBlocks /\ blocks \in 0..MaxBlocks
  BY SizesAssumption DEF IInv, TypeOK
<1>2. /\ freeSlot = <<>> /\ blocks < MaxBlocks /\ blocks' = b
      /\ currentBlock # Null => next[currentBlock] = Null
      /\ HandOut(Slot(b, SlotSize))
      /\ currentBlock' = b /\ currentSlot' = SlotSize + SlotSize
      /\ lastSlot' = (BlockSize - SlotSize) + 1
      /\ UNCHANGED <<freeSlot, gcQueue, deleted>>
  BY <1>1 DEF AllocateNewBlock, InitializeBlock
<1>3. /\ prev' = [prev EXCEPT ![b] = currentBlock]
      /\ next' = [c \in Blocks |-> IF c = b THEN Null ELSE IF c = currentBlock THEN b ELSE next[c]]
      /\ firstBlock' = IF firstBlock = Null THEN b ELSE firstBlock
  BY DEF AllocateNewBlock
<1>4. b \in Blocks /\ b \in Nat \ {0} /\ b > currentBlock /\ currentBlock = blocks
  BY <1>1, <1>2 DEF IInv, Chain, Blocks, Null
<1>5. /\ HandsOutFresh
      /\ live' \subseteq Slots /\ active' \in Int
      /\ Carving' /\ Apart' /\ Lists' /\ Counting'
  <2>1. SlotSize <= SlotSize /\ SlotSize + SlotSize <= BlockSize /\ b >= currentBlock /\ b # currentBlock
    BY <1>1, <1>4
  <2> HIDE DEF b
  <2> QED BY <1>1, <1>2, <1>4, <2>1, FreshSlot
<1>6. TypeOK'
  BY <1>1, <1>2, <1>3, <1>4, <1>5 DEF IInv, TypeOK, Blocks, Null
<1>7. Chain'
  <2>1. blocks' # 0 /\ currentBlock' \in 1..blocks' /\ firstBlock' = 1
    BY <1>1, <1>2, <1>3, <1>4 DEF IInv, Chain, Null
  <2>2. ASSUME NEW c \in Blocks
        PROVE  /\ next'[c] = IF c < b THEN c + 1 ELSE Null
               /\ prev'[c] = IF c <= b THEN c - 1 ELSE Null
    BY <1>1, <1>3, <1>4 DEF IInv, Chain, TypeOK, Blocks, Null
  <2> QED BY <1>2, <2>1, <2>2 DEF Chain
<1>8. Cursor'
  BY <1>1, <1>2, <1>4 DEF Cursor, Null
<1> QED BY <1>5, <1>6, <1>7, <1>8 DEF IInv

\* The slots clients hold only become fewer (what Allocator asks of a release).
OnlyReleases == live' \subseteq live /\ Counting'

\* destruct(): a held slot moves to the free list.
LEMMA DestructInv ==
    ASSUME IInv, NEW p \in live, Destruct(p)
    PROVE  IInv' /\ OnlyReleases
<1>1. /\ Alive /\ p \notin Range(gcQueue) /\ live' = live \ {p} /\ active' = active - 1
      /\ freeSlot' = <<p>> \o freeSlot
      /\ UNCHANGED <<blocks, next, prev, firstBlock, currentBlock, currentSlot, lastSlot, gcQueue, deleted>>
  BY DEF Destruct, Held, headers, bump
<1>2. /\ p \in Slots /\ freeSlot \in Seq(Slots) /\ IsInjective(freeSlot)
      /\ Range(freeSlot) \cap live = {}
  BY DEF IInv, TypeOK, Lists
<1>3. <<p>> \in Seq(Slots) /\ Range(<<p>>) = {p} /\ IsInjective(<<p>>)
  BY <1>2, SingletonList
<1>4. /\ freeSlot' \in Seq(Slots) /\ Range(freeSlot') = {p} \cup Range(freeSlot)
      /\ {p} \cap Range(freeSlot) = {} => IsInjective(freeSlot')
  <2>1. /\ <<p>> \o freeSlot \in Seq(Slots)
        /\ Range(<<p>> \o freeSlot) = Range(<<p>>) \cup Range(freeSlot)
        /\ IsInjective(<<p>>) /\ IsInjective(freeSlot) /\ Range(<<p>>) \cap Range(freeSlot) = {}
           => IsInjective(<<p>> \o freeSlot)
    BY <1>2, <1>3, ConcatOfInjective
  <2> QED BY <1>1, <1>2, <1>3, <2>1
<1>5. Owned' = Owned
  BY <1>1, <1>4 DEF Owned
<1>6. TypeOK'
  BY <1>1, <1>4 DEF IInv, TypeOK
<1>7. Chain' /\ Cursor'
  BY <1>1 DEF IInv, Chain, Cursor
<1>8. Carving' /\ Apart'
  BY <1>1, <1>5 DEF IInv, Carving, Apart
<1>9. Lists'
  BY <1>1, <1>2, <1>4 DEF IInv, Lists, Alive
<1>10. Counting'
  <2>1. IsFiniteSet(live \ {p}) /\ Cardinality(live \ {p}) = Cardinality(live) - 1
    BY FS_RemoveElement DEF IInv, Counting
  <2> QED BY <1>1, <2>1 DEF IInv, Counting, Alive
<1> QED BY <1>1, <1>6, <1>7, <1>8, <1>9, <1>10 DEF IInv, OnlyReleases

\* gcFlush() moves the queue to the free list.
LEMMA FlushMoves ==
    ASSUME IInv, Alive, Flush
    PROVE  /\ live' \subseteq live /\ active' \in Int
           /\ freeSlot' \in Seq(Slots) /\ IsInjective(freeSlot') /\ Range(freeSlot') \cap live' = {}
           /\ Owned' = Owned
           /\ IsFiniteSet(live') /\ active' = Cardinality(live')
<1>1. /\ gcQueue \in Seq(Slots) /\ freeSlot \in Seq(Slots) /\ IsInjective(gcQueue) /\ IsInjective(freeSlot)
      /\ Range(gcQueue) \subseteq live /\ Range(freeSlot) \cap live = {}
      /\ IsFiniteSet(live) /\ active = Cardinality(live) /\ active \in Int
  BY DEF IInv, TypeOK, Lists, Counting
<1>2. /\ Reverse(gcQueue) \in Seq(Slots) /\ Range(Reverse(gcQueue)) = Range(gcQueue)
      /\ IsInjective(Reverse(gcQueue))
  BY <1>1, ReverseOfInjective
<1>3. /\ Reverse(gcQueue) \o freeSlot \in Seq(Slots)
      /\ Range(Reverse(gcQueue) \o freeSlot) = Range(gcQueue) \cup Range(freeSlot)
      /\ IsInjective(Reverse(gcQueue) \o freeSlot)
  <2>1. Range(Reverse(gcQueue)) \cap Range(freeSlot) = {}
    BY <1>1, <1>2
  <2> QED BY <1>1, <1>2, <2>1, ConcatOfInjective
<1>4. /\ live' = live \ Range(gcQueue) /\ active' = active - Len(gcQueue)
      /\ freeSlot' = Reverse(gcQueue) \o freeSlot
  BY DEF Flush
<1>5. IsFiniteSet(Range(gcQueue)) /\ Cardinality(Range(gcQueue)) = Len(gcQueue)
  BY <1>1, CardinalityOfList
<1>6. /\ IsFiniteSet(live \ Range(gcQueue))
      /\ Cardinality(live \ Range(gcQueue)) = Cardinality(live) - Cardinality(live \cap Range(gcQueue))
  BY <1>1, FS_Difference
<1>7. live \cap Range(gcQueue) = Range(gcQueue) /\ Len(gcQueue) \in Nat
  BY <1>1
<1>8. IsFiniteSet(live') /\ active' = Cardinality(live') /\ active' \in Int
  <2>1. Cardinality(live \cap Range(gcQueue)) = Len(gcQueue)
    BY <1>5, <1>7
  <2>2. Cardinality(live') = active - Len(gcQueue)
    BY <1>1, <1>4, <1>6, <2>1
  <2> QED BY <1>1, <1>4, <1>6, <1>7, <2>2
<1>9. Owned' = Owned
  BY <1>1, <1>3, <1>4 DEF Owned
<1> QED BY <1>1, <1>3, <1>4, <1>8, <1>9

\* gcFlush(): every queued slot moves to the free list.
LEMMA GcFlushInv == IInv /\ GcFlush => IInv' /\ OnlyReleases
<1> SUFFICES ASSUME IInv, GcFlush PROVE IInv' /\ OnlyReleases
  OBVIOUS
<1>1. /\ Alive /\ Flush /\ gcQueue' = <<>>
      /\ UNCHANGED <<blocks, next, prev, firstBlock, currentBlock, currentSlot, lastSlot, deleted>>
  BY DEF GcFlush, headers, bump
<1>2. /\ live' \subseteq live /\ active' \in Int
      /\ freeSlot' \in Seq(Slots) /\ IsInjective(freeSlot') /\ Range(freeSlot') \cap live' = {}
      /\ Owned' = Owned
      /\ IsFiniteSet(live') /\ active' = Cardinality(live')
  BY <1>1, FlushMoves
<1>3. TypeOK'
  BY <1>1, <1>2 DEF IInv, TypeOK
<1>4. Chain' /\ Cursor'
  BY <1>1 DEF IInv, Chain, Cursor
<1>5. Carving' /\ Apart'
  BY <1>1, <1>2 DEF IInv, Carving, Apart
<1>6. IsInjective(gcQueue') /\ Range(gcQueue') = {} /\ Len(gcQueue') = 0
  BY <1>1 DEF IsInjective, Range
<1>7. Lists'
  BY <1>2, <1>6, SizesAssumption DEF Lists
<1>8. Counting'
  BY <1>1, <1>2 DEF Counting, Alive
<1> QED BY <1>2, <1>3, <1>4, <1>5, <1>7, <1>8 DEF IInv, OnlyReleases

\* gc(): the queue grows by a held slot, after a flush if it was full.
LEMMA GcInv ==
    ASSUME IInv, NEW p \in live, Gc(p)
    PROVE  IInv' /\ OnlyReleases
<1>1. /\ Alive /\ p \notin Range(gcQueue)
      /\ UNCHANGED <<blocks, next, prev, firstBlock, currentBlock, currentSlot, lastSlot, deleted>>
  BY DEF Gc, Held, headers, bump
<1>2. p \in Slots /\ gcQueue \in Seq(Slots) /\ IsInjective(gcQueue) /\ Len(gcQueue) \in Nat
  BY DEF IInv, TypeOK, Lists
<1>3. Chain' /\ Cursor'
  BY <1>1 DEF IInv, Chain, Cursor
<1>4. CASE Len(gcQueue) >= GCQueueSize
  <2>1. Flush /\ gcQueue' = <<p>>
    BY <1>2, <1>4, SizesAssumption DEF Gc
  <2>2. /\ live' \subseteq live /\ active' \in Int
        /\ freeSlot' \in Seq(Slots) /\ IsInjective(freeSlot') /\ Range(freeSlot') \cap live' = {}
        /\ Owned' = Owned
        /\ IsFiniteSet(live') /\ active' = Cardinality(live')
    BY <1>1, <2>1, FlushMoves
  <2>3. gcQueue' \in Seq(Slots) /\ Len(gcQueue') = 1 /\ Range(gcQueue') = {p} /\ IsInjective(gcQueue')
    BY <1>2, <2>1, SingletonList
  <2>4. p \in live'
    BY <1>1, <2>1 DEF Flush
  <2>5. TypeOK'
    BY <1>1, <2>2, <2>3 DEF IInv, TypeOK
  <2>6. Carving' /\ Apart'
    BY <1>1, <2>2 DEF IInv, Carving, Apart
  <2>7. Lists'
    BY <2>2, <2>3, <2>4, SizesAssumption DEF Lists
  <2>8. Counting'
    BY <1>1, <2>2 DEF Counting, Alive
  <2> QED BY <1>3, <2>2, <2>5, <2>6, <2>7, <2>8 DEF IInv, OnlyReleases
<1>5. CASE Len(gcQueue) < GCQueueSize
  <2>1. gcQueue' = Append(gcQueue, p) /\ UNCHANGED <<active, freeSlot, live>>
    BY <1>2, <1>5, SizesAssumption DEF Gc
  <2>2. /\ gcQueue' \in Seq(Slots) /\ Len(gcQueue') = Len(gcQueue) + 1
        /\ Range(gcQueue') = Range(gcQueue) \cup {p} /\ IsInjective(gcQueue')
    BY <1>1, <1>2, <2>1, AppendOfInjective
  <2>3. TypeOK'
    BY <1>1, <2>1, <2>2 DEF IInv, TypeOK
  <2>4. Owned' = Owned
    BY <2>1 DEF Owned
  <2>5. Carving' /\ Apart'
    BY <1>1, <2>1, <2>4 DEF IInv, Carving, Apart
  <2>6. Lists'
    <3>1. Len(gcQueue') <= GCQueueSize
      BY <1>2, <1>5, <2>2, SizesAssumption
    <3> QED BY <1>1, <2>1, <2>2, <3>1 DEF IInv, Lists, Alive
  <2>7. Counting'
    BY <1>1, <2>1 DEF IInv, Counting, Alive
  <2> QED BY <1>3, <2>1, <2>3, <2>5, <2>6, <2>7 DEF IInv, OnlyReleases
<1> QED BY <1>2, <1>4, <1>5, SizesAssumption

\* clear(): the pool starts over in its first block with nothing held or free.
LEMMA ClearInv == IInv /\ Clear => IInv' /\ OnlyReleases
<1> SUFFICES ASSUME IInv, Clear PROVE IInv' /\ OnlyReleases
  OBVIOUS
<1>1. /\ Alive /\ active' = 0 /\ freeSlot' = <<>> /\ gcQueue' = <<>> /\ live' = {}
      /\ UNCHANGED <<blocks, next, prev, firstBlock, deleted>>
  BY DEF Clear, headers
<1>2. /\ SlotSize \in Nat \ {0} /\ BlockSize \in Nat /\ BlockSize >= 2 * SlotSize /\ MaxBlocks \in Nat
      /\ blocks \in 0..MaxBlocks
  BY SizesAssumption DEF IInv, TypeOK
<1>3. Range(freeSlot') = {} /\ Range(gcQueue') = {} /\ IsInjective(freeSlot') /\ IsInjective(gcQueue')
  BY <1>1 DEF Range, IsInjective
<1>4. Carving' /\ Apart' /\ Lists'
  BY <1>1, <1>3, SizesAssumption DEF Carving, Apart, Lists, Owned
<1>5. Counting'
  BY <1>1, FS_EmptySet DEF Counting, Alive
<1>6. CASE firstBlock # Null
  <2>1. /\ currentBlock' = firstBlock /\ currentSlot' = SlotSize /\ lastSlot' = (BlockSize - SlotSize) + 1
    BY <1>2, <1>6 DEF Clear, InitializeBlock
  <2>2. firstBlock = 1 /\ blocks # 0
    BY <1>6 DEF IInv, Chain
  <2>3. TypeOK'
    BY <1>1, <1>2, <2>1, <2>2 DEF IInv, TypeOK
  <2>4. Chain'
    BY <1>1, <1>2, <2>1, <2>2 DEF IInv, Chain
  <2>5. Cursor'
    BY <1>2, <2>1, <2>2 DEF Cursor, Null
  <2> QED BY <1>1, <1>4, <1>5, <2>3, <2>4, <2>5 DEF IInv, OnlyReleases
<1>7. CASE firstBlock = Null
  <2>1. UNCHANGED <<currentBlock, currentSlot, lastSlot>>
    BY <1>7 DEF Clear, bump
  <2>2. TypeOK' /\ Chain' /\ Cursor'
    BY <1>1, <2>1 DEF IInv, TypeOK, Chain, Cursor
  <2> QED BY <1>1, <1>4, <1>5, <2>2 DEF IInv, OnlyReleases
<1> QED BY <1>6, <1>7

\* ~PoolSingle(): nothing is held afterwards.
LEMMA DestructorInv == IInv /\ Destructor => IInv' /\ ~Alive' /\ live' = {}
<1> SUFFICES ASSUME IInv, Destructor PROVE IInv' /\ ~Alive' /\ live' = {}
  OBVIOUS
<1>1. /\ Alive /\ currentBlock # Null /\ deleted' = BackFrom(currentBlock) /\ live' = {}
      /\ UNCHANGED <<active, blocks, next, prev, firstBlock, currentBlock, currentSlot, lastSlot,
                     freeSlot, gcQueue>>
  BY DEF Destructor, headers, bump
<1>2. currentBlock \in Blocks
  BY <1>1, SizesAssumption DEF IInv, TypeOK, Blocks, Null
<1>3. currentBlock \in BackFrom(currentBlock) /\ BackFrom(currentBlock) \subseteq Blocks
  BY <1>2 DEF BackFrom
<1>4. ~Alive'
  BY <1>1, <1>3 DEF Alive
<1>5. Owned' \subseteq Owned
  BY <1>1 DEF Owned
<1>6. TypeOK'
  BY <1>1, <1>3 DEF IInv, TypeOK
<1>7. Chain' /\ Cursor'
  BY <1>1 DEF IInv, Chain, Cursor
<1>8. Carving' /\ Apart'
  BY <1>1, <1>5 DEF IInv, Carving, Apart
<1>9. Lists' /\ Counting'
  BY <1>1, <1>4, FS_EmptySet DEF IInv, Lists, Counting
<1> QED BY <1>1, <1>4, <1>6, <1>7, <1>8, <1>9 DEF IInv

\* Every step keeps the invariant.
LEMMA NextInv == IInv /\ [Next]_vars => IInv'
<1> SUFFICES ASSUME IInv, [Next]_vars PROVE IInv'
  OBVIOUS
<1>1. CASE Construct
  BY <1>1, AllocateFreeInv, AllocateBumpInv, AllocateReusedBlockInv, AllocateNewBlockInv DEF Construct
<1>2. ASSUME NEW p \in live, Destruct(p) PROVE IInv'
  BY <1>2, DestructInv
<1>3. ASSUME NEW p \in live, Gc(p) PROVE IInv'
  BY <1>3, GcInv
<1>4. CASE GcFlush
  BY <1>4, GcFlushInv
<1>5. CASE Clear
  BY <1>5, ClearInv
<1>6. CASE Destructor
  BY <1>6, DestructorInv
<1>7. CASE UNCHANGED vars
  <2>1. /\ UNCHANGED <<active, blocks, next, prev, firstBlock, currentBlock, currentSlot, lastSlot>>
        /\ UNCHANGED <<freeSlot, gcQueue, live, deleted>>
    BY <1>7 DEF vars, headers, bump
  <2>2. TypeOK' /\ Chain' /\ Cursor'
    BY <2>1 DEF IInv, TypeOK, Chain, Cursor
  <2>3. Carving' /\ Apart' /\ Lists' /\ Counting'
    BY <2>1 DEF IInv, Carving, Apart, Owned, Lists, Counting, Alive
  <2> QED BY <2>2, <2>3 DEF IInv
<1> QED BY <1>1, <1>2, <1>3, <1>4, <1>5, <1>6, <1>7 DEF Next

\* The inductive invariant holds in every reachable state of the pool.
THEOREM Invariance == Spec => []IInv
BY InitInv, NextInv, PTL DEF Spec

(***************************************************************************)
(* What the pool guarantees.                                               *)
(***************************************************************************)

\* Every field of PoolSingle keeps its type: block numbers, offsets, the slots
\* on the free list and in the queue are ones the pool carved.
THEOREM TypeCorrect == Spec => []TypeOK
<1>1. IInv => TypeOK
  BY DEF IInv
<1> QED BY <1>1, Invariance, PTL

\* Whatever sequence of construct(), destruct(), gc(), gcFlush() and clear() is
\* called: held slots lie inside a block behind its header, no two overlap,
\* none is handed out twice and `active` is their number.
THEOREM SlotsNeverAlias == Spec => []NoAliasing
<1>1. IInv => NoAliasing
  <2> SUFFICES ASSUME IInv PROVE NoAliasing
    OBVIOUS
  <2>1. SlotSize \in Nat \ {0} /\ BlockSize \in Nat /\ MaxBlocks \in Nat
    BY SizesAssumption
  <2>2. ASSUME NEW p \in live PROVE p \in A!Regions /\ A!Fits(p)
    <3>1. p \in Slots /\ p \in Owned
      BY DEF IInv, TypeOK, Owned
    <3>2. /\ p.block \in Blocks /\ p.off \in 0..BlockSize /\ p.size = SlotSize
          /\ p = Slot(p.block, p.off)
      BY <3>1, SlotShape
    <3>3. SlotSize <= p.off /\ p.off + SlotSize <= BlockSize
      BY <3>1 DEF IInv, Carving
    <3>4. p \in A!Regions
      BY <2>1, <3>2 DEF A!Regions, Slot, Blocks
    <3> QED BY <3>2, <3>3, <3>4 DEF A!Fits
  <2>3. \A p, q \in live : p # q => A!Disjoint(p, q)
    BY DEF IInv, Apart, Owned
  <2>4. (IF Alive THEN active ELSE 0) = Cardinality(live)
    <3>1. CASE Alive
      BY <3>1 DEF IInv, Counting
    <3>2. CASE ~Alive
      BY <3>2, FS_EmptySet DEF IInv, Counting
    <3> QED BY <3>1, <3>2
  <2>5. A!Cardinality(live) = Cardinality(live)
    BY DEF A!Cardinality, Cardinality
  <2> QED BY <2>2, <2>3, <2>4, <2>5 DEF NoAliasing, A!Safe, A!Inside, A!Separate
<1> QED BY <1>1, Invariance, PTL

\* deallocate() never puts a slot on the free list that is already there or
\* that a client still holds, whichever of destruct(), gc() and gcFlush() called it.
THEOREM FreeListIsSound == Spec => []FreeListSound
<1>1. IInv => FreeListSound
  <2> SUFFICES ASSUME IInv PROVE FreeListSound
    OBVIOUS
  <2>1. freeSlot \in Seq(Slots) /\ IsInjective(freeSlot) /\ Range(freeSlot) \cap live = {}
    BY DEF IInv, TypeOK, Lists
  <2>2. DOMAIN freeSlot = 1..Len(freeSlot)
    BY <2>1
  <2>3. \A i, j \in 1..Len(freeSlot) : freeSlot[i] = freeSlot[j] => i = j
    BY <2>1, InjectiveOf
  <2> QED BY <2>1, <2>2, <2>3 DEF FreeListSound
<1> QED BY <1>1, Invariance, PTL

\* gc() writes gcQueue[gcQueued++] inside the array and queues no slot twice.
THEOREM QueueStaysInBounds == Spec => []QueueInBounds
<1>1. IInv => QueueInBounds
  BY DEF IInv, Lists, QueueInBounds
<1> QED BY <1>1, Invariance, PTL

\* Every step of the pool is a step of the abstract allocator.
LEMMA StepRefines == IInv /\ [Next]_vars => [A!Next]_<<live, IF Alive THEN active ELSE 0>>
<1> SUFFICES ASSUME IInv, [Next]_vars
             PROVE  [A!Next]_<<live, IF Alive THEN active ELSE 0>>
  OBVIOUS
<1>1. ASSUME Alive, Alive', HandsOutFresh PROVE A!Allocate
  <2>1. PICK p \in Slots : /\ SlotSize <= p.off /\ p.off + SlotSize <= BlockSize
                           /\ p \notin live /\ \A q \in live : A!Disjoint(p, q)
                           /\ HandOut(p)
    BY <1>1 DEF HandsOutFresh
  <2>2. SlotSize \in Nat \ {0} /\ BlockSize \in Nat /\ MaxBlocks \in Nat
    BY SizesAssumption
  <2>3. p.block \in Blocks /\ p.off \in 0..BlockSize /\ p.size = SlotSize /\ p = Slot(p.block, p.off)
    BY SlotShape
  <2>4. p \in A!Regions /\ A!Fits(p)
    BY <2>1, <2>2, <2>3 DEF A!Regions, A!Fits, Slot, Blocks
  <2>5. p \in live' /\ live' = live \cup {p} /\ active' = active + 1
    BY <2>1 DEF HandOut
  <2>6. (IF Alive' THEN active' ELSE 0) = (IF Alive THEN active ELSE 0) + 1
    BY <1>1, <2>5
  <2> QED BY <2>1, <2>4, <2>5, <2>6 DEF A!Allocate
<1>2. ASSUME live' \subseteq live, Counting' PROVE A!Release
  <2>1. (IF Alive' THEN active' ELSE 0) = Cardinality(live')
    <3>1. CASE Alive'
      BY <1>2, <3>1 DEF Counting
    <3>2. CASE ~Alive'
      BY <1>2, <3>2, FS_EmptySet DEF Counting
    <3> QED BY <3>1, <3>2
  <2>2. A!Cardinality(live') = Cardinality(live')
    BY DEF A!Cardinality, Cardinality
  <2> QED BY <1>2, <2>1, <2>2 DEF A!Release
<1>3. CASE Construct
  <2>1. Alive /\ HandsOutFresh
    BY <1>3, AllocateFreeInv, AllocateBumpInv, AllocateReusedBlockInv, AllocateNewBlockInv DEF Construct
  <2>2. Alive'
    BY <1>3 DEF Construct, AllocateFree, AllocateBump, AllocateReusedBlock, AllocateNewBlock, Alive
  <2> QED BY <1>1, <2>1, <2>2 DEF A!Next
<1>4. ASSUME NEW p \in live, Destruct(p) PROVE A!Next
  BY <1>2, <1>4, DestructInv DEF OnlyReleases, A!Next
<1>5. ASSUME NEW p \in live, Gc(p) PROVE A!Next
  BY <1>2, <1>5, GcInv DEF OnlyReleases, A!Next
<1>6. CASE GcFlush
  BY <1>2, <1>6, GcFlushInv DEF OnlyReleases, A!Next
<1>7. CASE Clear
  BY <1>2, <1>7, ClearInv DEF OnlyReleases, A!Next
<1>8. CASE Destructor
  <2>1. live' = {} /\ Counting'
    BY <1>8, DestructorInv DEF IInv
  <2> QED BY <1>2, <2>1 DEF A!Next
<1>9. CASE UNCHANGED vars
  BY <1>9 DEF vars, Alive
<1> QED BY <1>3, <1>4, <1>5, <1>6, <1>7, <1>8, <1>9 DEF Next

\* The pool implements the allocator: whatever path allocate() takes (free
\* list, bump pointer, reused block, new block), its clients see a fresh region
\* inside a block, and regions leave their hands only by being released.
THEOREM RefinesAllocator == Spec => ImplementsAllocator
<1>1. Init => A!Init
  BY DEF Init, A!Init, Alive
<1> QED BY <1>1, StepRefines, Invariance, PTL DEF Spec, ImplementsAllocator, A!Spec
=============================================================================
