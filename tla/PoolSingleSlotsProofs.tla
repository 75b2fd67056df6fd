------------------------ MODULE PoolSingleSlotsProofs ------------------------
(***************************************************************************)
(* Proofs about where the slots of PoolSingle are: that none is lost, that *)
(* a block is requested only when every slot of every block is in use, and *)
(* that the destructor reaches every block in use.                         *)
(***************************************************************************)
EXTENDS PoolSingleProofs

(***************************************************************************)
(* The inductive invariant, on top of IInv: the slots lie on a grid, and   *)
(* exactly those below the bump pointer are held or free.                  *)
(***************************************************************************)

\* The places of the slots: multiples of SlotSize behind the header.
Grid == {Slot(b, SlotSize * k) : b \in Blocks, k \in 1..SlotsPerBlock}

\* currentSlot is on the grid or behind its last place.
OnGrid == currentBlock # Null => \E k \in 1..(SlotsPerBlock + 1) : currentSlot = SlotSize * k

\* The places up to offset o of block c, o excluded.
Below(c, o) == {p \in Grid : p.block <= c /\ (p.block = c => p.off + SlotSize <= o)}

\* What is held or free is what was carved, all of it.
Complete == Alive => Owned = Below(currentBlock, currentSlot)

\* The number of slots carved, as held and free ones.
Balance == Alive => Carved = active + Len(freeSlot)

SInv == IInv /\ OnGrid /\ Complete /\ Balance /\ DestructorReachesUsedBlocks

(***************************************************************************)
(* Arithmetic of slots and blocks.                                         *)
(***************************************************************************)

\* A slot behind k slots fits into the block exactly for the places of the grid.
LEMMA SlotArithmetic ==
    /\ SlotSize \in Nat \ {0} /\ BlockSize \in Nat /\ SlotsPerBlock \in Nat \ {0}
    /\ \A k \in Nat : SlotSize * k + SlotSize <= BlockSize <=> k <= SlotsPerBlock
<1>1. SlotSize \in Nat \ {0} /\ BlockSize \in Nat /\ SlotSize * 2 <= BlockSize
  BY SizesAssumption
<1>2. BlockSize \div SlotSize \in Nat /\ 2 <= BlockSize \div SlotSize
  BY <1>1, Quotient
<1>3. ASSUME NEW k \in Nat
      PROVE  SlotSize * k + SlotSize <= BlockSize <=> k <= SlotsPerBlock
  <2>1. SlotSize * k + SlotSize = SlotSize * (k + 1) /\ k + 1 \in Nat
    BY <1>1, Multiples
  <2>2. SlotSize * (k + 1) <= BlockSize <=> k + 1 <= BlockSize \div SlotSize
    BY <1>1, <2>1, Quotient
  <2> QED BY <1>2, <2>1, <2>2 DEF SlotsPerBlock
<1> QED BY <1>1, <1>2, <1>3 DEF SlotsPerBlock

\* The places of the grid by block and rank.
LEMMA GridPlaces ==
    /\ \A b \in Blocks, k \in 1..SlotsPerBlock : Slot(b, SlotSize * k) \in Grid
    /\ \A p \in Grid : \E b \in Blocks, k \in 1..SlotsPerBlock : p = Slot(b, SlotSize * k)
BY DEF Grid

\* Different ranks are different places.
LEMMA RanksDiffer ==
    ASSUME NEW b, NEW c, NEW j \in Nat, NEW k \in Nat
    PROVE  Slot(b, SlotSize * j) = Slot(c, SlotSize * k) <=> b = c /\ j = k
<1>1. SlotSize \in Nat \ {0}
  BY SlotArithmetic
<1>2. SlotSize * j <= SlotSize * k <=> j <= k
  BY <1>1, Multiples
<1>3. SlotSize * k <= SlotSize * j <=> k <= j
  BY <1>1, Multiples
<1>4. SlotSize * j \in Nat /\ SlotSize * k \in Nat
  BY <1>1, Multiples
<1>5. SlotSize * j = SlotSize * k <=> j = k
  BY <1>2, <1>3, <1>4
<1> QED BY <1>5, SlotFields

\* The places below rank k of block c.
LEMMA BelowRank ==
    ASSUME NEW b \in Blocks, NEW c \in Nat, NEW j \in 1..SlotsPerBlock, NEW k \in Nat
    PROVE  Slot(b, SlotSize * j) \in Below(c, SlotSize * k) <=> b < c \/ (b = c /\ j < k)
<1>1. SlotSize \in Nat \ {0} /\ j \in Nat /\ b \in Nat
  BY SlotArithmetic, SizesAssumption DEF Blocks
<1>2. SlotSize * j + SlotSize = SlotSize * (j + 1) /\ j + 1 \in Nat
  BY <1>1, Multiples
<1>3. SlotSize * (j + 1) <= SlotSize * k <=> j + 1 <= k
  BY <1>1, <1>2, Multiples
<1>4. Slot(b, SlotSize * j).block = b /\ Slot(b, SlotSize * j).off = SlotSize * j
  BY SlotFields
<1>5. Slot(b, SlotSize * j) \in Grid
  BY GridPlaces
<1> QED BY <1>1, <1>2, <1>3, <1>4, <1>5 DEF Below

\* One more place: the next one of the same block.
LEMMA BelowGrows ==
    ASSUME NEW c \in Blocks, NEW k \in 1..SlotsPerBlock
    PROVE  Below(c, SlotSize * (k + 1)) = Below(c, SlotSize * k) \cup {Slot(c, SlotSize * k)}
<1>1. c \in Nat /\ k \in Nat /\ k + 1 \in Nat
  BY SlotArithmetic, SizesAssumption DEF Blocks
<1>2. ASSUME NEW b \in Blocks, NEW j \in 1..SlotsPerBlock
      PROVE  LET p == Slot(b, SlotSize * j)
             IN  p \in Below(c, SlotSize * (k + 1)) <=>
                    p \in Below(c, SlotSize * k) \/ p = Slot(c, SlotSize * k)
  <2>1. b \in Nat /\ j \in Nat
    BY SlotArithmetic, SizesAssumption DEF Blocks
  <2>2. Slot(b, SlotSize * j) \in Below(c, SlotSize * (k + 1)) <=> b < c \/ (b = c /\ j < k + 1)
    BY <1>1, BelowRank
  <2>3. Slot(b, SlotSize * j) \in Below(c, SlotSize * k) <=> b < c \/ (b = c /\ j < k)
    BY <1>1, BelowRank
  <2>4. Slot(b, SlotSize * j) = Slot(c, SlotSize * k) <=> b = c /\ j = k
    BY <1>1, <2>1, RanksDiffer
  <2> QED BY <1>1, <2>1, <2>2, <2>3, <2>4
<1>3. /\ Below(c, SlotSize * (k + 1)) \subseteq Grid /\ Below(c, SlotSize * k) \subseteq Grid
      /\ Slot(c, SlotSize * k) \in Grid
  BY GridPlaces DEF Below
<1> QED BY <1>2, <1>3, GridPlaces

\* The places of a full block are those below the first place of the next one.
LEMMA BelowNextBlock ==
    ASSUME NEW c \in Nat, c + 1 \in Blocks
    PROVE  Below(c + 1, SlotSize * 1) = Below(c, SlotSize * (SlotsPerBlock + 1))
<1>1. SlotsPerBlock + 1 \in Nat /\ 1 \in Nat
  BY SlotArithmetic
<1>2. ASSUME NEW b \in Blocks, NEW j \in 1..SlotsPerBlock
      PROVE  LET p == Slot(b, SlotSize * j)
             IN  p \in Below(c + 1, SlotSize * 1) <=> p \in Below(c, SlotSize * (SlotsPerBlock + 1))
  <2>1. b \in Nat /\ j \in Nat /\ j >= 1 /\ j < SlotsPerBlock + 1
    BY SlotArithmetic, SizesAssumption DEF Blocks
  <2>2. Slot(b, SlotSize * j) \in Below(c + 1, SlotSize * 1) <=> b < c + 1 \/ (b = c + 1 /\ j < 1)
    BY <1>1, BelowRank
  <2>3. /\ Slot(b, SlotSize * j) \in Below(c, SlotSize * (SlotsPerBlock + 1))
           <=> b < c \/ (b = c /\ j < SlotsPerBlock + 1)
    BY <1>1, BelowRank
  <2> QED BY <1>1, <2>1, <2>2, <2>3
<1>3. Below(c + 1, SlotSize * 1) \subseteq Grid /\ Below(c, SlotSize * (SlotsPerBlock + 1)) \subseteq Grid
  BY DEF Below
<1> QED BY <1>2, <1>3, GridPlaces

\* Nothing lies below the first place of the first block, or without a block.
LEMMA BelowNothing == Below(1, SlotSize * 1) = {} /\ \A o : Below(0, o) = {}
<1>1. \A o : Below(0, o) = {}
  <2>1. ASSUME NEW o, NEW p \in Below(0, o) PROVE FALSE
    <3>1. PICK b \in Blocks, k \in 1..SlotsPerBlock : p = Slot(b, SlotSize * k)
      BY GridPlaces DEF Below
    <3>2. p.block = b /\ p.block <= 0 /\ b \in Nat \ {0}
      BY <3>1, SlotFields, SizesAssumption DEF Below, Blocks
    <3> QED BY <3>2
  <2> QED BY <2>1
<1>2. CASE 1 \in Blocks
  <2>1. 0 \in Nat /\ 0 + 1 = 1
    OBVIOUS
  <2>2. Below(1, SlotSize * 1) = Below(0, SlotSize * (SlotsPerBlock + 1))
    BY <1>2, <2>1, BelowNextBlock
  <2> QED BY <1>1, <2>2
<1>3. CASE 1 \notin Blocks
  <2>1. Grid = {}
    BY <1>3, SizesAssumption DEF Grid, Blocks
  <2> QED BY <1>1, <2>1 DEF Below
<1> QED BY <1>2, <1>3

\* The slots carved when currentSlot has rank k.
CarvedAt(c, k) == IF c = Null THEN 0 ELSE (c - 1) * SlotsPerBlock + k - 1

\* With currentSlot on the grid, Carved counts the slots of the blocks before the
\* current one and those below currentSlot.
LEMMA CarvedRank ==
    ASSUME NEW k \in Nat, currentSlot = SlotSize * k
    PROVE  Carved = CarvedAt(currentBlock, k)
<1>1. (SlotSize * k) \div SlotSize = k
  BY SlotArithmetic, Multiples
<1> QED BY <1>1 DEF Carved, CarvedAt

(***************************************************************************)
(* Every step keeps the invariant.                                         *)
(***************************************************************************)

\* A pool without blocks.
LEMMA InitSlots == Init => SInv
<1> SUFFICES ASSUME Init PROVE SInv
  OBVIOUS
<1>1. IInv
  BY InitInv
<1>2. OnGrid /\ Balance /\ DestructorReachesUsedBlocks
  BY DEF Init, OnGrid, Balance, Carved, DestructorReachesUsedBlocks, Alive
<1>3. Complete
  <2>1. Owned = {} /\ currentBlock = 0
    BY DEF Init, Owned, Range, Null
  <2>2. Below(0, currentSlot) = {}
    BY BelowNothing
  <2> QED BY <2>1, <2>2 DEF Complete
<1> QED BY <1>1, <1>2, <1>3 DEF SInv

\* A place carved by allocate(): the next one of the current block, or the
\* first one of the next block once the current one is full.
Carves(b, k) ==
    /\ Alive /\ Alive' /\ freeSlot = <<>> /\ freeSlot' = <<>>
    /\ HandOut(Slot(b, SlotSize * k))
    /\ currentBlock' = b /\ currentSlot' = SlotSize * (k + 1)
    /\ \/ b = currentBlock /\ currentSlot = SlotSize * k
       \/ /\ b = currentBlock + 1 /\ k = 1
          /\ currentBlock # Null => currentSlot = SlotSize * (SlotsPerBlock + 1)

\* What allocate() carves is all there is below the new bump pointer.
LEMMA CarvesSlots ==
    ASSUME SInv, NEW b \in Blocks, NEW k \in 1..SlotsPerBlock, Carves(b, k)
    PROVE  OnGrid' /\ Complete' /\ Balance'
<1>1. /\ SlotsPerBlock \in Nat \ {0} /\ k \in Nat /\ k + 1 \in 1..(SlotsPerBlock + 1) /\ b \in Nat \ {0}
      /\ currentBlock \in Nat /\ k + 1 \in Nat
  BY SlotArithmetic, SizesAssumption DEF SInv, IInv, TypeOK, Blocks
<1>2. OnGrid'
  BY <1>1 DEF OnGrid, Carves
<1>3. Range(freeSlot) = {} /\ Range(freeSlot') = {} /\ Len(freeSlot) = 0 /\ Len(freeSlot') = 0
  BY DEF Carves, Range
<1>4. Owned = Below(currentBlock, currentSlot) /\ Owned' = Owned \cup {Slot(b, SlotSize * k)}
  BY <1>3 DEF SInv, Complete, Carves, Owned, HandOut
<1>5. Below(b, SlotSize * (k + 1)) = Below(b, SlotSize * k) \cup {Slot(b, SlotSize * k)}
  BY BelowGrows
<1>6. Below(b, SlotSize * k) = Below(currentBlock, currentSlot)
  <2>1. CASE b = currentBlock /\ currentSlot = SlotSize * k
    BY <2>1
  <2>2. CASE /\ b = currentBlock + 1 /\ k = 1
             /\ currentBlock # Null => currentSlot = SlotSize * (SlotsPerBlock + 1)
    <3>1. CASE currentBlock # Null
      BY <1>1, <2>2, <3>1, BelowNextBlock
    <3>2. CASE currentBlock = Null
      BY <2>2, <3>2, BelowNothing DEF Null
    <3> QED BY <3>1, <3>2
  <2> QED BY <2>1, <2>2 DEF Carves
<1>7. Complete'
  BY <1>4, <1>5, <1>6 DEF Complete, Carves
<1>8. Carved' = CarvedAt(b, k + 1)
  <2>1. (SlotSize * (k + 1)) \div SlotSize = k + 1
    BY <1>1, SlotArithmetic, Multiples
  <2> QED BY <2>1 DEF Carved, CarvedAt, Carves
<1>9. CarvedAt(b, k + 1) = Carved + 1 /\ Carved \in Int
  <2>1. CASE b = currentBlock /\ currentSlot = SlotSize * k
    <3>1. Carved = CarvedAt(b, k)
      BY <1>1, <2>1, CarvedRank
    <3> QED BY <1>1, <3>1 DEF CarvedAt, Null
  <2>2. CASE /\ b = currentBlock + 1 /\ k = 1
             /\ currentBlock # Null => currentSlot = SlotSize * (SlotsPerBlock + 1)
    <3>1. CASE currentBlock # Null
      <4>1. Carved = CarvedAt(currentBlock, SlotsPerBlock + 1)
        BY <1>1, <2>2, <3>1, CarvedRank
      <4>2. Carved = (currentBlock - 1) * SlotsPerBlock + SlotsPerBlock
        BY <1>1, <3>1, <4>1 DEF CarvedAt
      <4>3. CarvedAt(b, k + 1) = currentBlock * SlotsPerBlock + 1
        BY <1>1, <2>2 DEF CarvedAt, Null
      <4> QED BY <1>1, <4>2, <4>3
    <3>2. CASE currentBlock = Null
      BY <1>1, <2>2, <3>2 DEF Carved, CarvedAt, Null
    <3> QED BY <3>1, <3>2
  <2> QED BY <2>1, <2>2 DEF Carves
<1>10. Balance'
  <2>1. active' = active + 1 /\ active \in Int /\ Carved = active + 0
    BY <1>3 DEF Carves, HandOut, SInv, IInv, TypeOK, Balance
  <2> QED BY <1>3, <1>8, <1>9, <2>1 DEF Balance
<1> QED BY <1>2, <1>7, <1>10

\* A full block is carved up to its last place.
LEMMA FullBlock ==
    ASSUME SInv, currentSlot >= lastSlot, currentBlock # Null
    PROVE  currentSlot = SlotSize * (SlotsPerBlock + 1)
<1>1. PICK k \in 1..(SlotsPerBlock + 1) : currentSlot = SlotSize * k
  BY DEF SInv, OnGrid
<1>2. /\ SlotsPerBlock \in Nat \ {0} /\ k \in Nat /\ SlotSize \in Nat \ {0} /\ BlockSize \in Nat
      /\ SlotSize * k \in Nat
  BY SlotArithmetic, Multiples
<1>3. ~(SlotSize * k + SlotSize <= BlockSize)
  BY <1>1, <1>2 DEF SInv, IInv, Cursor
<1>4. k = SlotsPerBlock + 1
  BY <1>2, <1>3, SlotArithmetic
<1> QED BY <1>1, <1>4

\* allocate(): the free list, or one more place.
LEMMA ConstructSlots == SInv /\ Construct => OnGrid' /\ Complete' /\ Balance' /\ Alive'
<1> SUFFICES ASSUME SInv, Construct PROVE OnGrid' /\ Complete' /\ Balance' /\ Alive'
  OBVIOUS
<1>1. /\ SlotSize \in Nat \ {0} /\ BlockSize \in Nat /\ SlotsPerBlock \in Nat \ {0} /\ MaxBlocks \in Nat
      /\ 1 \in 1..SlotsPerBlock /\ SlotSize * 1 = SlotSize /\ SlotSize + SlotSize = SlotSize * (1 + 1)
  BY SlotArithmetic, SizesAssumption
<1>2. Alive /\ deleted' = deleted /\ Alive'
  BY DEF Construct, AllocateFree, AllocateBump, AllocateReusedBlock, AllocateNewBlock, Alive
<1>3. /\ currentBlock \in 0..MaxBlocks /\ currentSlot \in Nat /\ lastSlot \in Nat /\ blocks \in 0..MaxBlocks
      /\ freeSlot \in Seq(Slots) /\ active \in Int
  BY DEF SInv, IInv, TypeOK
<1>4. CASE AllocateFree
  <2>1. /\ freeSlot # <<>> /\ freeSlot' = Tail(freeSlot) /\ HandOut(Head(freeSlot))
        /\ UNCHANGED <<currentBlock, currentSlot, lastSlot>>
    BY <1>4 DEF AllocateFree, bump
  <2>2. Len(freeSlot') = Len(freeSlot) - 1 /\ Len(freeSlot) \in Nat
    BY <1>3, <2>1
  <2>3. Range(freeSlot') = Range(freeSlot) \ {Head(freeSlot)} /\ Head(freeSlot) \in Range(freeSlot)
    BY <1>3, <2>1, TailOfInjective DEF SInv, IInv, Lists
  <2>4. Owned' = Owned
    BY <2>1, <2>3 DEF Owned, HandOut
  <2>5. Complete' /\ OnGrid'
    BY <1>2, <2>1, <2>4 DEF SInv, Complete, OnGrid
  <2>6. Balance'
    BY <1>2, <1>3, <2>1, <2>2 DEF SInv, Balance, Carved, HandOut
  <2> QED BY <1>2, <2>5, <2>6
<1>5. CASE AllocateBump
  <2>1. /\ freeSlot = <<>> /\ freeSlot' = <<>> /\ currentSlot < lastSlot
        /\ HandOut(Slot(currentBlock, currentSlot)) /\ currentSlot' = currentSlot + SlotSize
        /\ currentBlock' = currentBlock
    BY <1>5 DEF AllocateBump
  <2>2. currentBlock # Null /\ lastSlot = (BlockSize - SlotSize) + 1
    BY <1>3, <2>1 DEF SInv, IInv, Cursor
  <2>3. PICK k \in 1..(SlotsPerBlock + 1) : currentSlot = SlotSize * k
    BY <2>2 DEF SInv, OnGrid
  <2>4. SlotSize * k + SlotSize <= BlockSize /\ k \in Nat
    BY <1>1, <1>3, <2>1, <2>2, <2>3
  <2>5. k \in 1..SlotsPerBlock /\ SlotSize * k + SlotSize = SlotSize * (k + 1)
    BY <1>1, <2>4, SlotArithmetic, Multiples
  <2>6. currentBlock \in Blocks
    BY <1>1, <1>3, <2>2 DEF Blocks, Null
  <2>7. Carves(currentBlock, k)
    BY <1>2, <2>1, <2>3, <2>5 DEF Carves
  <2> QED BY <1>2, <2>5, <2>6, <2>7, CarvesSlots
<1>6. CASE AllocateReusedBlock
  <2> DEFINE b == next[currentBlock]
  <2>1. /\ freeSlot = <<>> /\ freeSlot' = <<>> /\ currentSlot >= lastSlot
        /\ currentBlock # Null /\ b # Null /\ HandOut(Slot(b, SlotSize))
        /\ currentBlock' = b /\ currentSlot' = SlotSize + SlotSize
    BY <1>6 DEF AllocateReusedBlock, InitializeBlock
  <2>2. b = currentBlock + 1 /\ b \in Blocks
    BY <1>1, <1>3, <2>1 DEF SInv, IInv, Chain, Blocks, Null
  <2> HIDE DEF b
  <2>3. currentSlot = SlotSize * (SlotsPerBlock + 1)
    BY <2>1, FullBlock
  <2>4. Carves(b, 1)
    BY <1>1, <1>2, <2>1, <2>2, <2>3 DEF Carves
  <2> QED BY <1>1, <1>2, <2>2, <2>4, CarvesSlots
<1>7. CASE AllocateNewBlock
  <2> DEFINE b == blocks + 1
  <2>1. /\ freeSlot = <<>> /\ freeSlot' = <<>> /\ currentSlot >= lastSlot
        /\ currentBlock # Null => next[currentBlock] = Null
        /\ blocks < MaxBlocks /\ HandOut(Slot(b, SlotSize))
        /\ currentBlock' = b /\ currentSlot' = SlotSize + SlotSize
    BY <1>7 DEF AllocateNewBlock, InitializeBlock
  <2>2. b = currentBlock + 1 /\ b \in Blocks
    BY <1>1, <1>3, <2>1 DEF SInv, IInv, Chain, Blocks, Null
  <2> HIDE DEF b
  <2>3. currentBlock # Null => currentSlot = SlotSize * (SlotsPerBlock + 1)
    BY <2>1, FullBlock
  <2>4. Carves(b, 1)
    BY <1>1, <1>2, <2>1, <2>2, <2>3 DEF Carves
  <2> QED BY <1>1, <1>2, <2>2, <2>4, CarvesSlots
<1> QED BY <1>4, <1>5, <1>6, <1>7 DEF Construct

\* A release moves slots from the held ones to the free ones and carves nothing.
LEMMA ReleaseSlots ==
    ASSUME SInv, Alive, Alive', Owned' = Owned, Carved \in Int,
           UNCHANGED <<currentBlock, currentSlot>>,
           active' + Len(freeSlot') = active + Len(freeSlot)
    PROVE  OnGrid' /\ Complete' /\ Balance'
<1>1. OnGrid' /\ Complete'
  BY DEF SInv, OnGrid, Complete
<1>2. Carved' = Carved
  BY DEF Carved
<1>3. Balance'
  BY <1>2 DEF SInv, Balance
<1> QED BY <1>1, <1>3

\* The number of carved slots is an integer.
LEMMA CarvedIsInt == SInv => Carved \in Int
<1> SUFFICES ASSUME SInv PROVE Carved \in Int
  OBVIOUS
<1>1. CASE currentBlock = Null
  BY <1>1 DEF Carved
<1>2. CASE currentBlock # Null
  <2>1. PICK k \in 1..(SlotsPerBlock + 1) : currentSlot = SlotSize * k
    BY <1>2 DEF SInv, OnGrid
  <2>2. k \in Nat /\ SlotsPerBlock \in Nat /\ currentBlock \in Nat
    BY SlotArithmetic, SizesAssumption DEF SInv, IInv, TypeOK
  <2>3. Carved = CarvedAt(currentBlock, k)
    BY <2>1, <2>2, CarvedRank
  <2> QED BY <1>2, <2>2, <2>3 DEF CarvedAt
<1> QED BY <1>1, <1>2

\* destruct(): from the clients to the free list.
LEMMA DestructSlots ==
    ASSUME SInv, NEW p \in live, Destruct(p)
    PROVE  OnGrid' /\ Complete' /\ Balance' /\ Alive'
<1>1. /\ Alive /\ Alive' /\ live' = live \ {p} /\ active' = active - 1 /\ freeSlot' = <<p>> \o freeSlot
      /\ UNCHANGED <<currentBlock, currentSlot>>
  BY DEF Destruct, bump, Alive
<1>2. p \in Slots /\ freeSlot \in Seq(Slots) /\ active \in Int
  BY DEF SInv, IInv, TypeOK
<1>3. Len(freeSlot) \in Nat
  BY <1>2
<1>4. Range(freeSlot') = {p} \cup Range(freeSlot) /\ Len(freeSlot') = Len(freeSlot) + 1
  BY <1>1, <1>2, PrependOfInjective
<1>5. active' + Len(freeSlot') = active + Len(freeSlot)
  BY <1>1, <1>2, <1>3, <1>4
<1>6. Owned' = Owned
  BY <1>1, <1>4 DEF Owned
<1> QED BY <1>1, <1>5, <1>6, ReleaseSlots, CarvedIsInt

\* gcFlush(): from the queue to the free list.
LEMMA FlushSlots ==
    ASSUME SInv, Alive, Alive', Flush, UNCHANGED <<currentBlock, currentSlot>>
    PROVE  OnGrid' /\ Complete' /\ Balance'
<1>1. /\ freeSlot \in Seq(Slots) /\ gcQueue \in Seq(Slots) /\ active \in Int /\ IInv
  BY DEF SInv, IInv, TypeOK
<1>2. Owned' = Owned
  BY <1>1, FlushMoves
<1>3. /\ Reverse(gcQueue) \in Seq(Slots) /\ Len(Reverse(gcQueue)) = Len(gcQueue) /\ Len(gcQueue) \in Nat
      /\ Len(freeSlot) \in Nat
  BY <1>1 DEF Reverse
<1>4. Len(freeSlot') = Len(gcQueue) + Len(freeSlot) /\ active' = active - Len(gcQueue)
  <2> DEFINE r == Reverse(gcQueue)
  <2>1. freeSlot' = r \o freeSlot /\ active' = active - Len(gcQueue) /\ r \in Seq(Slots) /\ Len(r) = Len(gcQueue)
    BY <1>3 DEF Flush
  <2> HIDE DEF r
  <2>2. Len(r \o freeSlot) = Len(r) + Len(freeSlot)
    BY <1>1, <2>1, ConcatElements
  <2> QED BY <2>1, <2>2
<1>5. active' + Len(freeSlot') = active + Len(freeSlot)
  BY <1>1, <1>3, <1>4
<1> QED BY <1>2, <1>5, ReleaseSlots, CarvedIsInt

\* gc(): with or without a flush.
LEMMA GcSlots ==
    ASSUME SInv, NEW p \in live, Gc(p)
    PROVE  OnGrid' /\ Complete' /\ Balance' /\ Alive'
<1>1. Alive /\ Alive' /\ UNCHANGED <<currentBlock, currentSlot>>
  BY DEF Gc, bump, Alive
<1>2. CASE Flush
  BY <1>1, <1>2, FlushSlots
<1>3. CASE UNCHANGED <<active, freeSlot, live>>
  <2>1. Owned' = Owned /\ active' + Len(freeSlot') = active + Len(freeSlot)
    BY <1>3 DEF Owned
  <2> QED BY <1>1, <2>1, ReleaseSlots, CarvedIsInt
<1> QED BY <1>1, <1>2, <1>3 DEF Gc

\* clear(): nothing is carved any more.
LEMMA ClearSlots == SInv /\ Clear => OnGrid' /\ Complete' /\ Balance' /\ Alive'
<1> SUFFICES ASSUME SInv, Clear PROVE OnGrid' /\ Complete' /\ Balance' /\ Alive'
  OBVIOUS
<1>1. Alive' /\ active' = 0 /\ freeSlot' = <<>> /\ live' = {}
  BY DEF Clear, Alive
<1>2. Owned' = {} /\ Len(freeSlot') = 0
  BY <1>1 DEF Owned, Range
<1>3. SlotSize \in Nat \ {0} /\ SlotsPerBlock \in Nat \ {0} /\ SlotSize * 1 = SlotSize
  BY SlotArithmetic
<1>4. CASE firstBlock # Null
  <2>1. currentBlock' = 1 /\ currentSlot' = SlotSize * 1
    BY <1>3, <1>4 DEF Clear, InitializeBlock, SInv, IInv, Chain
  <2>2. OnGrid'
    BY <1>3, <2>1 DEF OnGrid
  <2>3. Complete'
    BY <1>2, <2>1, BelowNothing DEF Complete
  <2>4. (SlotSize * 1) \div SlotSize = 1
    BY <1>3, Multiples
  <2>5. Balance'
    BY <1>1, <1>2, <1>3, <2>1, <2>4 DEF Balance, Carved, Null
  <2> QED BY <1>1, <2>2, <2>3, <2>5
<1>5. CASE firstBlock = Null
  <2>1. currentBlock' = Null /\ currentBlock' = 0
    BY <1>5 DEF Clear, bump, SInv, IInv, Chain, Null
  <2>2. Complete'
    BY <1>2, <2>1, BelowNothing DEF Complete
  <2> QED BY <1>1, <1>2, <2>1, <2>2 DEF OnGrid, Balance, Carved
<1> QED BY <1>4, <1>5

\* The walk of the destructor along the headers reaches every block down to
\* the first one: by induction on the distance from the current block.
LEMMA WalkReaches ==
    ASSUME IInv, NEW c \in 1..blocks
    PROVE  BackFrom(c) = 1..c
<1>1. blocks \in Nat /\ MaxBlocks \in Nat /\ blocks <= MaxBlocks /\ c \in Nat \ {0} /\ c <= blocks
  BY SizesAssumption DEF IInv, TypeOK
<1>2. \A d \in 1..c : d \in Blocks /\ prev[d] = d - 1
  BY <1>1 DEF IInv, Chain, Blocks
<1>3. BackFrom(c) \subseteq 1..c
  <2>1. 1..c \in SUBSET Blocks /\ c \in 1..c
    BY <1>1, <1>2
  <2>2. \A d \in 1..c : prev[d] # Null => prev[d] \in 1..c
    BY <1>1, <1>2 DEF Null
  <2> QED BY <2>1, <2>2 DEF BackFrom
<1>4. ASSUME NEW S \in SUBSET Blocks, c \in S, \A d \in S : prev[d] # Null => prev[d] \in S
      PROVE  1..c \subseteq S
  <2> DEFINE Steps == {n \in Nat : n < c => c - n \in S}
  <2>1. 0 \in Steps
    BY <1>1, <1>4
  <2>2. ASSUME NEW n \in Nat, n \in Steps PROVE n + 1 \in Steps
    <3> SUFFICES ASSUME n + 1 < c PROVE c - (n + 1) \in S
      OBVIOUS
    <3>1. c - n \in S /\ c - n \in 1..c /\ (c - n) - 1 # 0
      BY <1>1, <2>2
    <3>2. prev[c - n] = (c - n) - 1
      BY <1>2, <3>1
    <3>3. (c - n) - 1 \in S
      BY <1>4, <3>1, <3>2 DEF Null
    <3> QED BY <1>1, <3>3
  <2> HIDE DEF Steps
  <2>3. Nat \subseteq Steps
    BY <2>1, <2>2, InductionOnNat
  <2>4. ASSUME NEW d \in 1..c PROVE d \in S
    <3>1. c - d \in Nat /\ c - d < c /\ c - (c - d) = d
      BY <1>1
    <3>2. c - d \in Steps
      BY <2>3, <3>1
    <3> QED BY <3>1, <3>2 DEF Steps
  <2> QED BY <2>4
<1>5. 1..c \subseteq BackFrom(c)
  BY <1>2, <1>4 DEF BackFrom
<1> QED BY <1>3, <1>5

\* Every step keeps the invariant.
LEMMA NextSlots == SInv /\ [Next]_vars => SInv'
<1> SUFFICES ASSUME SInv, [Next]_vars PROVE SInv'
  OBVIOUS
<1>1. IInv /\ IInv'
  BY NextInv DEF SInv
<1>2. ASSUME OnGrid', Complete', Balance', Alive' PROVE SInv'
  BY <1>1, <1>2 DEF SInv, DestructorReachesUsedBlocks
<1>3. CASE Construct
  BY <1>2, <1>3, ConstructSlots
<1>4. ASSUME NEW p \in live, Destruct(p) PROVE SInv'
  BY <1>2, <1>4, DestructSlots
<1>5. ASSUME NEW p \in live, Gc(p) PROVE SInv'
  BY <1>2, <1>5, GcSlots
<1>6. CASE GcFlush
  <2>1. Alive /\ Alive' /\ Flush /\ UNCHANGED <<currentBlock, currentSlot>>
    BY <1>6 DEF GcFlush, bump, Alive
  <2> QED BY <1>2, <2>1, FlushSlots
<1>7. CASE Clear
  BY <1>2, <1>7, ClearSlots
<1>8. CASE Destructor
  <2>1. /\ currentBlock # Null /\ deleted' = BackFrom(currentBlock)
        /\ UNCHANGED <<currentBlock, currentSlot, blocks>> /\ ~Alive'
    BY <1>1, <1>8, DestructorInv DEF Destructor, headers, bump
  <2>2. currentBlock \in 1..blocks
    BY <1>1, <2>1 DEF IInv, Chain
  <2>3. deleted' = 1..currentBlock'
    BY <1>1, <2>1, <2>2, WalkReaches
  <2>4. OnGrid'
    BY <2>1 DEF SInv, OnGrid
  <2> QED BY <1>1, <2>1, <2>3, <2>4 DEF SInv, Complete, Balance, DestructorReachesUsedBlocks
<1>9. CASE UNCHANGED vars
  <2>1. UNCHANGED <<active, blocks, currentBlock, currentSlot, freeSlot, live, deleted>>
    BY <1>9 DEF vars, headers, bump
  <2>2. OnGrid' /\ Complete' /\ Balance' /\ DestructorReachesUsedBlocks'
    BY <2>1 DEF SInv, OnGrid, Complete, Owned, Balance, Carved, Alive, DestructorReachesUsedBlocks
  <2> QED BY <1>1, <2>2 DEF SInv
<1> QED BY <1>3, <1>4, <1>5, <1>6, <1>7, <1>8, <1>9 DEF Next

\* The invariant holds in every reachable state of the pool.
THEOREM SlotsInvariance == Spec => []SInv
BY InitSlots, NextSlots, PTL DEF Spec

(***************************************************************************)
(* What the pool guarantees.                                               *)
(***************************************************************************)

\* No sequence of construct(), destruct(), gc(), gcFlush() and clear() loses a
\* slot: whatever was carved since the last clear() is held or on the free list.
THEOREM NoSlotIsLost == Spec => []NoSlotLost
<1>1. SInv => NoSlotLost
  BY DEF SInv, IInv, Counting, Balance, NoSlotLost
<1> QED BY <1>1, SlotsInvariance, PTL

\* ~PoolSingle() gives back exactly the blocks up to the current one.
THEOREM DestructorIsComplete == Spec => []DestructorReachesUsedBlocks
<1>1. SInv => DestructorReachesUsedBlocks
  BY DEF SInv
<1> QED BY <1>1, SlotsInvariance, PTL

\* allocateBlock() calls operator new only when every slot of every block is
\* held: blocks from before a clear() and released slots are used up first.
THEOREM BlocksAreReused == Spec => BlocksReused
<1> DEFINE Places == {Slot(b, o) : b \in 1..blocks, o \in {SlotSize * k : k \in 1..SlotsPerBlock}}
<1>1. SInv /\ [Next]_vars => [blocks' # blocks => live = Places]_vars
  <2> SUFFICES ASSUME SInv, Next, blocks' # blocks PROVE live = Places
    OBVIOUS
  <2>1. Alive /\ AllocateNewBlock
    BY DEF Next, Construct, AllocateFree, AllocateBump, AllocateReusedBlock, Destruct, Gc, GcFlush, Clear,
           Destructor, headers
  <2>2. /\ freeSlot = <<>> /\ currentSlot >= lastSlot /\ blocks < MaxBlocks
        /\ currentBlock # Null => next[currentBlock] = Null
    BY <2>1 DEF AllocateNewBlock
  <2>3. blocks \in Nat /\ MaxBlocks \in Nat /\ currentBlock \in Nat /\ SlotsPerBlock \in Nat \ {0}
    BY SizesAssumption, SlotArithmetic DEF SInv, IInv, TypeOK
  <2>4. currentBlock = blocks
    BY <2>2, <2>3 DEF SInv, IInv, Chain, Blocks, Null
  <2>5. live = Below(currentBlock, currentSlot)
    <3>1. Range(freeSlot) = {}
      BY <2>2 DEF Range
    <3> QED BY <2>1, <3>1 DEF SInv, Complete, Owned
  <2>6. CASE blocks = 0
    <3>1. live = {}
      BY <2>4, <2>5, <2>6, BelowNothing
    <3>2. 1..blocks = {}
      BY <2>6
    <3> QED BY <3>1, <3>2
  <2>7. CASE blocks # 0
    <3>1. currentSlot = SlotSize * (SlotsPerBlock + 1) /\ SlotsPerBlock + 1 \in Nat
      BY <2>2, <2>3, <2>4, <2>7, FullBlock DEF Null
    <3>2. ASSUME NEW b \in Blocks, NEW j \in 1..SlotsPerBlock
          PROVE  Slot(b, SlotSize * j) \in live <=> b \in 1..blocks
      <4>1. Slot(b, SlotSize * j) \in live <=> b < blocks \/ (b = blocks /\ j < SlotsPerBlock + 1)
        BY <2>3, <2>4, <2>5, <3>1, BelowRank
      <4> QED BY <2>3, <4>1 DEF Blocks
    <3>3. \A b \in 1..blocks : b \in Blocks
      BY <2>2, <2>3 DEF Blocks
    <3>4. live \subseteq Grid
      BY <2>5 DEF Below
    <3>5. ASSUME NEW p \in live PROVE p \in Places
      <4>1. PICK b \in Blocks, j \in 1..SlotsPerBlock : p = Slot(b, SlotSize * j)
        BY <3>4, GridPlaces
      <4> QED BY <3>2, <4>1
    <3>6. ASSUME NEW p \in Places PROVE p \in live
      <4>1. PICK b \in 1..blocks, j \in 1..SlotsPerBlock : p = Slot(b, SlotSize * j)
        OBVIOUS
      <4> QED BY <3>2, <3>3, <4>1
    <3> QED BY <3>5, <3>6
  <2> QED BY <2>6, <2>7
<1> QED BY <1>1, SlotsInvariance, PTL DEF Spec, BlocksReused
=============================================================================
