--------------------------- MODULE PoolArrayProofs ---------------------------
(***************************************************************************)
(* Proofs about PoolArray for all sizes of blocks and queues, any number   *)
(* of classes and blocks: that free lists and queues are sound and that    *)
(* the pool implements the abstract Allocator, as far as the sizes asked   *)
(* for have a class that fits into the queue.                              *)
(***************************************************************************)
EXTENDS PoolArray, ListLemmas

\* The sizes for which poolIndex() finds a class that is large enough and not
\* larger than the queue.  The code checks neither: it clamps sizes above the
\* largest class, and a class above GCQueueSize has a queue of length 0.
Served == \A size \in Sizes : \E c \in Classes : size <= c /\ c <= GCQueueSize

(***************************************************************************)
(* The inductive invariant.  What it says of one class is stated of the    *)
(* struct Pool P of the class and the set L of the addresses its clients   *)
(* hold, so that the lemmas about the operations mention no other class.   *)
(***************************************************************************)
Addrs == Blocks \X Nat
Addr(p) == <<p.block, p.off>>
Spans == [block : Blocks, off : Nat, size : Sizes]

PoolType ==
    [currentBlock : 0..MaxBlocks, firstBlock : 0..MaxBlocks, currentSlot : Nat, lastSlot : Nat,
     freeSlot : Seq(Addrs), gcQueue : Seq(Addrs)]

Types == /\ blocks \in 0..MaxBlocks
         /\ headers \in [Blocks -> [prev : 0..MaxBlocks, next : 0..MaxBlocks]]
         /\ pools \in [Classes -> PoolType]
         /\ live \subseteq Spans

LiveOf(c) == {Addr(p) : p \in {q \in live : PoolIndex(q.size) = c}}

\* The slots a class has carved: held or free.
Carved(P, L) == L \cup Range(P.freeSlot)

\* A slot starts behind the header and ends inside the block, in the current
\* block below the next slot; no slot is carved from a block behind that one.
Place(c, P, a) ==
    /\ a[1] <= P.currentBlock /\ 2 <= a[2] /\ a[2] + c <= Items + 2
    /\ a[1] = P.currentBlock => a[2] + c <= P.currentSlot + 1

Away(c, a, e) == a[1] # e[1] \/ a[2] + c <= e[2] \/ e[2] + c <= a[2]

\* Two slots of a class do not overlap; free list and queue hold a slot once;
\* what is free is not held, what is queued still is.
ClassOK(c, P, L) ==
    /\ P.currentBlock # Null => P.currentSlot >= 1 /\ P.lastSlot = Items
    /\ \A a \in Carved(P, L) : Place(c, P, a)
    /\ \A a, e \in Carved(P, L) : a # e => Away(c, a, e)
    /\ IsInjective(P.freeSlot) /\ Range(P.freeSlot) \cap L = {}
    /\ IsInjective(P.gcQueue) /\ Len(P.gcQueue) <= QueueSizeOf(c) /\ Range(P.gcQueue) \subseteq L

\* Every block belongs to one class, which own gives; n blocks are in use.
OwnedBy(own, n, c, P, L) ==
    /\ P.currentBlock # Null => P.currentBlock <= n /\ own[P.currentBlock] = c
    /\ P.firstBlock # Null => P.firstBlock <= n /\ own[P.firstBlock] = c
    /\ \A a \in Carved(P, L) : a[1] <= n /\ own[a[1]] = c

\* The blocks of a class are linked in the order they were requested.
Linked(own, n, H) ==
    \A b \in Blocks : H[b].next # Null => b < H[b].next /\ H[b].next <= n /\ own[H[b].next] = own[b]

Ownership(own) == /\ \A c \in Classes : OwnedBy(own, blocks, c, pools[c], LiveOf(c))
                  /\ Linked(own, blocks, headers)
Owners == \E own \in [Blocks -> Classes] : Ownership(own)

ClassesOK == \A c \in Classes : ClassOK(c, pools[c], LiveOf(c))

\* An address is held once.
Distinct == \A p, q \in live : Addr(p) = Addr(q) => p = q

Counting == IsFiniteSet(live) /\ held = Cardinality(live)

PInv == Types /\ Owners /\ ClassesOK /\ Distinct /\ Counting

(***************************************************************************)
(* The class of a size.                                                    *)
(***************************************************************************)

\* poolIndex() returns a class that holds the span and fits into a block and
\* into the queue.
LEMMA ClassOfSize ==
    ASSUME Served, NEW size \in Sizes
    PROVE  /\ PoolIndex(size) \in Classes /\ PoolIndex(size) \in Nat \ {0}
           /\ size <= PoolIndex(size) /\ PoolIndex(size) <= GCQueueSize
<1> DEFINE T == {c \in Classes : size <= c}
<1>1. T \in SUBSET Nat
  <2>1. Classes \subseteq Nat \ {0}
    BY ArrayAssumption
  <2> QED BY <2>1, Zenon
<1>7. size \in Nat /\ GCQueueSize \in Nat
  BY ArrayAssumption
<1>2. PICK e \in T : e <= GCQueueSize
  BY DEF Served
<1>3. PICK c \in T : \A d \in T : c <= d
  BY <1>1, <1>2, LeastNatural
<1>4. /\ ClassAbove(size) \in Classes /\ size <= ClassAbove(size)
      /\ \A d \in Classes : size <= d => ClassAbove(size) <= d
  <2>1. c \in Classes /\ size <= c /\ \A d \in Classes : size <= d => c <= d
    BY <1>3
  <2> QED BY <2>1 DEF ClassAbove
<1>5. PoolIndex(size) = ClassAbove(size)
  BY <1>2 DEF PoolIndex
<1>6. ClassAbove(size) <= e /\ ClassAbove(size) \in Nat \ {0} /\ e \in Nat
  BY <1>2, <1>4, ArrayAssumption
<1> QED BY <1>2, <1>4, <1>5, <1>6, <1>7

\* The queue of such a class has room for a span.
LEMMA QueueRoom ==
    ASSUME NEW c \in Nat \ {0}, c <= GCQueueSize
    PROVE  QueueSizeOf(c) \in Nat /\ 1 <= QueueSizeOf(c)
<1>1. GCQueueSize \in Nat
  BY ArrayAssumption
<1>2. GCQueueSize \div c \in Nat /\ (c * 1 <= GCQueueSize <=> 1 <= GCQueueSize \div c)
  BY <1>1, Quotient
<1> QED BY <1>2 DEF QueueSizeOf

(***************************************************************************)
(* The operations on one pool.                                             *)
(***************************************************************************)

\* A slot is cut off at the cursor of the current block, or at the start of a later
\* one: s is where the cursor stood, Q the pool with the cursor behind the slot.
Carves(c, P, b, s, Q) ==
    /\ P.freeSlot = <<>> /\ 1 <= s /\ s + c <= Items + 1
    /\ \/ P.currentBlock < b
       \/ P.currentBlock = b /\ P.currentSlot <= s
    /\ Q.currentBlock = b /\ Q.currentSlot = s + c /\ Q.lastSlot = Items
    /\ Q.freeSlot = <<>> /\ Q.gcQueue = P.gcQueue

\* Such a slot overlaps nothing the class has carved (allocate() with an empty
\* free list).
LEMMA CarveOK ==
    ASSUME NEW c \in Nat \ {0}, NEW P \in PoolType, NEW L \in SUBSET Addrs, ClassOK(c, P, L),
           NEW b \in Blocks, NEW s \in Nat, NEW Q \in PoolType, Carves(c, P, b, s, Q)
    PROVE  /\ ClassOK(c, Q, L \cup {<<b, s + 1>>})
           /\ \A a \in L : a # <<b, s + 1>> /\ Away(c, a, <<b, s + 1>>)
<1> USE DEF Carves
<1> DEFINE n == <<b, s + 1>>
           M == L \cup {n}
<1>1. /\ Items \in Nat /\ b \in Nat /\ P.currentBlock \in Nat /\ P.currentSlot \in Nat /\ n \in Addrs
      /\ n[1] = b /\ n[2] = s + 1
  BY ArrayAssumption DEF Blocks, PoolType, Addrs
<1>2. Range(P.freeSlot) = {} /\ IsInjective(P.freeSlot) /\ Range(Q.freeSlot) = {} /\ IsInjective(Q.freeSlot)
  <2> DEFINE e == <<>>
  <2>1. e \in Seq(Addrs) /\ Len(e) = 0 /\ P.freeSlot = e /\ Q.freeSlot = e
    OBVIOUS
  <2> HIDE DEF e
  <2>3. Range(e) = {}
    BY DEF e, Range
  <2>4. IsInjective(e)
    BY <2>1 DEF ClassOK
  <2> QED BY <2>1, <2>3, <2>4
<1>3. Carved(P, L) = L /\ Carved(Q, M) = M
  BY <1>2 DEF Carved
<1>4. \A a \in L : a[1] \in Nat /\ a[2] \in Nat /\ a = <<a[1], a[2]>> /\ Place(c, P, a)
  BY <1>3 DEF ClassOK, Addrs, Blocks
<1>5. ASSUME NEW a \in L
      PROVE  Place(c, Q, a) /\ Away(c, a, n) /\ Away(c, n, a) /\ a # n
  <2>1. /\ a[1] \in Nat /\ a[2] \in Nat /\ a[1] <= P.currentBlock /\ 2 <= a[2] /\ a[2] + c <= Items + 2
        /\ a[1] = P.currentBlock => a[2] + c <= P.currentSlot + 1
    BY <1>4 DEF Place
  <2>2. a[1] < b \/ (a[1] = b /\ a[2] + c <= s + 1)
    BY <1>1, <2>1
  <2>3. Place(c, Q, a)
    BY <1>1, <2>1, <2>2 DEF Place
  <2>4. Away(c, a, n) /\ Away(c, n, a)
    BY <1>1, <2>1, <2>2 DEF Away
  <2>5. a # n
    BY <1>1, <2>1, <2>2
  <2> QED BY <2>3, <2>4, <2>5
<1>6. Place(c, Q, n)
  BY <1>1 DEF Place
<1> HIDE DEF n
<1>7. \A a \in M : Place(c, Q, a)
  BY <1>5, <1>6
<1>8. \A a, e \in M : a # e => Away(c, a, e)
  <2>1. \A a, e \in L : a # e => Away(c, a, e)
    BY <1>3 DEF ClassOK
  <2> QED BY <1>5, <2>1
<1>9. /\ Q.currentSlot >= 1 /\ IsInjective(Q.gcQueue)
      /\ Len(Q.gcQueue) <= QueueSizeOf(c) /\ Range(Q.gcQueue) \subseteq M
  BY DEF ClassOK
<1>10. ClassOK(c, Q, M)
  BY <1>2, <1>3, <1>7, <1>8, <1>9 DEF ClassOK
<1> QED BY <1>5, <1>10 DEF n

\* The head of the free list becomes a held slot (allocate() with a free slot).
LEMMA TakeFreeOK ==
    ASSUME NEW c \in Nat \ {0}, NEW P \in PoolType, NEW L \in SUBSET Addrs, ClassOK(c, P, L),
           P.freeSlot # <<>>
    PROVE  LET n == Head(P.freeSlot)
               Q == [P EXCEPT !.freeSlot = Tail(P.freeSlot)]
           IN  /\ Q \in PoolType /\ n \in Addrs /\ n \in Carved(P, L) /\ n \notin L
               /\ Carved(Q, L \cup {n}) = Carved(P, L)
               /\ ClassOK(c, Q, L \cup {n})
<1> DEFINE n == Head(P.freeSlot)
           t == Tail(P.freeSlot)
           Q == [P EXCEPT !.freeSlot = t]
<1>1. P.freeSlot \in Seq(Addrs) /\ IsInjective(P.freeSlot) /\ Range(P.freeSlot) \cap L = {}
  BY DEF PoolType, ClassOK
<1>2. /\ n \in Range(P.freeSlot) /\ t \in Seq(Addrs) /\ Range(t) = Range(P.freeSlot) \ {n}
      /\ IsInjective(t)
  BY <1>1, TailOfInjective
<1>3. n \in Addrs
  BY <1>1, <1>2, RangeOf
<1> HIDE DEF n, t
<1>4. /\ Q \in PoolType /\ Q.freeSlot = t /\ Q.gcQueue = P.gcQueue /\ Q.currentBlock = P.currentBlock
      /\ Q.currentSlot = P.currentSlot /\ Q.lastSlot = P.lastSlot
  BY <1>2 DEF PoolType
<1> HIDE DEF Q
<1>5. Carved(Q, L \cup {n}) = Carved(P, L) /\ n \in Carved(P, L) /\ n \notin L
  BY <1>1, <1>2, <1>4 DEF Carved
<1>6. Range(t) \cap (L \cup {n}) = {} /\ Range(Q.gcQueue) \subseteq L \cup {n}
  BY <1>1, <1>2, <1>4 DEF ClassOK
<1>7. \A a \in Carved(P, L) : Place(c, Q, a)
  BY <1>4 DEF ClassOK, Place
<1>8. ClassOK(c, Q, L \cup {n})
  BY <1>2, <1>4, <1>5, <1>6, <1>7 DEF ClassOK
<1> QED BY <1>3, <1>4, <1>5, <1>8 DEF n, t, Q

\* A held slot that is not queued goes to the head of the free list (destruct()).
LEMMA PutFreeOK ==
    ASSUME NEW c \in Nat \ {0}, NEW P \in PoolType, NEW L \in SUBSET Addrs, ClassOK(c, P, L),
           NEW a \in L, a \notin Range(P.gcQueue)
    PROVE  LET Q == [P EXCEPT !.freeSlot = <<a>> \o P.freeSlot]
           IN  /\ Q \in PoolType /\ Carved(Q, L \ {a}) = Carved(P, L)
               /\ ClassOK(c, Q, L \ {a})
<1> DEFINE t == <<a>> \o P.freeSlot
           Q == [P EXCEPT !.freeSlot = t]
<1>1. /\ P.freeSlot \in Seq(Addrs) /\ IsInjective(P.freeSlot) /\ Range(P.freeSlot) \cap L = {}
      /\ a \in Addrs /\ a \notin Range(P.freeSlot)
  BY DEF PoolType, ClassOK
<1>2. t \in Seq(Addrs) /\ Range(t) = {a} \cup Range(P.freeSlot) /\ IsInjective(t)
  BY <1>1, PrependOfInjective
<1> HIDE DEF t
<1>3. /\ Q \in PoolType /\ Q.freeSlot = t /\ Q.gcQueue = P.gcQueue /\ Q.currentBlock = P.currentBlock
      /\ Q.currentSlot = P.currentSlot /\ Q.lastSlot = P.lastSlot
  BY <1>2 DEF PoolType
<1> HIDE DEF Q
<1>4. Carved(Q, L \ {a}) = Carved(P, L)
  BY <1>2, <1>3 DEF Carved
<1>5. Range(t) \cap (L \ {a}) = {} /\ Range(Q.gcQueue) \subseteq L \ {a}
  BY <1>1, <1>2, <1>3 DEF ClassOK
<1>6. \A e \in Carved(P, L) : Place(c, Q, e)
  BY <1>3 DEF ClassOK, Place
<1>7. ClassOK(c, Q, L \ {a})
  BY <1>2, <1>3, <1>4, <1>5, <1>6 DEF ClassOK
<1> QED BY <1>3, <1>4, <1>7 DEF t, Q

\* A held slot is queued in a queue with room (gc()).
LEMMA EnqueueOK ==
    ASSUME NEW c \in Nat \ {0}, NEW P \in PoolType, NEW L \in SUBSET Addrs, ClassOK(c, P, L),
           QueueSizeOf(c) \in Nat, Len(P.gcQueue) < QueueSizeOf(c),
           NEW a \in L, a \notin Range(P.gcQueue)
    PROVE  LET Q == [P EXCEPT !.gcQueue = Append(P.gcQueue, a)]
           IN  /\ Q \in PoolType /\ Carved(Q, L) = Carved(P, L)
               /\ ClassOK(c, Q, L)
<1> DEFINE t == Append(P.gcQueue, a)
           Q == [P EXCEPT !.gcQueue = t]
<1>1. P.gcQueue \in Seq(Addrs) /\ IsInjective(P.gcQueue) /\ a \in Addrs /\ Len(P.gcQueue) \in Nat
  BY DEF PoolType, ClassOK
<1>2. /\ t \in Seq(Addrs) /\ Range(t) = Range(P.gcQueue) \cup {a} /\ IsInjective(t)
      /\ Len(t) = Len(P.gcQueue) + 1
  BY <1>1, AppendOfInjective
<1> HIDE DEF t
<1>3. /\ Q \in PoolType /\ Q.gcQueue = t /\ Q.freeSlot = P.freeSlot /\ Q.currentBlock = P.currentBlock
      /\ Q.currentSlot = P.currentSlot /\ Q.lastSlot = P.lastSlot
  BY <1>2 DEF PoolType
<1> HIDE DEF Q
<1>4. Carved(Q, L) = Carved(P, L)
  BY <1>3 DEF Carved
<1>5. Len(t) <= QueueSizeOf(c) /\ Range(t) \subseteq L
  BY <1>1, <1>2 DEF ClassOK
<1>6. \A e \in Carved(P, L) : Place(c, Q, e)
  BY <1>3 DEF ClassOK, Place
<1>7. ClassOK(c, Q, L)
  BY <1>2, <1>3, <1>4, <1>5, <1>6 DEF ClassOK
<1> QED BY <1>3, <1>4, <1>7 DEF t, Q

\* All queued slots become free (gcFlush()).
LEMMA FlushOK ==
    ASSUME NEW c \in Nat \ {0}, NEW P \in PoolType, NEW L \in SUBSET Addrs, ClassOK(c, P, L),
           QueueSizeOf(c) \in Nat
    PROVE  /\ Flushed(P) \in PoolType /\ Flushed(P).gcQueue = <<>>
           /\ Flushed(P).currentBlock = P.currentBlock /\ Flushed(P).firstBlock = P.firstBlock
           /\ Carved(Flushed(P), L \ Range(P.gcQueue)) = Carved(P, L)
           /\ ClassOK(c, Flushed(P), L \ Range(P.gcQueue))
<1> DEFINE r == Reverse(P.gcQueue)
           t == r \o P.freeSlot
           e == <<>>
           Q == [P EXCEPT !.freeSlot = t, !.gcQueue = e]
           G == Range(P.gcQueue)
<1>1. /\ P.freeSlot \in Seq(Addrs) /\ IsInjective(P.freeSlot) /\ Range(P.freeSlot) \cap L = {}
      /\ P.gcQueue \in Seq(Addrs) /\ IsInjective(P.gcQueue) /\ G \subseteq L
  BY DEF PoolType, ClassOK
<1>2. r \in Seq(Addrs) /\ Range(r) = G /\ IsInjective(r)
  BY <1>1, ReverseOfInjective
<1>3. e \in Seq(Addrs) /\ Len(e) = 0 /\ Range(e) = {} /\ IsInjective(e)
  BY DEF Range, IsInjective
<1> HIDE DEF r, e
<1>4. t \in Seq(Addrs) /\ Range(t) = G \cup Range(P.freeSlot) /\ IsInjective(t)
  <2>1. /\ t \in Seq(Addrs) /\ Range(t) = Range(r) \cup Range(P.freeSlot)
        /\ IsInjective(r) /\ IsInjective(P.freeSlot) /\ Range(r) \cap Range(P.freeSlot) = {} => IsInjective(t)
    BY <1>1, <1>2, ConcatOfInjective
  <2> QED BY <1>1, <1>2, <2>1
<1> HIDE DEF t
<1>5. /\ Q \in PoolType /\ Q.gcQueue = e /\ Q.freeSlot = t /\ Q.currentBlock = P.currentBlock
      /\ Q.currentSlot = P.currentSlot /\ Q.lastSlot = P.lastSlot /\ Q.firstBlock = P.firstBlock
  BY <1>3, <1>4 DEF PoolType
<1>6. Flushed(P) = Q
  BY DEF Flushed, Q, t, r, e
<1> HIDE DEF Q, G
<1>7. Carved(Q, L \ G) = Carved(P, L)
  BY <1>1, <1>4, <1>5 DEF Carved
<1>8. Range(t) \cap (L \ G) = {}
  BY <1>1, <1>4
<1>9. \A a \in Carved(P, L) : Place(c, Q, a)
  BY <1>5 DEF ClassOK, Place
<1>10. /\ Q.currentBlock # Null => Q.currentSlot >= 1 /\ Q.lastSlot = Items
       /\ \A a, d \in Carved(P, L) : a # d => Away(c, a, d)
  BY <1>5 DEF ClassOK
<1>11. Len(Q.gcQueue) <= QueueSizeOf(c) /\ Range(Q.gcQueue) \subseteq L \ G
  BY <1>3, <1>5
<1>12. IsInjective(Q.freeSlot) /\ IsInjective(Q.gcQueue) /\ Range(Q.freeSlot) \cap (L \ G) = {}
  BY <1>3, <1>4, <1>5, <1>8
<1>13. ClassOK(c, Q, L \ G)
  BY <1>7, <1>9, <1>10, <1>11, <1>12 DEF ClassOK
<1> QED BY <1>5, <1>6, <1>7, <1>13 DEF e, G

\* Nothing is held or free and the first block is carved from its start (clear()).
LEMMA ClearOK ==
    ASSUME NEW c \in Nat \ {0}, NEW P \in PoolType, NEW L, ClassOK(c, P, L), QueueSizeOf(c) \in Nat
    PROVE  /\ Cleared(P) \in PoolType /\ Carved(Cleared(P), {}) = {}
           /\ ClassOK(c, Cleared(P), {})
           /\ Cleared(P).firstBlock = P.firstBlock
           /\ Cleared(P).currentBlock \in {P.currentBlock, P.firstBlock}
<1> DEFINE e == <<>>
           F == [P EXCEPT !.freeSlot = e, !.gcQueue = e]
           Q == IF P.firstBlock = Null THEN F ELSE InitializeBlock(F, P.firstBlock)
<1>1. e \in Seq(Addrs) /\ Len(e) = 0 /\ Range(e) = {} /\ IsInjective(e)
  BY DEF Range, IsInjective
<1>2. Cleared(P) = Q
  BY DEF Cleared
<1> HIDE DEF e
<1>3. /\ F \in PoolType /\ F.gcQueue = e /\ F.freeSlot = e /\ F.currentBlock = P.currentBlock
      /\ F.currentSlot = P.currentSlot /\ F.lastSlot = P.lastSlot /\ F.firstBlock = P.firstBlock
  BY <1>1 DEF PoolType
<1> HIDE DEF F
<1>4. /\ Q \in PoolType /\ Q.gcQueue = e /\ Q.freeSlot = e /\ Q.firstBlock = P.firstBlock
      /\ Q.currentBlock \in {P.currentBlock, P.firstBlock}
      /\ Q.currentBlock # Null => Q.currentSlot >= 1 /\ Q.lastSlot = Items
  <2>1. CASE P.firstBlock = Null
    BY <1>3, <2>1 DEF ClassOK
  <2>2. CASE P.firstBlock # Null
    <3> DEFINE I == [F EXCEPT !.currentBlock = P.firstBlock, !.currentSlot = 1, !.lastSlot = Items]
    <3>1. Q = I
      BY <2>2 DEF InitializeBlock
    <3>2. P.firstBlock \in 0..MaxBlocks /\ Items \in Nat
      BY ArrayAssumption DEF PoolType
    <3>3. /\ I \in PoolType /\ I.gcQueue = F.gcQueue /\ I.freeSlot = F.freeSlot
          /\ I.firstBlock = F.firstBlock /\ I.currentBlock = P.firstBlock
          /\ I.currentSlot = 1 /\ I.lastSlot = Items
      BY <1>3, <3>2 DEF PoolType
    <3> HIDE DEF I, Q
    <3> QED BY <1>3, <3>1, <3>3
  <2> QED BY <2>1, <2>2
<1> HIDE DEF Q
<1>5. Carved(Q, {}) = {}
  BY <1>1, <1>4 DEF Carved
<1>6. ClassOK(c, Q, {})
  BY <1>1, <1>4, <1>5 DEF ClassOK
<1> QED BY <1>2, <1>4, <1>5, <1>6

(***************************************************************************)
(* Steps of the whole pool.                                                *)
(***************************************************************************)

\* What the types say about one class and one span.
LEMMA Typed ==
    ASSUME Served, Types
    PROVE  /\ \A c \in Classes : c \in Nat \ {0} /\ pools[c] \in PoolType /\ LiveOf(c) \in SUBSET Addrs
           /\ \A p \in live : /\ p \in Spans /\ Addr(p) \in Addrs /\ PoolIndex(p.size) \in Classes
                              /\ Addr(p) \in LiveOf(PoolIndex(p.size))
           /\ \A c \in Classes : \A a \in LiveOf(c) : \E p \in live : a = Addr(p) /\ PoolIndex(p.size) = c
<1>1. \A p \in Spans : Addr(p) \in Addrs /\ p.size \in Sizes
  BY DEF Spans, Addrs, Addr
<1>2. \A p \in Spans : PoolIndex(p.size) \in Classes
  BY <1>1, ClassOfSize
<1>3. \A c \in Classes : c \in Nat \ {0} /\ pools[c] \in PoolType
  BY ArrayAssumption DEF Types
<1>4. \A p \in live : p \in Spans
  BY DEF Types
<1> QED BY <1>1, <1>2, <1>3, <1>4, Zenon DEF LiveOf

\* An invariant of a class depends on its pool and its held addresses only.
LEMMA OtherClasses ==
    ASSUME Types, ClassesOK, NEW c \in Classes, NEW Q \in PoolType, pools' = [pools EXCEPT ![c] = Q],
           \A d \in Classes : d # c => LiveOf(d)' = LiveOf(d), ClassOK(c, Q, LiveOf(c)')
    PROVE  /\ pools' \in [Classes -> PoolType] /\ pools'[c] = Q
           /\ \A d \in Classes : d # c => pools'[d] = pools[d]
           /\ ClassesOK'
<1>1. /\ pools' \in [Classes -> PoolType] /\ pools'[c] = Q
      /\ \A d \in Classes : d # c => pools'[d] = pools[d]
  BY DEF Types
<1>2. ASSUME NEW d \in Classes PROVE ClassOK(d, pools'[d], LiveOf(d)')
  <2>1. CASE d = c
    BY <1>1, <2>1
  <2>2. CASE d # c
    <3>1. pools'[d] = pools[d] /\ LiveOf(d)' = LiveOf(d)
      BY <1>1, <2>2
    <3>2. ClassOK(d, pools[d], LiveOf(d))
      BY DEF ClassesOK
    <3> QED BY <3>1, <3>2
  <2> QED BY <2>1, <2>2
<1>3. ClassesOK'
  BY <1>2 DEF ClassesOK, ClassOK, Carved, Place, Away, QueueSizeOf, Null
<1> QED BY <1>1, <1>3

\* Ownership of what is carved survives further blocks, whichever class gets them.
LEMMA StillOwned ==
    ASSUME NEW own \in [Blocks -> Classes], NEW own2 \in [Blocks -> Classes], NEW n \in 0..MaxBlocks, NEW m \in 0..MaxBlocks,
           n <= m, \A b \in 1..n : own2[b] = own[b],
           NEW c \in Classes, NEW P \in PoolType, NEW L \in SUBSET Addrs, OwnedBy(own, n, c, P, L)
    PROVE  OwnedBy(own2, m, c, P, L)
<1>1. n \in Nat /\ m \in Nat /\ P.currentBlock \in Nat /\ P.firstBlock \in Nat
  BY ArrayAssumption DEF PoolType
<1>2. \A b \in Nat : b # Null /\ b <= n => b <= m /\ own2[b] = own[b]
  BY <1>1 DEF Null
<1>3. \A a \in Carved(P, L) : a[1] \in Nat /\ a[1] # Null
  <2>1. P.freeSlot \in Seq(Addrs)
    BY DEF PoolType
  <2>2. Range(P.freeSlot) \subseteq Addrs
    BY <2>1, RangeOf
  <2>3. \A a \in Addrs : a[1] \in Nat /\ a[1] # Null
    BY DEF Addrs, Blocks, Null
  <2> QED BY <2>2, <2>3 DEF Carved
<1> QED BY <1>1, <1>2, <1>3 DEF OwnedBy

\* Every allocation: the slot of the span is new to its class and in a block of
\* the class, so the span overlaps nothing that is held, in any class.
LEMMA AllocationStep ==
    ASSUME Served, PInv, NEW own \in [Blocks -> Classes], Ownership(own),
           NEW c \in Classes, NEW p \in Spans, PoolIndex(p.size) = c, HandOut(p),
           NEW Q \in PoolType, pools' = [pools EXCEPT ![c] = Q],
           ClassOK(c, Q, LiveOf(c) \cup {Addr(p)}),
           \A a \in LiveOf(c) : a # Addr(p) /\ Away(c, a, Addr(p)),
           NEW own2 \in [Blocks -> Classes], blocks' \in 0..MaxBlocks, blocks <= blocks',
           headers' \in [Blocks -> [prev : 0..MaxBlocks, next : 0..MaxBlocks]],
           \A b \in 1..blocks : own2[b] = own[b],
           OwnedBy(own2, blocks', c, Q, LiveOf(c) \cup {Addr(p)}),
           Linked(own2, blocks', headers')
    PROVE  PInv' /\ A!Allocate
<1> USE DEF PInv
<1> DEFINE n == Addr(p)
<1>1. live' = live \cup {p} /\ held' = held + 1
  BY DEF HandOut
<1>2. LiveOf(c)' = LiveOf(c) \cup {n} /\ \A d \in Classes : d # c => LiveOf(d)' = LiveOf(d)
  <2>1. ASSUME NEW d \in Classes
        PROVE  LiveOf(d)' = {Addr(q) : q \in {q \in live' : PoolIndex(q.size) = d}}
    BY DEF LiveOf, Addr, PoolIndex, ClassAbove
  <2>2. LiveOf(c)' = LiveOf(c) \cup {n}
    BY <1>1, <2>1, Zenon DEF LiveOf
  <2>3. ASSUME NEW d \in Classes, d # c PROVE LiveOf(d)' = LiveOf(d)
    BY <1>1, <2>1, <2>3, Zenon DEF LiveOf
  <2> QED BY <2>2, <2>3
<1>3. /\ pools' \in [Classes -> PoolType] /\ pools'[c] = Q
      /\ \A d \in Classes : d # c => pools'[d] = pools[d]
      /\ ClassesOK'
  <2>1. ClassOK(c, Q, LiveOf(c)')
    BY <1>2
  <2> QED BY <1>2, <2>1, OtherClasses
<1>4. ASSUME NEW d \in Classes, d # c PROVE OwnedBy(own2, blocks', d, pools[d], LiveOf(d))
  <2>1. OwnedBy(own, blocks, d, pools[d], LiveOf(d)) /\ blocks \in 0..MaxBlocks
    BY DEF Ownership, Types
  <2>2. pools[d] \in PoolType /\ LiveOf(d) \in SUBSET Addrs
    BY Typed
  <2> QED BY <2>1, <2>2, StillOwned
<1>5. Owners'
  <2>1. ASSUME NEW d \in Classes PROVE OwnedBy(own2, blocks', d, pools'[d], LiveOf(d)')
    <3>1. CASE d = c
      BY <1>2, <1>3, <3>1
    <3>2. CASE d # c
      <4>1. pools'[d] = pools[d] /\ LiveOf(d)' = LiveOf(d)
        BY <1>2, <1>3, <3>2
      <4> QED BY <1>4, <3>2, <4>1
    <3> QED BY <3>1, <3>2
  <2>2. Ownership(own2)'
    BY <2>1 DEF Ownership, OwnedBy, Linked, Carved, Null, Blocks
  <2> QED BY <2>2, Zenon DEF Owners, Blocks
<1>6. ASSUME NEW q \in live PROVE Addr(q) # n /\ A!Disjoint(p, q)
  <2> DEFINE d == PoolIndex(q.size)
  <2>1. d \in Classes /\ Addr(q) \in LiveOf(d) /\ q \in Spans /\ d \in Nat \ {0} /\ c \in Nat \ {0}
    BY Typed
  <2>2. /\ q.size \in Nat /\ q.off \in Nat /\ p.size \in Nat /\ p.off \in Nat
        /\ q.size <= d /\ p.size <= c
    BY <2>1, ClassOfSize, ArrayAssumption DEF Spans
  <2>3. CASE d = c
    <3>1. Addr(q) # n /\ Away(c, Addr(q), n)
      BY <2>1, <2>3
    <3>2. q.block # p.block \/ q.off + c <= p.off \/ p.off + c <= q.off
      BY <3>1 DEF Away, Addr
    <3> HIDE DEF d
    <3> QED BY <2>1, <2>2, <2>3, <3>1, <3>2 DEF A!Disjoint
  <2>4. CASE d # c
    <3>1. own2[Addr(q)[1]] = d
      BY <1>4, <2>1, <2>4 DEF OwnedBy, Carved
    <3>2. own2[n[1]] = c
      BY DEF OwnedBy, Carved
    <3>3. q.block # p.block
      BY <2>4, <3>1, <3>2 DEF Addr
    <3> QED BY <3>3 DEF Addr, A!Disjoint
  <2> QED BY <2>3, <2>4
<1>7. Distinct'
  <2>1. \A q \in live : Addr(q) # Addr(p)
    BY <1>6
  <2> QED BY <1>1, <2>1 DEF Distinct, Addr
<1>8. p \notin live
  BY <1>6
<1>9. Counting'
  <2>1. IsFiniteSet(live \cup {p}) /\ Cardinality(live \cup {p}) = Cardinality(live) + 1
    BY <1>8, FS_AddElement DEF Counting
  <2> QED BY <1>1, <2>1 DEF Counting
<1>10. Types'
  BY <1>1, <1>3, ZenonT(30) DEF Types, Spans, Blocks, PoolType, Addrs
<1>11. p \in A!Regions /\ A!Fits(p)
  <2>1. Place(c, Q, n)
    BY DEF ClassOK, Carved
  <2>2. /\ p.block \in Nat \ {0} /\ p.off \in Nat /\ p.size \in Nat \ {0} /\ p.size <= c
        /\ c \in Nat /\ Items \in Nat
    <3>1. p.block \in Blocks /\ p.off \in Nat /\ p.size \in Sizes
      BY DEF Spans
    <3>2. p.size <= c /\ c \in Nat
      BY <3>1, ClassOfSize
    <3>3. p.size \in Nat \ {0} /\ Items \in Nat
      BY <3>1, ArrayAssumption
    <3>4. p.block \in Nat \ {0}
      BY <3>1 DEF Blocks
    <3> QED BY <3>1, <3>2, <3>3, <3>4
  <2>3. p.off + c <= Items + 2 /\ 2 <= p.off
    BY <2>1 DEF Place, Addr
  <2>4. p.off + p.size <= Items + 2 /\ 1 <= p.off
    BY <2>2, <2>3
  <2>5. p \in A!Regions
    BY <2>2 DEF A!Regions, Spans
  <2> QED BY <2>4, <2>5 DEF A!Fits
<1>12. A!Allocate
  BY <1>1, <1>6, <1>11, Zenon DEF A!Allocate
<1> QED BY <1>3, <1>5, <1>7, <1>9, <1>10, <1>12

\* Every release: spans of one class leave the clients' hands, and what the class
\* has carved stays carved.
LEMMA ReleaseStep ==
    ASSUME Served, PInv, NEW c \in Classes, NEW G \in SUBSET live, \A q \in G : PoolIndex(q.size) = c,
           live' = live \ G, held' = held - Cardinality(G),
           NEW Q \in PoolType, pools' = [pools EXCEPT ![c] = Q],
           Q.currentBlock = pools[c].currentBlock, Q.firstBlock = pools[c].firstBlock,
           Carved(Q, LiveOf(c) \ {Addr(q) : q \in G}) = Carved(pools[c], LiveOf(c)),
           ClassOK(c, Q, LiveOf(c) \ {Addr(q) : q \in G}),
           UNCHANGED <<blocks, headers>>
    PROVE  PInv' /\ A!Release
<1> USE DEF PInv
<1> DEFINE R == {Addr(q) : q \in G}
<1>1. LiveOf(c)' = LiveOf(c) \ R /\ \A d \in Classes : d # c => LiveOf(d)' = LiveOf(d)
  <2>1. ASSUME NEW d \in Classes
        PROVE  LiveOf(d)' = {Addr(q) : q \in {q \in live \ G : PoolIndex(q.size) = d}}
    BY DEF LiveOf, Addr, PoolIndex, ClassAbove
  <2>2. \A q \in live \ G, r \in G : Addr(q) # Addr(r)
    BY Zenon DEF Distinct
  <2>3. LiveOf(c)' = LiveOf(c) \ R
    BY <2>1, <2>2, Zenon DEF LiveOf
  <2>4. ASSUME NEW d \in Classes, d # c PROVE LiveOf(d)' = LiveOf(d)
    BY <2>1, <2>4, Zenon DEF LiveOf
  <2> QED BY <2>3, <2>4
<1>2. /\ pools' \in [Classes -> PoolType] /\ pools'[c] = Q
      /\ \A d \in Classes : d # c => pools'[d] = pools[d]
      /\ ClassesOK'
  <2>1. ClassOK(c, Q, LiveOf(c)')
    BY <1>1
  <2> QED BY <1>1, <2>1, OtherClasses
<1>3. Owners'
  <2>1. PICK own \in [Blocks -> Classes] : Ownership(own)
    BY DEF Owners
  <2>2. OwnedBy(own, blocks, c, Q, LiveOf(c) \ R)
    BY <2>1 DEF Ownership, OwnedBy
  <2>3. ASSUME NEW d \in Classes PROVE OwnedBy(own, blocks, d, pools'[d], LiveOf(d)')
    <3>1. CASE d = c
      BY <1>1, <1>2, <2>2, <3>1
    <3>2. CASE d # c
      <4>1. pools'[d] = pools[d] /\ LiveOf(d)' = LiveOf(d)
        BY <1>1, <1>2, <3>2
      <4>2. OwnedBy(own, blocks, d, pools[d], LiveOf(d))
        BY <2>1 DEF Ownership
      <4> QED BY <4>1, <4>2
    <3> QED BY <3>1, <3>2
  <2>4. Ownership(own)'
    <3>1. blocks' = blocks /\ headers' = headers /\ Linked(own, blocks, headers)
      BY <2>1 DEF Ownership
    <3> QED BY <2>3, <3>1 DEF Ownership, OwnedBy, Linked, Carved, Null, Blocks
  <2> QED BY <2>4, Zenon DEF Owners, Blocks
<1>4. Distinct'
  BY DEF Distinct, Addr
<1>5. IsFiniteSet(live') /\ Cardinality(live') = held'
  <2>1. IsFiniteSet(live) /\ held = Cardinality(live) /\ live \cap G = G
    BY DEF Counting
  <2>2. IsFiniteSet(live \ G) /\ Cardinality(live \ G) = Cardinality(live) - Cardinality(live \cap G)
    BY <2>1, FS_Difference, FS_Subset
  <2> QED BY <2>1, <2>2
<1>6. Counting'
  BY <1>5 DEF Counting
<1>7. Types'
  BY <1>2 DEF Types, Spans, Blocks, PoolType, Addrs
<1>8. A!Release
  <2>1. A!Cardinality(live') = Cardinality(live')
    BY DEF A!Cardinality, Cardinality
  <2> QED BY <1>5, <2>1 DEF A!Release
<1> QED BY <1>2, <1>3, <1>4, <1>6, <1>7, <1>8

\* allocate() with a free slot.
LEMMA ConstructFreeStep ==
    ASSUME Served, PInv, NEW size \in Sizes, ConstructFree(size)
    PROVE  PInv' /\ A!Allocate
<1> USE DEF PInv
<1> DEFINE c == PoolIndex(size)
           L == LiveOf(c)
           n == Head(pools[c].freeSlot)
           Q == [pools[c] EXCEPT !.freeSlot = Tail(pools[c].freeSlot)]
           p == Span(n[1], n[2], size)
<1>1. PICK own \in [Blocks -> Classes] : Ownership(own)
  BY DEF Owners
<1>2. c \in Classes
  BY ClassOfSize
<1>3. /\ c \in Nat \ {0} /\ pools[c] \in PoolType /\ L \in SUBSET Addrs /\ ClassOK(c, pools[c], L)
      /\ pools[c].freeSlot # <<>>
  BY <1>2, Typed DEF ClassesOK, ConstructFree
<1>4. /\ Q \in PoolType /\ n \in Addrs /\ n \in Carved(pools[c], L) /\ n \notin L
      /\ Carved(Q, L \cup {n}) = Carved(pools[c], L)
      /\ ClassOK(c, Q, L \cup {n})
  BY <1>3, TakeFreeOK
<1>5. pools' = [pools EXCEPT ![c] = Q] /\ HandOut(p) /\ blocks' = blocks /\ headers' = headers
  BY <1>2 DEF ConstructFree, Types
<1>6. Q.currentBlock = pools[c].currentBlock /\ Q.firstBlock = pools[c].firstBlock
  BY <1>3 DEF PoolType
<1> HIDE DEF n, Q, L, c
<1>7. p \in Spans /\ Addr(p) = n /\ p.size = size
  BY <1>4 DEF Span, Spans, Addr, Addrs
<1>8. \A a \in L : a # n /\ Away(c, a, n)
  BY <1>3, <1>4 DEF ClassOK, Carved
<1>9. OwnedBy(own, blocks, c, Q, L \cup {n})
  BY <1>1, <1>2, <1>4, <1>6 DEF Ownership, OwnedBy, L
<1> HIDE DEF p
<1>10. PoolIndex(p.size) = c
  BY <1>7 DEF c
<1>11. Linked(own, blocks, headers) /\ \A b \in 1..blocks : own[b] = own[b]
  BY <1>1 DEF Ownership
<1>12. blocks \in 0..MaxBlocks /\ blocks <= blocks /\ headers \in [Blocks -> [prev : 0..MaxBlocks, next : 0..MaxBlocks]]
  BY ArrayAssumption DEF Types
<1> QED BY <1>1, <1>2, <1>4, <1>5, <1>7, <1>8, <1>9, <1>10, <1>11, <1>12, AllocationStep DEF L

\* Every allocation that carves: from the current block, from a block left over
\* by clear() or from a new one.
LEMMA CarveStep ==
    ASSUME Served, PInv, NEW own \in [Blocks -> Classes], Ownership(own), NEW size \in Sizes,
           NEW c, c = PoolIndex(size),
           NEW b \in Blocks, NEW s \in Nat, NEW Q \in PoolType, Carves(c, pools[c], b, s, Q),
           HandOut(Span(b, s + 1, size)), pools' = [pools EXCEPT ![c] = Q],
           NEW own2 \in [Blocks -> Classes], blocks' \in 0..MaxBlocks, blocks <= blocks',
           headers' \in [Blocks -> [prev : 0..MaxBlocks, next : 0..MaxBlocks]],
           \A d \in 1..blocks : own2[d] = own[d],
           b <= blocks', own2[b] = c, Q.firstBlock \in {pools[c].firstBlock, b},
           Linked(own2, blocks', headers')
    PROVE  PInv' /\ A!Allocate
<1> USE DEF PInv
<1> DEFINE L == LiveOf(c)
           p == Span(b, s + 1, size)
           n == <<b, s + 1>>
<1>1. c \in Classes
  BY ClassOfSize
<1>2. /\ c \in Nat \ {0} /\ pools[c] \in PoolType /\ L \in SUBSET Addrs /\ ClassOK(c, pools[c], L)
  BY <1>1, Typed DEF ClassesOK
<1>3. /\ ClassOK(c, Q, L \cup {n})
      /\ \A a \in L : a # n /\ Away(c, a, n)
  <2> HIDE DEF L
  <2> QED BY <1>2, CarveOK
<1>4. p \in Spans /\ Addr(p) = n /\ p.size = size /\ n[1] = b
  BY DEF Span, Spans, Addr
<1>5. OwnedBy(own2, blocks', c, Q, L \cup {n})
  <2>1. OwnedBy(own, blocks, c, pools[c], L) /\ blocks \in 0..MaxBlocks
    BY <1>1 DEF Ownership, Types
  <2>2. OwnedBy(own2, blocks', c, pools[c], L)
    BY <1>1, <1>2, <2>1, StillOwned
  <2>3. Carved(Q, L \cup {n}) = Carved(pools[c], L) \cup {n} /\ Q.currentBlock = b
    BY Zenon DEF Carved, Carves
  <2> HIDE DEF n, L
  <2> QED BY <1>4, <2>2, <2>3 DEF OwnedBy
<1> HIDE DEF n, p, L
<1>6. PoolIndex(p.size) = c /\ HandOut(p)
  BY <1>4 DEF p
<1> QED BY <1>1, <1>3, <1>4, <1>5, <1>6, AllocationStep DEF L

\* allocate() at the cursor of the current block.
LEMMA ConstructBumpStep ==
    ASSUME Served, PInv, NEW size \in Sizes, ConstructBump(size)
    PROVE  PInv' /\ A!Allocate
<1> USE DEF PInv
<1> DEFINE c == PoolIndex(size)
           P == pools[c]
           b == P.currentBlock
           s == P.currentSlot
           Q == [P EXCEPT !.currentSlot = s + c]
<1>1. PICK own \in [Blocks -> Classes] : Ownership(own)
  BY DEF Owners
<1>2. c \in Classes /\ c \in Nat \ {0}
  BY ClassOfSize
<1>3. /\ P \in PoolType /\ ClassOK(c, P, LiveOf(c)) /\ OwnedBy(own, blocks, c, P, LiveOf(c))
      /\ Items \in Nat
  BY <1>1, <1>2, Typed, ArrayAssumption DEF ClassesOK, Ownership
<1>4. /\ P.freeSlot = <<>> /\ b # Null /\ ~(s + c - 1 > P.lastSlot)
      /\ HandOut(Span(b, s + 1, size)) /\ pools' = [pools EXCEPT ![c] = Q]
      /\ blocks' = blocks /\ headers' = headers
  BY <1>2 DEF ConstructBump, TakeSlot, Full, Types
<1>5. b \in Blocks /\ s \in Nat /\ 1 <= s /\ P.lastSlot = Items /\ b <= blocks /\ own[b] = c
  BY <1>3, <1>4 DEF ClassOK, OwnedBy, PoolType, Blocks, Null
<1>6. s + c <= Items + 1 /\ s <= s
  BY <1>2, <1>3, <1>4, <1>5
<1>7. /\ Q \in PoolType /\ Q.currentBlock = b /\ Q.currentSlot = s + c /\ Q.lastSlot = Items
      /\ Q.freeSlot = <<>> /\ Q.gcQueue = P.gcQueue /\ Q.firstBlock = P.firstBlock
  <2>1. s + c \in Nat
    BY <1>2, <1>5
  <2> HIDE DEF P, c, s
  <2> QED BY <1>3, <1>4, <1>5, <2>1 DEF PoolType
<1>8. Linked(own, blocks, headers) /\ \A d \in 1..blocks : own[d] = own[d]
  BY <1>1 DEF Ownership
<1>9. blocks \in 0..MaxBlocks /\ blocks <= blocks /\ headers \in [Blocks -> [prev : 0..MaxBlocks, next : 0..MaxBlocks]]
  BY ArrayAssumption DEF Types
<1> HIDE DEF Q, b, s, P, c
<1>10. Carves(c, P, b, s, Q)
  BY <1>4, <1>5, <1>6, <1>7 DEF Carves, b, s
<1>11. c = PoolIndex(size) /\ P = pools[c] /\ Q.firstBlock \in {pools[c].firstBlock, b}
  BY <1>7 DEF c, P
<1> QED BY <1>1, <1>4, <1>5, <1>7, <1>8, <1>9, <1>10, <1>11, CarveStep

\* allocate() from a block left over by clear().
LEMMA ConstructReusedBlockStep ==
    ASSUME Served, PInv, NEW size \in Sizes, ConstructReusedBlock(size)
    PROVE  PInv' /\ A!Allocate
<1> USE DEF PInv
<1> DEFINE c == PoolIndex(size)
           P == pools[c]
           b == headers[P.currentBlock].next
           I == InitializeBlock(P, b)
           Q == [I EXCEPT !.currentSlot = I.currentSlot + c]
<1>1. PICK own \in [Blocks -> Classes] : Ownership(own)
  BY DEF Owners
<1>2. c \in Classes /\ c \in Nat \ {0} /\ c <= Items
  BY ClassOfSize, ArrayAssumption
<1>3. /\ P \in PoolType /\ OwnedBy(own, blocks, c, P, LiveOf(c))
      /\ Linked(own, blocks, headers) /\ Items \in Nat /\ MaxBlocks \in Nat
      /\ headers \in [Blocks -> [prev : 0..MaxBlocks, next : 0..MaxBlocks]] /\ blocks \in 0..MaxBlocks
  BY <1>1, <1>2, Typed, ArrayAssumption DEF Ownership, Types
<1>4. /\ P.freeSlot = <<>> /\ P.currentBlock # Null /\ b # Null
      /\ HandOut(Span(I.currentBlock, I.currentSlot + 1, size)) /\ pools' = [pools EXCEPT ![c] = Q]
      /\ blocks' = blocks /\ headers' = headers
  BY <1>2 DEF ConstructReusedBlock, TakeSlot, HasNextBlock, Types
<1>5. P.currentBlock \in Blocks /\ own[P.currentBlock] = c /\ P.currentBlock \in Nat
  BY <1>3, <1>4 DEF OwnedBy, PoolType, Blocks, Null
<1>6. b \in Blocks /\ P.currentBlock < b /\ b <= blocks /\ own[b] = c
  <2>1. P.currentBlock < b /\ b <= blocks /\ own[b] = c /\ b \in 0..MaxBlocks
    BY <1>3, <1>4, <1>5 DEF Linked
  <2> HIDE DEF b, P
  <2> QED BY <1>3, <1>4, <2>1 DEF Blocks, Null
<1> HIDE DEF b, P, c
<1>7. /\ I \in PoolType /\ I.currentBlock = b /\ I.currentSlot = 1 /\ I.lastSlot = Items
      /\ I.freeSlot = <<>> /\ I.gcQueue = P.gcQueue /\ I.firstBlock = P.firstBlock
  <2>1. b \in 0..MaxBlocks
    BY <1>3, <1>6 DEF Blocks
  <2> QED BY <1>3, <1>4, <2>1 DEF InitializeBlock, PoolType
<1> HIDE DEF I
<1>8. /\ Q \in PoolType /\ Q.currentBlock = b /\ Q.currentSlot = 1 + c /\ Q.lastSlot = Items
      /\ Q.freeSlot = <<>> /\ Q.gcQueue = P.gcQueue /\ Q.firstBlock = P.firstBlock
  <2>1. 1 + c \in Nat
    BY <1>2
  <2> QED BY <1>7, <2>1 DEF PoolType
<1> HIDE DEF Q
<1>9. Carves(c, P, b, 1, Q)
  BY <1>2, <1>3, <1>4, <1>6, <1>8 DEF Carves
<1>10. /\ c = PoolIndex(size) /\ P = pools[c] /\ Q.firstBlock \in {pools[c].firstBlock, b}
       /\ HandOut(Span(b, 1 + 1, size)) /\ 1 \in Nat /\ blocks <= blocks
       /\ \A d \in 1..blocks : own[d] = own[d]
  BY <1>3, <1>4, <1>7, <1>8 DEF c, P
<1> QED BY <1>1, <1>3, <1>4, <1>6, <1>8, <1>9, <1>10, CarveStep

\* allocate() from a new block, which is linked behind the current one and from
\* then on belongs to the class.
LEMMA ConstructNewBlockStep ==
    ASSUME Served, PInv, NEW size \in Sizes, ConstructNewBlock(size)
    PROVE  PInv' /\ A!Allocate
<1> USE DEF PInv
<1> DEFINE c == PoolIndex(size)
           P == pools[c]
           b == blocks + 1
           F == [P EXCEPT !.firstBlock = IF P.firstBlock = Null THEN b ELSE P.firstBlock]
           I == InitializeBlock(F, b)
           Q == [I EXCEPT !.currentSlot = I.currentSlot + c]
           H == [d \in Blocks |->
                    CASE d = b -> [prev |-> P.currentBlock, next |-> Null]
                      [] d = P.currentBlock -> [headers[d] EXCEPT !.next = b]
                      [] OTHER -> headers[d]]
<1>1. PICK own \in [Blocks -> Classes] : Ownership(own)
  BY DEF Owners
<1>2. c \in Classes /\ c \in Nat \ {0} /\ c <= Items
  BY ClassOfSize, ArrayAssumption
<1>3. /\ P \in PoolType /\ OwnedBy(own, blocks, c, P, LiveOf(c))
      /\ Linked(own, blocks, headers) /\ Items \in Nat /\ MaxBlocks \in Nat
      /\ headers \in [Blocks -> [prev : 0..MaxBlocks, next : 0..MaxBlocks]] /\ blocks \in 0..MaxBlocks
  BY <1>1, <1>2, Typed, ArrayAssumption DEF Ownership, Types
<1>4. /\ P.freeSlot = <<>> /\ blocks < MaxBlocks
      /\ HandOut(Span(I.currentBlock, I.currentSlot + 1, size)) /\ pools' = [pools EXCEPT ![c] = Q]
      /\ blocks' = b /\ headers' = H
  BY <1>2 DEF ConstructNewBlock, TakeSlot, Types
<1> DEFINE own2 == [own EXCEPT ![b] = c]
<1>5. /\ b \in Blocks /\ b \in Nat /\ blocks \in Nat /\ b \in 0..MaxBlocks /\ blocks <= b /\ b <= b
      /\ P.currentBlock \in 0..MaxBlocks /\ P.currentBlock <= blocks /\ P.currentBlock < b
  <2>1. /\ b \in Blocks /\ b \in Nat /\ blocks \in Nat /\ b \in 0..MaxBlocks /\ blocks <= b /\ b <= b
    BY <1>3, <1>4 DEF Blocks
  <2>2. P.currentBlock \in 0..MaxBlocks /\ P.currentBlock <= blocks
    BY <1>3 DEF OwnedBy, PoolType, Null
  <2> QED BY <1>3, <2>1, <2>2
<1> HIDE DEF P, c
<1>6. own2 \in [Blocks -> Classes] /\ own2[b] = c /\ \A d \in 1..blocks : own2[d] = own[d]
  BY <1>2, <1>3, <1>5 DEF Blocks
<1>7. /\ H \in [Blocks -> [prev : 0..MaxBlocks, next : 0..MaxBlocks]]
      /\ H[b].next = Null
      /\ P.currentBlock # Null => H[P.currentBlock].next = b
      /\ \A d \in Blocks : d # b /\ d # P.currentBlock => H[d].next = headers[d].next
  <2>1. ASSUME NEW d \in Blocks
        PROVE  /\ H[d] \in [prev : 0..MaxBlocks, next : 0..MaxBlocks]
               /\ d = b => H[d].next = Null
               /\ d = P.currentBlock => H[d].next = b
               /\ d # b /\ d # P.currentBlock => H[d].next = headers[d].next
    <3>1. headers[d] \in [prev : 0..MaxBlocks, next : 0..MaxBlocks] /\ Null \in 0..MaxBlocks
      BY <1>3 DEF Null
    <3>2. CASE d = b
      <4>1. d # P.currentBlock
        BY <1>3, <1>5, <3>2
      <4>2. H[d] = [prev |-> P.currentBlock, next |-> Null]
        BY <3>2, <4>1
      <4> QED BY <1>5, <3>1, <3>2, <4>1, <4>2
    <3>3. CASE d # b /\ d = P.currentBlock
      <4>1. H[d] = [headers[d] EXCEPT !.next = b]
        BY <3>3
      <4> QED BY <1>5, <3>1, <3>3, <4>1
    <3>4. CASE d # b /\ d # P.currentBlock
      BY <3>1, <3>4
    <3> QED BY <3>2, <3>3, <3>4
  <2>2. P.currentBlock # Null => P.currentBlock \in Blocks
    BY <1>3, <1>5 DEF Blocks, Null
  <2> QED BY <1>5, <2>1, <2>2
<1> HIDE DEF H
<1>8. Linked(own2, b, H)
  <2> SUFFICES ASSUME NEW d \in Blocks, H[d].next # Null
               PROVE  d < H[d].next /\ H[d].next <= b /\ own2[H[d].next] = own2[d]
    BY DEF Linked
  <2>1. CASE d = P.currentBlock
    <3>1. P.currentBlock # Null
      BY <2>1 DEF Blocks, Null
    <3>2. own[P.currentBlock] = c /\ H[d].next = b
      BY <1>3, <1>7, <2>1, <3>1 DEF OwnedBy
    <3>3. P.currentBlock \in 1..blocks
      BY <1>3, <1>5, <3>1 DEF Null
    <3> QED BY <1>5, <1>6, <2>1, <3>2, <3>3
  <2>2. CASE d # P.currentBlock
    <3>1. H[d].next = headers[d].next
      BY <1>7, <2>2
    <3>2. d < headers[d].next /\ headers[d].next <= blocks /\ own[headers[d].next] = own[d]
      BY <1>3, <3>1 DEF Linked
    <3>3. d \in 1..blocks /\ headers[d].next \in 1..blocks /\ headers[d].next <= b
      BY <1>3, <1>5, <3>2 DEF Blocks
    <3> QED BY <1>6, <3>1, <3>2, <3>3
  <2> QED BY <2>1, <2>2
<1> HIDE DEF own2
<1>9. /\ F \in PoolType /\ F.freeSlot = <<>> /\ F.gcQueue = P.gcQueue
      /\ F.firstBlock \in {P.firstBlock, b}
  BY <1>3, <1>4, <1>5 DEF PoolType
<1> HIDE DEF F
<1>10. /\ I \in PoolType /\ I.currentBlock = b /\ I.currentSlot = 1 /\ I.lastSlot = Items
       /\ I.freeSlot = <<>> /\ I.gcQueue = P.gcQueue /\ I.firstBlock = F.firstBlock
  <2> HIDE DEF b
  <2> QED BY <1>3, <1>5, <1>9 DEF InitializeBlock, PoolType
<1> HIDE DEF I
<1>11. /\ Q \in PoolType /\ Q.currentBlock = b /\ Q.currentSlot = 1 + c /\ Q.lastSlot = Items
       /\ Q.freeSlot = <<>> /\ Q.gcQueue = P.gcQueue /\ Q.firstBlock = F.firstBlock
  <2>1. 1 + c \in Nat
    BY <1>2
  <2> HIDE DEF b
  <2> QED BY <1>10, <2>1 DEF PoolType
<1> HIDE DEF Q
<1>12. Carves(c, P, b, 1, Q)
  <2>1. 1 + c <= Items + 1
    BY <1>2, <1>3
  <2> HIDE DEF b
  <2> QED BY <1>4, <1>5, <1>11, <2>1 DEF Carves
<1>13. /\ c = PoolIndex(size) /\ P = pools[c] /\ Q.firstBlock \in {pools[c].firstBlock, b}
       /\ HandOut(Span(b, 1 + 1, size)) /\ 1 \in Nat
  BY <1>4, <1>9, <1>10, <1>11 DEF c, P
<1> HIDE DEF b
<1> QED BY <1>1, <1>4, <1>5, <1>6, <1>7, <1>8, <1>11, <1>12, <1>13, CarveStep

\* What a client may pass to the pool is held and not queued in its class.
LEMMA HeldOf ==
    ASSUME Served, PInv, NEW p \in live, p \in Held
    PROVE  LET c == PoolIndex(p.size) IN
           /\ c \in Classes /\ c \in Nat \ {0} /\ pools[c] \in PoolType /\ LiveOf(c) \in SUBSET Addrs
           /\ QueueSizeOf(c) \in Nat /\ 1 <= QueueSizeOf(c) /\ ClassOK(c, pools[c], LiveOf(c))
           /\ Addr(p) \in LiveOf(c) /\ Addr(p) \notin Range(pools[c].gcQueue)
<1> USE DEF PInv
<1> DEFINE c == PoolIndex(p.size)
<1>1. p \in Spans /\ p.size \in Sizes
  BY DEF Types, Spans
<1>2. c \in Classes /\ c \in Nat \ {0} /\ c <= GCQueueSize
  BY <1>1, ClassOfSize
<1>3. QueueSizeOf(c) \in Nat /\ 1 <= QueueSizeOf(c)
  BY <1>2, QueueRoom
<1>4. Addr(p) \notin Range(pools[c].gcQueue)
  BY <1>2, Zenon DEF Held, Queued, Addr
<1>5. pools[c] \in PoolType /\ LiveOf(c) \in SUBSET Addrs /\ Addr(p) \in LiveOf(c) /\ ClassOK(c, pools[c], LiveOf(c))
  BY <1>2, Typed DEF ClassesOK
<1> QED BY <1>2, <1>3, <1>4, <1>5

\* destruct() of a held span.
LEMMA DestructStep ==
    ASSUME Served, PInv, NEW p \in live, Destruct(p)
    PROVE  PInv' /\ A!Release
<1> USE DEF PInv
<1> DEFINE c == PoolIndex(p.size)
           L == LiveOf(c)
           t == <<Addr(p)>> \o pools[c].freeSlot
           Q == [pools[c] EXCEPT !.freeSlot = t]
           G == {p}
<1>1. /\ c \in Classes /\ c \in Nat \ {0} /\ pools[c] \in PoolType /\ L \in SUBSET Addrs
      /\ ClassOK(c, pools[c], L) /\ Addr(p) \in L /\ Addr(p) \notin Range(pools[c].gcQueue)
  BY HeldOf DEF Destruct
<1>2. /\ Q \in PoolType /\ Carved(Q, L \ {Addr(p)}) = Carved(pools[c], L)
      /\ ClassOK(c, Q, L \ {Addr(p)})
  BY <1>1, PutFreeOK
<1>3. pools' = [pools EXCEPT ![c] = Q] /\ live' = live \ G /\ held' = held - 1 /\ UNCHANGED <<blocks, headers>>
  BY <1>1 DEF Destruct, Types, Addr
<1> HIDE DEF t
<1>4. Q.currentBlock = pools[c].currentBlock /\ Q.firstBlock = pools[c].firstBlock
  BY <1>1 DEF PoolType
<1>5. G \in SUBSET live /\ {Addr(q) : q \in G} = {Addr(p)} /\ \A q \in G : PoolIndex(q.size) = c
  BY Zenon
<1>6. Cardinality(G) = 1
  BY FS_Singleton
<1> HIDE DEF Q, G, c
<1>7. /\ Carved(Q, LiveOf(c) \ {Addr(q) : q \in G}) = Carved(pools[c], LiveOf(c))
      /\ ClassOK(c, Q, LiveOf(c) \ {Addr(q) : q \in G}) /\ held' = held - Cardinality(G)
  BY <1>2, <1>3, <1>5, <1>6
<1> QED BY <1>1, <1>2, <1>3, <1>4, <1>5, <1>7, ReleaseStep

\* The spans of a queue that is flushed: all of its class, one for each entry.
LEMMA QueuedSpans ==
    ASSUME Served, PInv, NEW c \in Classes
    PROVE  LET G == {q \in live : Addr(q) \in Range(pools[c].gcQueue)}
           IN  /\ \A q \in G : PoolIndex(q.size) = c
               /\ {Addr(q) : q \in G} = Range(pools[c].gcQueue)
               /\ Cardinality(G) = Len(pools[c].gcQueue)
<1> USE DEF PInv
<1> DEFINE R == Range(pools[c].gcQueue)
           G == {q \in live : Addr(q) \in R}
           f == [q \in G |-> Addr(q)]
<1>1. /\ pools[c].gcQueue \in Seq(Addrs) /\ IsInjective(pools[c].gcQueue) /\ R \subseteq LiveOf(c)
  <2>1. pools[c] \in PoolType
    BY DEF Types
  <2> QED BY <2>1 DEF ClassesOK, ClassOK, PoolType
<1>2. \A a \in R : \E p \in live : a = Addr(p) /\ PoolIndex(p.size) = c
  BY <1>1, Typed
<1>3. \A q \in G : PoolIndex(q.size) = c
  BY <1>2 DEF Distinct
<1>4. {Addr(q) : q \in G} = R
  BY <1>2
<1>5. IsFiniteSet(R) /\ Cardinality(R) = Len(pools[c].gcQueue)
  BY <1>1, CardinalityOfList
<1>6. IsFiniteSet(G)
  <2>1. IsFiniteSet(live) /\ G \subseteq live
    BY DEF Counting
  <2> QED BY <2>1, FS_Subset
<1>7. ExistsBijection(G, R)
  <2>1. \A p, q \in G : f[p] = f[q] => p = q
    BY DEF Distinct
  <2>2. f \in [G -> R] /\ \A a \in R : \E q \in G : f[q] = a
    BY <1>2
  <2> HIDE DEF f, G, R
  <2>3. f \in Injection(G, R) /\ f \in Surjection(G, R)
    BY <2>1, <2>2, Zenon DEF Injection, Surjection, IsInjective
  <2>4. f \in Bijection(G, R)
    BY <2>3, Zenon DEF Bijection
  <2> QED BY <2>4, Zenon DEF ExistsBijection
<1>8. Cardinality(G) = Cardinality(R)
  BY <1>6, <1>7, FS_Bijection
<1> QED BY <1>3, <1>4, <1>5, <1>8

\* gc() of a held span: the queue has room, or is flushed first.
LEMMA GcStep ==
    ASSUME Served, PInv, NEW p \in live, Gc(p)
    PROVE  PInv' /\ A!Release
<1> USE DEF PInv
<1> DEFINE c == PoolIndex(p.size)
           P == pools[c]
           L == LiveOf(c)
           a == Addr(p)
           gone == {q \in live : Addr(q) \in Range(P.gcQueue)}
<1>1. /\ c \in Classes /\ c \in Nat \ {0} /\ P \in PoolType /\ L \in SUBSET Addrs
      /\ QueueSizeOf(c) \in Nat /\ 1 <= QueueSizeOf(c) /\ ClassOK(c, P, L)
      /\ a \in L /\ a \notin Range(P.gcQueue)
  BY HeldOf DEF Gc
<1>2. UNCHANGED <<blocks, headers>>
  BY DEF Gc
<1>3. Len(P.gcQueue) \in Nat
  BY <1>1 DEF PoolType
<1> DEFINE W == IF Len(P.gcQueue) >= QueueSizeOf(c) THEN Flushed(P) ELSE P
<1>4. pools' = [pools EXCEPT ![c] = [W EXCEPT !.gcQueue = Append(W.gcQueue, a)]]
  BY DEF Gc, Addr
<1>5. CASE ~(Len(P.gcQueue) >= QueueSizeOf(c))
  <2> DEFINE Q == [P EXCEPT !.gcQueue = Append(P.gcQueue, a)]
             G == {}
  <2>1. Len(P.gcQueue) < QueueSizeOf(c)
    BY <1>1, <1>3, <1>5
  <2>2. Q \in PoolType /\ Carved(Q, L) = Carved(P, L) /\ ClassOK(c, Q, L)
    BY <1>1, <2>1, EnqueueOK
  <2>3. pools' = [pools EXCEPT ![c] = Q] /\ live' = live /\ held' = held
    <3>1. W = P
      BY <1>5
    <3> HIDE DEF W
    <3> QED BY <1>4, <1>5, <3>1 DEF Gc
  <2>4. Q.currentBlock = P.currentBlock /\ Q.firstBlock = P.firstBlock
    BY <1>1 DEF PoolType
  <2>5. /\ G \in SUBSET live /\ {Addr(q) : q \in G} = {} /\ (\A q \in G : PoolIndex(q.size) = c)
        /\ L \ {} = L /\ live' = live \ G
    BY <2>3, Zenon
  <2>6. Cardinality(G) = 0 /\ held = Cardinality(live) /\ Cardinality(live) \in Nat
    BY FS_EmptySet, FS_CardinalityType DEF Counting
  <2> HIDE DEF Q, G
  <2>7. /\ Carved(Q, LiveOf(c) \ {Addr(q) : q \in G}) = Carved(pools[c], LiveOf(c))
        /\ ClassOK(c, Q, LiveOf(c) \ {Addr(q) : q \in G}) /\ held' = held - Cardinality(G)
    BY <2>2, <2>3, <2>5, <2>6
  <2> HIDE DEF c
  <2> QED BY <1>1, <1>2, <2>2, <2>3, <2>4, <2>5, <2>7, ReleaseStep
<1>6. CASE Len(P.gcQueue) >= QueueSizeOf(c)
  <2> DEFINE R == Range(P.gcQueue)
             F == Flushed(P)
             M == L \ R
             Q == [F EXCEPT !.gcQueue = Append(F.gcQueue, a)]
  <2>1. /\ F \in PoolType /\ F.gcQueue = <<>> /\ F.currentBlock = P.currentBlock
        /\ F.firstBlock = P.firstBlock /\ Carved(F, M) = Carved(P, L) /\ ClassOK(c, F, M)
    BY <1>1, FlushOK
  <2>2. pools' = [pools EXCEPT ![c] = Q] /\ live' = live \ gone /\ held' = held - Len(P.gcQueue)
    <3>1. W = F
      BY <1>6
    <3>2. live' = live \ gone /\ held' = held - Len(P.gcQueue)
      BY <1>6 DEF Gc, Addr
    <3> HIDE DEF W, F
    <3> QED BY <1>4, <3>1, <3>2
  <2> HIDE DEF F
  <2>3. Len(F.gcQueue) < QueueSizeOf(c) /\ a \notin Range(F.gcQueue) /\ M \in SUBSET Addrs /\ a \in M
    <3>1. Range(<<>>) = {} /\ Len(<<>>) = 0
      BY DEF Range
    <3> QED BY <1>1, <2>1, <3>1
  <2>4. Q \in PoolType /\ Carved(Q, M) = Carved(F, M) /\ ClassOK(c, Q, M)
    <3> HIDE DEF M
    <3> QED BY <1>1, <2>1, <2>3, EnqueueOK
  <2>5. Q.currentBlock = P.currentBlock /\ Q.firstBlock = P.firstBlock
    BY <2>1 DEF PoolType
  <2>6. /\ \A q \in gone : PoolIndex(q.size) = c
        /\ {Addr(q) : q \in gone} = R /\ Cardinality(gone) = Len(P.gcQueue)
    <3> HIDE DEF c
    <3> QED BY <1>1, QueuedSpans
  <2>7. gone \in SUBSET live
    OBVIOUS
  <2> HIDE DEF Q, gone, R
  <2>8. /\ Carved(Q, LiveOf(c) \ {Addr(q) : q \in gone}) = Carved(pools[c], LiveOf(c))
        /\ ClassOK(c, Q, LiveOf(c) \ {Addr(q) : q \in gone}) /\ held' = held - Cardinality(gone)
    BY <2>1, <2>2, <2>4, <2>6
  <2> HIDE DEF c
  <2> QED BY <1>1, <1>2, <2>2, <2>4, <2>5, <2>6, <2>7, <2>8, ReleaseStep
<1> QED BY <1>5, <1>6

\* clear() forgets every span; the blocks keep their owners.
LEMMA ClearStep ==
    ASSUME Served, PInv, Clear
    PROVE  PInv' /\ A!Release
<1> USE DEF PInv
<1>1. live' = {} /\ held' = 0 /\ pools' = [c \in Classes |-> Cleared(pools[c])] /\ UNCHANGED <<blocks, headers>>
  BY DEF Clear
<1>2. \A c \in Classes : LiveOf(c)' = {} /\ pools'[c] = Cleared(pools[c])
  BY <1>1 DEF LiveOf
<1>3. ASSUME NEW c \in Classes
      PROVE  /\ Cleared(pools[c]) \in PoolType /\ Carved(Cleared(pools[c]), {}) = {}
             /\ ClassOK(c, Cleared(pools[c]), {})
             /\ Cleared(pools[c]).firstBlock = pools[c].firstBlock
             /\ Cleared(pools[c]).currentBlock \in {pools[c].currentBlock, pools[c].firstBlock}
  <2>1. pools[c] \in PoolType /\ ClassOK(c, pools[c], LiveOf(c)) /\ c \in Nat \ {0} /\ GCQueueSize \in Nat
    BY Typed, ArrayAssumption DEF ClassesOK
  <2>2. QueueSizeOf(c) \in Nat
    BY <2>1, Quotient DEF QueueSizeOf
  <2> QED BY <2>1, <2>2, ClearOK
<1>4. pools' \in [Classes -> PoolType]
  BY <1>1, <1>3
<1>5. ClassesOK'
  <2>1. \A c \in Classes : ClassOK(c, pools'[c], LiveOf(c)')
    BY <1>2, <1>3
  <2> QED BY <2>1 DEF ClassesOK, ClassOK, Carved, Place, Away, QueueSizeOf, Null
<1>6. Owners'
  <2>1. PICK own \in [Blocks -> Classes] : Ownership(own)
    BY DEF Owners
  <2>2. ASSUME NEW c \in Classes PROVE OwnedBy(own, blocks, c, Cleared(pools[c]), {})
    <3>1. OwnedBy(own, blocks, c, pools[c], LiveOf(c))
      BY <2>1 DEF Ownership
    <3> QED BY <1>3, <3>1 DEF OwnedBy
  <2>3. \A c \in Classes : OwnedBy(own, blocks, c, pools'[c], LiveOf(c)')
    BY <1>2, <2>2
  <2>4. blocks' = blocks /\ headers' = headers /\ Linked(own, blocks, headers)
    BY <1>1, <2>1 DEF Ownership
  <2>5. Ownership(own)'
    BY <2>3, <2>4 DEF Ownership, OwnedBy, Linked, Carved, Null, Blocks
  <2> QED BY <2>5, Zenon DEF Owners, Blocks
<1>7. Types'
  BY <1>1, <1>4 DEF Types, Spans, Blocks, PoolType, Addrs
<1>8. IsFiniteSet(live') /\ Cardinality(live') = 0
  BY <1>1, FS_EmptySet
<1>9. Distinct' /\ Counting'
  BY <1>1, <1>8 DEF Distinct, Counting
<1>10. A!Release
  <2>1. A!Cardinality(live') = Cardinality(live')
    BY DEF A!Cardinality, Cardinality
  <2> QED BY <1>1, <1>8, <2>1 DEF A!Release
<1> QED BY <1>5, <1>6, <1>7, <1>9, <1>10

(***************************************************************************)
(* The invariant and what follows from it.                                 *)
(***************************************************************************)

\* A pool that was never used satisfies the invariant.
LEMMA InitPInv ==
    ASSUME Init
    PROVE  PInv
<1>1. Range(<<>>) = {} /\ Len(<<>>) = 0 /\ IsInjective(<<>>) /\ <<>> \in Seq(Addrs)
  BY DEF Range, IsInjective
<1> DEFINE E == [currentBlock |-> Null, firstBlock |-> Null, currentSlot |-> 0, lastSlot |-> 0,
                 freeSlot |-> <<>>, gcQueue |-> <<>>]
<1>2. E \in PoolType
  BY <1>1, ArrayAssumption DEF PoolType, Null
<1>3. Types
  BY <1>2, ArrayAssumption DEF Init, Types, EmptyPool, Null
<1>4. \A c \in Classes : LiveOf(c) = {} /\ pools[c] = E
  BY DEF Init, LiveOf, EmptyPool
<1>5. Carved(E, {}) = {}
  BY <1>1 DEF Carved
<1>6. ASSUME NEW c \in Classes PROVE ClassOK(c, E, {})
  <2>1. QueueSizeOf(c) \in Nat
    <3>1. c \in Nat \ {0} /\ GCQueueSize \in Nat
      BY ArrayAssumption
    <3> QED BY <3>1, Quotient DEF QueueSizeOf
  <2> QED BY <1>1, <1>5, <2>1 DEF ClassOK
<1>7. ClassesOK
  BY <1>4, <1>6 DEF ClassesOK
<1>8. Owners
  <2> DEFINE own == [b \in Blocks |-> 1]
  <2>1. own \in [Blocks -> Classes]
    BY ArrayAssumption
  <2>2. Linked(own, blocks, headers)
    BY DEF Init, Linked
  <2>3. ASSUME NEW c \in Classes PROVE OwnedBy(own, blocks, c, pools[c], LiveOf(c))
    <3>1. E.currentBlock = Null /\ E.firstBlock = Null
      OBVIOUS
    <3> HIDE DEF E, own
    <3>2. OwnedBy(own, blocks, c, E, {})
      BY <1>5, <3>1 DEF OwnedBy
    <3> QED BY <1>4, <3>2
  <2> HIDE DEF own
  <2> QED BY <2>1, <2>2, <2>3 DEF Owners, Ownership
<1>9. Distinct /\ Counting
  BY FS_EmptySet DEF Init, Distinct, Counting
<1> QED BY <1>3, <1>7, <1>8, <1>9 DEF PInv

\* Every step keeps the invariant and is a step of the abstract allocator, or
\* leaves the clients' spans alone.
LEMMA PoolStep ==
    ASSUME Served, PInv, [Next]_vars
    PROVE  PInv' /\ [A!Next]_<<live, held>>
<1>1. ASSUME NEW size \in Sizes,
             \/ ConstructFree(size) \/ ConstructBump(size)
             \/ ConstructReusedBlock(size) \/ ConstructNewBlock(size)
      PROVE  PInv' /\ A!Allocate
  BY <1>1, ConstructFreeStep, ConstructBumpStep, ConstructReusedBlockStep, ConstructNewBlockStep
<1>2. ASSUME NEW p \in live, Destruct(p) \/ Gc(p) PROVE PInv' /\ A!Release
  BY <1>2, DestructStep, GcStep
<1>3. CASE Clear
  BY <1>3, ClearStep DEF A!Next
<1>4. CASE UNCHANGED vars
  <2>1. blocks' = blocks /\ headers' = headers /\ pools' = pools /\ live' = live /\ held' = held
    BY <1>4 DEF vars
  <2>2. \A c \in Classes : LiveOf(c)' = LiveOf(c)
    BY <2>1 DEF LiveOf, Addr, PoolIndex, ClassAbove
  <2>3. ClassesOK'
    BY <2>1, <2>2 DEF PInv, ClassesOK, ClassOK, Carved, Place, Away, QueueSizeOf, Null
  <2>4. Owners'
    <3>1. PICK own \in [Blocks -> Classes] : Ownership(own)
      BY DEF PInv, Owners
    <3>2. Ownership(own)'
      BY <2>1, <2>2, <3>1 DEF Ownership, OwnedBy, Linked, Carved, Null, Blocks
    <3> QED BY <3>2, Zenon DEF Owners, Blocks
  <2>5. Types' /\ Distinct' /\ Counting'
    BY <2>1 DEF PInv, Types, Distinct, Counting, Spans, Blocks, PoolType, Addrs, Addr
  <2> QED BY <2>1, <2>3, <2>4, <2>5 DEF PInv
<1> QED BY <1>1, <1>2, <1>3, <1>4 DEF Next, A!Next

\* The invariant holds throughout, for all block sizes, queue sizes and classes.
THEOREM PoolInvariance ==
    ASSUME Served
    PROVE  Spec => []PInv
<1>1. Init => PInv
  BY InitPInv
<1>2. PInv /\ [Next]_vars => PInv'
  BY PoolStep
<1> QED BY <1>1, <1>2, PTL DEF Spec

\* In a state of the invariant the slots of a class are known by class and address,
\* and two of them are disjoint: within a class they were carved apart, and no
\* block serves two classes.
LEMMA SlotsDisjoint ==
    ASSUME PInv, NEW c \in Classes, NEW d \in Classes,
           NEW a \in Carved(pools[c], LiveOf(c)), NEW e \in Carved(pools[d], LiveOf(d)),
           <<c, a>> # <<d, e>>
    PROVE  A!Disjoint(Span(a[1], a[2], c), Span(e[1], e[2], d))
<1> USE DEF PInv
<1>1. PICK own \in [Blocks -> Classes] : Ownership(own)
  BY DEF Owners
<1>2. CASE c = d
  <2>1. a # e
    BY <1>2
  <2>2. Away(c, a, e)
    BY <1>2, <2>1 DEF ClassesOK, ClassOK
  <2> QED BY <1>2, <2>2 DEF Away, A!Disjoint, Span
<1>3. CASE c # d
  <2>1. own[a[1]] = c /\ own[e[1]] = d
    BY <1>1 DEF Ownership, OwnedBy
  <2>2. a[1] # e[1]
    BY <1>3, <2>1
  <2> QED BY <2>2 DEF A!Disjoint, Span
<1> QED BY <1>2, <1>3

\* The slots free lists and clients hold, each by its class and its address.
LEMMA SlotsOfClasses ==
    ASSUME Served, PInv
    PROVE  /\ \A p \in live : LET c == PoolIndex(p.size) IN
                  /\ c \in Classes /\ Addr(p) \in LiveOf(c)
                  /\ SlotOf(p) = Span(Addr(p)[1], Addr(p)[2], c)
           /\ \A f \in FreeSlots : \E c \in Classes : \E a \in Range(pools[c].freeSlot) : f = Span(a[1], a[2], c)
<1> USE DEF PInv
<1>1. ASSUME NEW p \in live
      PROVE  LET c == PoolIndex(p.size) IN
                  /\ c \in Classes /\ Addr(p) \in LiveOf(c)
                  /\ SlotOf(p) = Span(Addr(p)[1], Addr(p)[2], c)
  <2> DEFINE c == PoolIndex(p.size)
  <2>1. p \in Spans /\ c \in Classes /\ Addr(p) \in LiveOf(c) /\ c \in Nat
    BY Typed
  <2>2. p.size \in Sizes
    BY <2>1 DEF Spans
  <2>3. p.size <= c /\ p.size \in Nat
    BY <2>2, ClassOfSize, ArrayAssumption
  <2>4. SlotOf(p) = [p EXCEPT !.size = c]
    <3>1. ~(p.size > c)
      BY <2>1, <2>3
    <3> QED BY <3>1 DEF SlotOf
  <2> HIDE DEF c
  <2>5. [p EXCEPT !.size = c] = [block |-> p.block, off |-> p.off, size |-> c]
    BY <2>1 DEF Spans
  <2>6. Addr(p)[1] = p.block /\ Addr(p)[2] = p.off
    BY DEF Addr
  <2> QED BY <2>1, <2>4, <2>5, <2>6 DEF Span, c
<1>2. \A f \in FreeSlots : \E c \in Classes : \E a \in Range(pools[c].freeSlot) : f = Span(a[1], a[2], c)
  BY DEF FreeSlots
<1> QED BY <1>1, <1>2

\* The free lists are sound: no slot is free twice, none is free and held, and no
\* two slots overlap, of whatever classes.
THEOREM FreeListsAreSound ==
    ASSUME Served
    PROVE  Spec => []FreeListsSound
<1>1. ASSUME PInv PROVE FreeListsSound
  <2> USE <1>1
  <2> DEFINE H == {SlotOf(p) : p \in live}
             all == FreeSlots \cup H
  <2>1. \A c \in Classes : IsInjective(pools[c].freeSlot)
    BY DEF PInv, ClassesOK, ClassOK
  <2>2. ASSUME NEW s \in all
        PROVE  \E c \in Classes : \E a \in Carved(pools[c], LiveOf(c)) : s = Span(a[1], a[2], c)
    BY SlotsOfClasses DEF Carved
  <2>3. ASSUME NEW s \in all, NEW t \in all, s # t PROVE A!Disjoint(s, t)
    <3>1. PICK c \in Classes : \E a \in Carved(pools[c], LiveOf(c)) : s = Span(a[1], a[2], c)
      BY <2>2
    <3>2. PICK a \in Carved(pools[c], LiveOf(c)) : s = Span(a[1], a[2], c)
      BY <3>1
    <3>3. PICK d \in Classes : \E e \in Carved(pools[d], LiveOf(d)) : t = Span(e[1], e[2], d)
      BY <2>2
    <3>4. PICK e \in Carved(pools[d], LiveOf(d)) : t = Span(e[1], e[2], d)
      BY <3>3
    <3>5. c # d \/ a # e
      BY <2>3, <3>2, <3>4
    <3>6. <<c, a>> # <<d, e>>
      BY <3>5
    <3> QED BY <3>2, <3>4, <3>6, SlotsDisjoint
  <2>4. FreeSlots \cap H = {}
    <3> SUFFICES ASSUME NEW p \in live, SlotOf(p) \in FreeSlots PROVE FALSE
      OBVIOUS
    <3> DEFINE d == PoolIndex(p.size)
               e == Addr(p)
    <3>1. d \in Classes /\ e \in LiveOf(d) /\ SlotOf(p) = Span(e[1], e[2], d)
      BY SlotsOfClasses
    <3>2. PICK c \in Classes : \E a \in Range(pools[c].freeSlot) : SlotOf(p) = Span(a[1], a[2], c)
      BY SlotsOfClasses
    <3>3. PICK a \in Range(pools[c].freeSlot) : SlotOf(p) = Span(a[1], a[2], c)
      BY <3>2
    <3>4. c = d /\ a[1] = e[1] /\ a[2] = e[2]
      BY <3>1, <3>3 DEF Span
    <3>5. pools[c].freeSlot \in Seq(Addrs) /\ LiveOf(d) \in SUBSET Addrs
      BY <3>1, Typed DEF PInv, PoolType
    <3>6. a \in Addrs /\ e \in Addrs
      BY <3>1, <3>3, <3>5, RangeOf
    <3>7. a = e
      BY <3>4, <3>6 DEF Addrs
    <3>8. Range(pools[c].freeSlot) \cap LiveOf(c) = {}
      BY DEF PInv, ClassesOK, ClassOK
    <3> QED BY <3>1, <3>3, <3>4, <3>7, <3>8
  <2> HIDE DEF H
  <2>5. \A s, t \in all : s # t => A!Disjoint(s, t)
    BY <2>3
  <2> QED BY <2>1, <2>4, <2>5 DEF FreeListsSound, H
<1>2. Spec => []PInv
  BY PoolInvariance
<1> QED BY <1>1, <1>2, PTL

\* The queue never overflows, and what is queued is queued once and still held.
THEOREM QueuesStayInBounds ==
    ASSUME Served
    PROVE  Spec => []QueueInBounds
<1>1. ASSUME PInv PROVE QueueInBounds
  <2>1. ASSUME NEW c \in Classes
        PROVE  /\ Len(pools[c].gcQueue) <= QueueSizeOf(c) /\ IsInjective(pools[c].gcQueue)
               /\ Range(pools[c].gcQueue) \subseteq LiveOf(c)
    BY <1>1 DEF PInv, ClassesOK, ClassOK
  <2>2. \A c \in Classes : LiveOf(c) \subseteq {<<p.block, p.off>> : p \in live}
    BY Zenon DEF LiveOf, Addr
  <2>3. \A c \in Classes : Range(pools[c].gcQueue) \subseteq {<<p.block, p.off>> : p \in live}
    BY <2>1, <2>2, Zenon
  <2> QED BY <2>1, <2>3 DEF QueueInBounds
<1>2. Spec => []PInv
  BY PoolInvariance
<1> QED BY <1>1, <1>2, PTL

\* PoolArray implements the abstract allocator: it starts without spans, and every
\* step hands out a span that overlaps none held, releases spans, or changes
\* nothing a client can see.
THEOREM RefinesAllocator ==
    ASSUME Served
    PROVE  Spec => ImplementsAllocator
<1>1. Init => A!Init
  BY DEF Init, A!Init
<1>2. PInv /\ [Next]_vars => [A!Next]_<<live, held>>
  BY PoolStep
<1>3. Spec => []PInv
  BY PoolInvariance
<1> QED BY <1>1, <1>2, <1>3, PTL DEF Spec, ImplementsAllocator, A!Spec
=============================================================================
