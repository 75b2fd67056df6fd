-------------------------- MODULE RefCountsProofs ---------------------------
(***************************************************************************)
(* Proofs about RefCounts for any number of types, holders and members and *)
(* any size of the queue: the counter of a type is the number of its       *)
(* owners in the middle of a recursive gc() too, nothing that has an owner *)
(* is collected, nothing is collected twice, and what nobody owns any more *)
(* is collected.                                                           *)
(***************************************************************************)
EXTENDS RefCounts, ListLemmas

(***************************************************************************)
(* The inductive invariant.  The properties say nothing about the calls of *)
(* gc() that are under way, and whether the next one finds its type still  *)
(* alive depends on them.                                                  *)
(***************************************************************************)

\* The variables have their types; no list is longer than the bound.
TypeOK ==
    /\ state \in [Types -> {"free", "live", "deleted"}]
    /\ kind \in [Types -> Kinds]
    /\ members \in [Types -> Seq(Types)]
    /\ released \in [Types -> Nat]
    /\ refCount \in [Types -> Nat]
    /\ holds \in [Holders -> Types \cup {Null}]
    /\ temps \in SUBSET Types
    /\ gcQueue \in Seq(Types)
    /\ todo \in Seq(Tasks)
    /\ thrown = FALSE
    /\ \A t \in Types : released[t] <= Len(members[t]) /\ Len(members[t]) <= MaxMembers

\* What has an owner lives; a temp lives and has none.
Alive == /\ \A t \in Types : refCount[t] > 0 => state[t] = "live"
         /\ \A t \in temps : state[t] = "live" /\ refCount[t] = 0

\* A call or a loop of gc() is active.
Active(x) == \E i \in 1..Len(todo) : todo[i] = x

\* A living type without owner is in the hands of a client or about to be collected.
Pending == \A t \in Types : state[t] = "live" /\ refCount[t] = 0 => t \in temps \/ Active(Call(t))

\* A call that is about to start finds its type owned, or alive and in no hand.  It
\* is the innermost one, or that for the type of a property while the call for the
\* name, a leaf, is the innermost one.
Calls ==
    \A i \in 1..Len(todo) : todo[i].op = "gc" =>
        /\ refCount[todo[i].type] = 0 => state[todo[i].type] = "live" /\ todo[i].type \notin temps
        /\ i # Len(todo) => /\ i = Len(todo) - 1 /\ Top.op = "gc"
                            /\ kind[Top.type] = "Leaf" /\ Top.type # todo[i].type

\* gc() loops over the members of a type once, after collecting it, and while a
\* collected type still owns a member its loop is active.
Loops ==
    /\ \A i \in 1..Len(todo) : todo[i].op = "loop" =>
          state[todo[i].type] # "live" /\ kind[todo[i].type] = "Members"
    /\ \A i, j \in 1..Len(todo) : todo[i].op = "loop" /\ todo[i] = todo[j] => i = j
    /\ \A p \in Types : state[p] # "live" /\ released[p] < Len(members[p]) => Active(Loop(p))

\* A living type owns all of its members; a leaf has none, a property a leaf and
\* another type.
Shape ==
    \A p \in Types : /\ kind[p] = "Leaf" => members[p] = <<>>
                     /\ state[p] = "live" => released[p] = 0
                     /\ state[p] = "live" /\ kind[p] = "Property" =>
                           /\ Len(members[p]) = 2 /\ members[p][1] # members[p][2]
                           /\ kind[members[p][1]] = "Leaf"

\* The queue holds what is deleted, once.
Queue == /\ IsInjective(gcQueue) /\ Len(gcQueue) <= GCQueueSize
         /\ Range(gcQueue) = {t \in Types : state[t] = "deleted"}

\* No type owns itself, directly or through others: in every set of types there is
\* one that the set does not own.
Acyclic ==
    \A S \in SUBSET Types : S # {} =>
        \E t \in S : \A p \in S, i \in 1..MaxMembers : Owned(p, i) => members[p][i] # t

IInv == TypeOK /\ OwnersCounted /\ Alive /\ Pending /\ Calls /\ Loops /\ Shape /\ Queue /\ Acyclic

(***************************************************************************)
(* Counting owners.                                                        *)
(***************************************************************************)

\* The bounds of the model as numbers.
LEMMA Bounds == MaxMembers \in Nat /\ 1 \in 1..MaxMembers /\ 2 \in 1..MaxMembers /\ GCQueueSize \in Nat
BY RefCountsAssumption

\* A type has finitely many owners.
LEMMA FinitelyMany ==
    ASSUME NEW t
    PROVE  /\ IsFiniteSet(MemberOwners(t)) /\ Cardinality(MemberOwners(t)) \in Nat
           /\ IsFiniteSet(HolderOwners(t)) /\ Cardinality(HolderOwners(t)) \in Nat
<1>1. IsFiniteSet(1..MaxMembers)
  BY Bounds, FS_Interval
<1>2. IsFiniteSet(Types \X (1..MaxMembers))
  BY <1>1, RefCountsAssumption, FS_Product
<1>3. IsFiniteSet(MemberOwners(t))
  BY <1>2, FS_Subset DEF MemberOwners
<1>4. IsFiniteSet(HolderOwners(t))
  BY RefCountsAssumption, FS_Subset DEF HolderOwners
<1> QED BY <1>3, <1>4, FS_CardinalityType

\* An owned member has a count, and so has a type in the hands of a holder.
LEMMA OwnerMeansCount ==
    ASSUME IInv
    PROVE  /\ \A p \in Types, i \in 1..MaxMembers : Owned(p, i) =>
                 /\ members[p][i] \in Types /\ refCount[members[p][i]] > 0
                 /\ state[members[p][i]] = "live"
           /\ \A h \in Holders : holds[h] # Null =>
                 /\ holds[h] \in Types /\ refCount[holds[h]] > 0 /\ state[holds[h]] = "live"
           /\ \A t \in Types : refCount[t] = 0 => MemberOwners(t) = {} /\ HolderOwners(t) = {}
<1>1. ASSUME NEW t \in Types, refCount[t] = 0 PROVE MemberOwners(t) = {} /\ HolderOwners(t) = {}
  <2>1. Cardinality(MemberOwners(t)) = 0 /\ Cardinality(HolderOwners(t)) = 0
    BY <1>1, FinitelyMany DEF IInv, OwnersCounted
  <2> QED BY <2>1, FinitelyMany, FS_EmptySet
<1>2. ASSUME NEW p \in Types, NEW i \in 1..MaxMembers, Owned(p, i)
      PROVE  /\ members[p][i] \in Types /\ refCount[members[p][i]] > 0
             /\ state[members[p][i]] = "live"
  <2>1. members[p] \in Seq(Types) /\ released[p] \in Nat /\ i \in 1..Len(members[p])
    BY <1>2, Bounds DEF IInv, TypeOK, Owned
  <2>2. members[p][i] \in Types
    BY <2>1
  <2>3. <<p, i>> \in MemberOwners(members[p][i])
    BY <1>2 DEF MemberOwners
  <2>4. refCount[members[p][i]] # 0
    BY <1>1, <2>2, <2>3
  <2>5. refCount[members[p][i]] \in Nat
    BY <2>2 DEF IInv, TypeOK
  <2> QED BY <2>2, <2>4, <2>5 DEF IInv, Alive
<1>3. ASSUME NEW h \in Holders, holds[h] # Null
      PROVE  holds[h] \in Types /\ refCount[holds[h]] > 0 /\ state[holds[h]] = "live"
  <2>1. holds[h] \in Types
    BY <1>3 DEF IInv, TypeOK
  <2>2. h \in HolderOwners(holds[h])
    BY DEF HolderOwners
  <2>3. refCount[holds[h]] # 0
    BY <1>1, <2>1, <2>2
  <2>4. refCount[holds[h]] \in Nat
    BY <2>1 DEF IInv, TypeOK
  <2> QED BY <2>1, <2>3, <2>4 DEF IInv, Alive
<1> QED BY <1>1, <1>2, <1>3

\* Between two OPs a slot that is free or queued owns nothing and nobody owns it.
LEMMA IdleSlots ==
    ASSUME IInv, Idle, NEW t \in Types, state[t] # "live"
    PROVE  /\ refCount[t] = 0 /\ released[t] = Len(members[t])
           /\ \A i : ~Owned(t, i) \/ i \notin Nat
           /\ MemberOwners(t) = {} /\ HolderOwners(t) = {}
<1>1. refCount[t] = 0
  BY DEF IInv, TypeOK, Alive
<1>2. released[t] = Len(members[t])
  <2>1. 1..Len(todo) = {}
    BY DEF Idle
  <2>2. ~Active(Loop(t))
    BY <2>1 DEF Active
  <2>3. released[t] \in Nat /\ Len(members[t]) \in Nat /\ released[t] <= Len(members[t])
    BY DEF IInv, TypeOK
  <2> QED BY <2>2, <2>3 DEF IInv, Loops
<1>3. \A i : ~Owned(t, i) \/ i \notin Nat
  BY <1>2 DEF IInv, TypeOK, Owned
<1> QED BY <1>1, <1>2, <1>3, OwnerMeansCount

\* Steps that leave members and holders alone leave the owners alone.
LEMMA SameOwners ==
    ASSUME UNCHANGED <<members, released, holds>>, NEW t
    PROVE  MemberOwners(t)' = MemberOwners(t) /\ HolderOwners(t)' = HolderOwners(t)
BY DEF MemberOwners, HolderOwners, Owned

\* Giving up members, or owning none, keeps the heap free of cycles.
LEMMA FewerEdges ==
    ASSUME Acyclic,
           \A p \in Types, i \in 1..MaxMembers : Owned(p, i)' => Owned(p, i) /\ members'[p][i] = members[p][i]
    PROVE  Acyclic'
<1> SUFFICES ASSUME NEW S \in SUBSET Types, S # {}
             PROVE  \E t \in S : \A p \in S, i \in 1..MaxMembers : Owned(p, i)' => members'[p][i] # t
  BY DEF Acyclic
<1>1. PICK t \in S : \A p \in S, i \in 1..MaxMembers : Owned(p, i) => members[p][i] # t
  BY DEF Acyclic
<1> QED BY <1>1

\* An empty heap satisfies the invariant.
LEMMA InitInv == Init => IInv
<1> SUFFICES ASSUME Init PROVE IInv
  OBVIOUS
<1>1. TypeOK
  BY Bounds DEF Init, TypeOK, Kinds
<1>2. \A p \in Types, i \in 1..MaxMembers : ~Owned(p, i)
  BY DEF Init, Owned
<1>3. OwnersCounted
  <2>1. ASSUME NEW t \in Types PROVE MemberOwners(t) = {} /\ HolderOwners(t) = {}
    BY <1>2, RefCountsAssumption DEF MemberOwners, HolderOwners, Init
  <2>2. ASSUME NEW t \in Types
        PROVE  Cardinality(MemberOwners(t)) = 0 /\ Cardinality(HolderOwners(t)) = 0
    BY <2>1, FS_EmptySet, Zenon
  <2>3. ASSUME NEW t \in Types
        PROVE  refCount[t] = Cardinality(MemberOwners(t)) + Cardinality(HolderOwners(t))
    BY <2>2 DEF Init
  <2> QED BY <2>3 DEF OwnersCounted
<1>4. 1..Len(todo) = {} /\ Range(gcQueue) = {}
  BY DEF Init, Range
<1>5. Alive /\ Pending /\ Calls /\ Shape
  BY <1>4 DEF Init, Alive, Pending, Calls, Shape
<1>6. Loops
  BY <1>4 DEF Init, Loops
<1>7. Queue
  <2>1. IsInjective(gcQueue) /\ Len(gcQueue) <= GCQueueSize
    BY RefCountsAssumption DEF Init, IsInjective
  <2> QED BY <1>4, <2>1 DEF Init, Queue
<1>8. Acyclic
  BY <1>2 DEF Acyclic
<1> QED BY <1>1, <1>3, <1>5, <1>6, <1>7, <1>8 DEF IInv

(***************************************************************************)
(* Every step keeps the invariant, one lemma per action.  First the OPs.   *)
(***************************************************************************)

\* The edges after construct(): those of the new type are added.
LEMMA ConstructEdges ==
    ASSUME IInv, Idle, NEW t \in Types, NEW k \in Kinds, NEW ms \in Seq(Types), Len(ms) <= MaxMembers,
           Construct(t, k, ms)
    PROVE  /\ \A p \in Types \ {t}, i \in 1..MaxMembers :
                 (Owned(p, i)' <=> Owned(p, i)) /\ members'[p][i] = members[p][i]
           /\ \A i \in 1..MaxMembers : ~Owned(t, i) /\ (Owned(t, i)' <=> i <= Len(ms))
           /\ members'[t] = ms /\ state'[t] = "live" /\ kind'[t] = k /\ released'[t] = 0
           /\ \A p \in Types \ {t} : /\ members'[p] = members[p] /\ state'[p] = state[p]
                                     /\ kind'[p] = kind[p] /\ released'[p] = released[p]
<1>1. state[t] # "live"
  BY DEF Construct
<1>2. \A i \in 1..MaxMembers : ~Owned(t, i)
  BY <1>1, IdleSlots, Bounds
<1>3. /\ members'[t] = ms /\ state'[t] = "live" /\ kind'[t] = k /\ released'[t] = 0
      /\ \A p \in Types \ {t} : /\ members'[p] = members[p] /\ state'[p] = state[p]
                                /\ kind'[p] = kind[p] /\ released'[p] = released[p]
  BY DEF Construct, IInv, TypeOK
<1>4. \A p \in Types \ {t}, i \in 1..MaxMembers :
         (Owned(p, i)' <=> Owned(p, i)) /\ members'[p][i] = members[p][i]
  BY <1>3 DEF Owned
<1>5. \A i \in 1..MaxMembers : Owned(t, i)' <=> i <= Len(ms)
  BY <1>3, Bounds DEF Owned
<1> QED BY <1>2, <1>3, <1>4, <1>5

\* A new type that nobody owns cannot close a cycle.
LEMMA ConstructAcyclic ==
    ASSUME IInv, Idle, NEW t \in Types, NEW k \in Kinds, NEW ms \in Seq(Types), Len(ms) <= MaxMembers,
           Construct(t, k, ms), \A i \in 1..Len(ms) : ms[i] # t
    PROVE  Acyclic'
<1> SUFFICES ASSUME NEW S \in SUBSET Types, S # {}
             PROVE  \E u \in S : \A p \in S, i \in 1..MaxMembers : Owned(p, i)' => members'[p][i] # u
  BY DEF Acyclic
<1>1. MemberOwners(t) = {} /\ state[t] # "live"
  BY IdleSlots DEF Construct
<1>2. \A p \in Types, i \in 1..MaxMembers : Owned(p, i)' => members'[p][i] # t
  <2>1. ASSUME NEW p \in Types, NEW i \in 1..MaxMembers, Owned(p, i)' PROVE members'[p][i] # t
    <3>1. CASE p = t
      BY <2>1, <3>1, ConstructEdges
    <3>2. CASE p # t
      <4>1. Owned(p, i) /\ members'[p][i] = members[p][i]
        BY <2>1, <3>2, ConstructEdges
      <4>2. <<p, i>> \in MemberOwners(members[p][i])
        BY <4>1 DEF MemberOwners
      <4> QED BY <1>1, <4>1, <4>2
    <3> QED BY <3>1, <3>2
  <2> QED BY <2>1
<1>3. CASE t \in S
  BY <1>2, <1>3
<1>4. CASE t \notin S
  <2>1. PICK u \in S : \A p \in S, i \in 1..MaxMembers : Owned(p, i) => members[p][i] # u
    BY DEF IInv, Acyclic
  <2>2. \A p \in S, i \in 1..MaxMembers : Owned(p, i)' => Owned(p, i) /\ members'[p][i] = members[p][i]
    BY <1>4, ConstructEdges
  <2>3. \A p \in S, i \in 1..MaxMembers : Owned(p, i)' => members'[p][i] # u
    <3> SUFFICES ASSUME NEW p \in S, NEW i \in 1..MaxMembers, Owned(p, i)' PROVE members'[p][i] # u
      OBVIOUS
    <3>1. Owned(p, i) /\ members'[p][i] = members[p][i]
      BY <2>2
    <3> QED BY <2>1, <3>1
  <2> QED BY <2>3
<1> QED BY <1>3, <1>4

\* allocate()
LEMMA AllocateInv ==
    ASSUME IInv, NEW t \in Types, NEW k \in {"Leaf", "Members"}, Allocate(t, k)
    PROVE  IInv'
<1> DEFINE none == <<>>
<1>1. /\ Idle /\ Construct(t, k, none) /\ k \in Kinds /\ none \in Seq(Types)
      /\ Len(none) = 0 /\ Len(none) <= MaxMembers /\ state[t] = "free"
  BY Bounds DEF Allocate, Construct, Kinds
<1>0. none = <<>> /\ \A p \in Types : released[p] \in Nat
  BY DEF IInv, TypeOK
<1> HIDE DEF none
<1>2. /\ refCount' = refCount /\ refCount[t] = 0 /\ MemberOwners(t) = {}
  <2>1. refCount[t] = 0 /\ MemberOwners(t) = {}
    BY <1>1, IdleSlots
  <2> QED BY <2>1 DEF Allocate, IInv, TypeOK
<1>3. /\ \A p \in Types \ {t} : /\ members'[p] = members[p] /\ state'[p] = state[p]
                                /\ kind'[p] = kind[p] /\ released'[p] = released[p]
      /\ members'[t] = none /\ state'[t] = "live" /\ kind'[t] = k /\ released'[t] = 0
      /\ temps' = temps \cup {t} /\ todo' = <<>> /\ todo = <<>>
      /\ UNCHANGED <<holds, gcQueue, thrown>>
  BY <1>1, ConstructEdges DEF Allocate, Idle
<1>4. TypeOK'
  <2>1. /\ state' \in [Types -> {"free", "live", "deleted"}] /\ kind' \in [Types -> Kinds]
        /\ members' \in [Types -> Seq(Types)] /\ released' \in [Types -> Nat]
    BY <1>1 DEF Construct, IInv, TypeOK
  <2>2. todo' \in Seq(Tasks) /\ temps' \in SUBSET Types
    BY <1>3 DEF IInv, TypeOK
  <2>3. \A u \in Types : released'[u] <= Len(members'[u]) /\ Len(members'[u]) <= MaxMembers
    <3>1. \A u \in Types : released[u] <= Len(members[u]) /\ Len(members[u]) <= MaxMembers
      BY DEF IInv, TypeOK
    <3>2. released'[t] <= Len(members'[t]) /\ Len(members'[t]) <= MaxMembers
      BY <1>1, <1>3
    <3> QED BY <1>3, <3>1, <3>2
  <2> QED BY <1>2, <1>3, <2>1, <2>2, <2>3 DEF IInv, TypeOK
<1>5. OwnersCounted'
  <2>1. ASSUME NEW u \in Types PROVE MemberOwners(u)' = MemberOwners(u) /\ HolderOwners(u)' = HolderOwners(u)
    <3>1. \A p \in Types, i \in 1..MaxMembers :
             (Owned(p, i)' <=> Owned(p, i)) /\ (Owned(p, i) => members'[p][i] = members[p][i])
      <4>1. \A i \in 1..MaxMembers : ~Owned(t, i) /\ ~Owned(t, i)'
        <5>1. \A i \in 1..MaxMembers : ~Owned(t, i) /\ (Owned(t, i)' <=> i <= Len(none))
          BY <1>1, ConstructEdges
        <5> QED BY <1>1, <5>1, Bounds
      <4>2. \A p \in Types \ {t}, i \in 1..MaxMembers :
               (Owned(p, i)' <=> Owned(p, i)) /\ members'[p][i] = members[p][i]
        BY <1>1, ConstructEdges
      <4> QED BY <4>1, <4>2
    <3>2. MemberOwners(u)' = MemberOwners(u)
      BY <3>1 DEF MemberOwners
    <3> QED BY <1>3, <3>2 DEF HolderOwners
  <2> QED BY <1>2, <2>1 DEF IInv, OwnersCounted
<1>6. Alive'
  BY <1>2, <1>3 DEF IInv, TypeOK, Alive
<1>7. Pending'
  <2>1. \A u \in Types \ {t} : state[u] = "live" /\ refCount[u] = 0 => u \in temps
    BY <1>3 DEF IInv, Pending, Active
  <2> QED BY <1>2, <1>3, <2>1 DEF Pending
<1>8. Calls'
  BY <1>3 DEF Calls
<1>9. Loops'
  <2>1. \A p \in Types : state[p] # "live" => released[p] = Len(members[p])
    BY <1>1, IdleSlots
  <2>2. ASSUME NEW p \in Types, state'[p] # "live" PROVE released'[p] = Len(members'[p])
    BY <1>3, <2>1, <2>2
  <2>3. \A p \in Types : released'[p] \in Nat
    BY <1>4 DEF TypeOK
  <2> QED BY <1>3, <2>2, <2>3 DEF Loops
<1>10. Shape'
  <2>1. ASSUME NEW p \in Types, state[p] = "live", kind[p] = "Property"
        PROVE  members[p][1] \in Types \ {t}
    <3>1. Owned(p, 1)
      BY <2>1 DEF IInv, Shape, Owned
    <3> QED BY <1>1, <3>1, Bounds, OwnerMeansCount
  <2> QED BY <1>0, <1>3, <2>1 DEF IInv, Shape
<1>11. Queue'
  <2>1. t \notin {u \in Types : state[u] = "deleted"} /\ t \notin {u \in Types : state'[u] = "deleted"}
    BY <1>1, <1>3
  <2>2. {u \in Types : state'[u] = "deleted"} = {u \in Types : state[u] = "deleted"}
    BY <1>3, <2>1
  <2> QED BY <1>3, <2>2 DEF IInv, Queue
<1>12. Acyclic'
  <2>1. \A i \in 1..Len(none) : none[i] # t
    BY <1>1
  <2> QED BY <1>1, <2>1, ConstructAcyclic
<1> QED BY <1>4, <1>5, <1>6, <1>7, <1>8, <1>9, <1>10, <1>11, <1>12 DEF IInv

\* What holds between two OPs.
LEMMA IdleFacts ==
    ASSUME IInv, Idle
    PROVE  /\ todo = <<>>
           /\ \A t \in Types : state[t] = "live" /\ refCount[t] = 0 => t \in temps
           /\ \A t \in Types : state[t] # "live" => released[t] = Len(members[t])
           /\ \A t \in Types : InHand(t) => state[t] = "live"
<1>1. todo = <<>> /\ 1..Len(todo) = {}
  BY DEF Idle
<1>2. \A t \in Types : state[t] = "live" /\ refCount[t] = 0 => t \in temps
  BY <1>1 DEF IInv, Pending, Active
<1>3. \A t \in Types : state[t] # "live" => released[t] = Len(members[t])
  BY IdleSlots
<1>4. \A t \in Types : InHand(t) => state[t] = "live"
  BY DEF IInv, Alive, InHand
<1> QED BY <1>1, <1>2, <1>3, <1>4

\* The innermost call alone, or none.
LEMMA OneCall ==
    ASSUME NEW t \in Types, todo' = <<Call(t)>> \/ todo' = <<>>
    PROVE  /\ todo' \in Seq(Tasks)
           /\ todo' = <<Call(t)>> => Active(Call(t))'
           /\ \A i \in 1..Len(todo') : i = Len(todo') /\ todo'[i] = Call(t) /\ todo'[i].op = "gc" /\ todo'[i].type = t
<1>1. Call(t) \in Tasks /\ Call(t).op = "gc" /\ Call(t).type = t
  BY DEF Call, Tasks
<1>2. CASE todo' = <<>>
  <2>1. <<Call(t)>> # <<>>
    OBVIOUS
  <2> QED BY <1>2, <2>1
<1>3. CASE todo' = <<Call(t)>>
  <2>1. Len(todo') = 1 /\ todo'[1] = Call(t) /\ todo' \in Seq(Tasks) /\ 1 \in 1..Len(todo')
    BY <1>1, <1>3
  <2>2. Active(Call(t))'
    BY <2>1 DEF Active
  <2> QED BY <1>1, <2>1, <2>2
<1> QED BY <1>2, <1>3

\* An OP that changes no type, and calls gc() at most once at its end.
LEMMA ClientStep ==
    ASSUME IInv, Idle, UNCHANGED <<heap, gcQueue, thrown>>,
           NEW t \in Types, todo' = <<Call(t)>> \/ todo' = <<>>,
           refCount' \in [Types -> Nat], holds' \in [Holders -> Types \cup {Null}], temps' \in SUBSET Types,
           OwnersCounted', Alive',
           \A u \in Types : state[u] = "live" /\ refCount'[u] = 0 =>
                u \in temps' \/ (u = t /\ todo' = <<Call(t)>>),
           todo' = <<Call(t)>> /\ refCount'[t] = 0 => state[t] = "live" /\ t \notin temps'
    PROVE  IInv'
<1>1. /\ todo' \in Seq(Tasks)
      /\ todo' = <<Call(t)>> => Active(Call(t))'
      /\ \A i \in 1..Len(todo') : i = Len(todo') /\ todo'[i] = Call(t) /\ todo'[i].op = "gc" /\ todo'[i].type = t
  BY OneCall
<1>2. UNCHANGED <<state, kind, members, released>>
  BY DEF heap
<1>3. TypeOK'
  BY <1>1, <1>2 DEF IInv, TypeOK
<1>4. Pending'
  BY <1>1, <1>2 DEF Pending
<1>5. Calls'
  <2>1. \A i \in 1..Len(todo') : todo' # <<>>
    OBVIOUS
  <2> QED BY <1>1, <1>2, <2>1 DEF Calls
<1>6. Loops'
  <2>1. \A p \in Types : state[p] # "live" => ~(released[p] < Len(members[p]))
    <3>1. \A p \in Types : released[p] \in Nat
      BY DEF IInv, TypeOK
    <3> QED BY <3>1, IdleFacts
  <2> QED BY <1>1, <1>2, <2>1 DEF Loops
<1>7. Shape' /\ Queue'
  BY <1>2 DEF IInv, Shape, Queue
<1>8. Acyclic'
  <2>1. \A p, i : Owned(p, i)' <=> Owned(p, i)
    BY <1>2 DEF Owned
  <2> QED BY <1>2, <2>1, FewerEdges DEF IInv
<1> QED BY <1>3, <1>4, <1>5, <1>6, <1>7, <1>8 DEF IInv

\* A holder that takes a type is one more owner.
LEMMA UseInv ==
    ASSUME IInv, NEW h \in Holders, NEW t \in Types, Use(h, t)
    PROVE  IInv'
<1>1. /\ Idle /\ holds[h] = Null /\ InHand(t) /\ UNCHANGED <<heap, gcQueue, todo, thrown>>
      /\ holds' = [holds EXCEPT ![h] = t] /\ refCount' = [refCount EXCEPT ![t] = @ + 1]
      /\ temps' = temps \ {t} /\ todo' = <<>> /\ state' = state /\ UNCHANGED <<members, released>>
  BY DEF Use, Idle, heap
<1>2. refCount \in [Types -> Nat] /\ holds \in [Holders -> Types \cup {Null}] /\ temps \in SUBSET Types /\ Null \notin Types
  BY RefCountsAssumption DEF IInv, TypeOK
<1>3. state[t] = "live"
  BY <1>1, IdleFacts
<1>4. /\ refCount' \in [Types -> Nat] /\ holds' \in [Holders -> Types \cup {Null}] /\ temps' \in SUBSET Types
      /\ refCount'[t] = refCount[t] + 1 /\ \A u \in Types \ {t} : refCount'[u] = refCount[u]
  BY <1>1, <1>2
<1>5. OwnersCounted'
  <2>1. ASSUME NEW u \in Types PROVE MemberOwners(u)' = MemberOwners(u)
    BY <1>1 DEF MemberOwners, Owned
  <2>2. HolderOwners(t)' = HolderOwners(t) \cup {h} /\ h \notin HolderOwners(t)
    BY <1>1, <1>2 DEF HolderOwners
  <2>3. ASSUME NEW u \in Types \ {t} PROVE HolderOwners(u)' = HolderOwners(u)
    BY <1>1, <1>2 DEF HolderOwners
  <2>4. Cardinality(HolderOwners(t)') = Cardinality(HolderOwners(t)) + 1
    BY <2>2, FinitelyMany, FS_AddElement
  <2>5. ASSUME NEW u \in Types
        PROVE  refCount'[u] = Cardinality(MemberOwners(u)') + Cardinality(HolderOwners(u)')
    <3>1. refCount[u] = Cardinality(MemberOwners(u)) + Cardinality(HolderOwners(u))
      BY DEF IInv, OwnersCounted
    <3>2. CASE u = t
      BY <1>4, <2>1, <2>4, <3>1, <3>2, FinitelyMany
    <3>3. CASE u # t
      BY <1>4, <2>1, <2>3, <3>1, <3>3
    <3> QED BY <3>2, <3>3
  <2> QED BY <2>5 DEF OwnersCounted
<1>6. Alive'
  BY <1>1, <1>2, <1>3, <1>4 DEF IInv, Alive
<1>7. \A u \in Types : state[u] = "live" /\ refCount'[u] = 0 => u \in temps'
  BY <1>1, <1>2, <1>4, IdleFacts
<1>8. todo' # <<Call(t)>>
  BY <1>1
<1> QED BY <1>1, <1>4, <1>5, <1>6, <1>7, <1>8, ClientStep

\* A holder that lets go, by drop() or in Return, is one owner less.
LEMMA LetGo ==
    ASSUME IInv, NEW h \in Holders, NEW t, t = holds[h], t # Null, UNCHANGED <<members, released>>,
           holds' = [holds EXCEPT ![h] = Null],
           refCount' = [refCount EXCEPT ![t] = @ - 1]
    PROVE  /\ OwnersCounted'
           /\ refCount' \in [Types -> Nat] /\ holds' \in [Holders -> Types \cup {Null}]
           /\ t \in Types /\ refCount[t] > 0 /\ state[t] = "live"
           /\ refCount'[t] = refCount[t] - 1
           /\ \A u \in Types \ {t} : refCount'[u] = refCount[u]
<1>1. refCount \in [Types -> Nat] /\ holds \in [Holders -> Types \cup {Null}] /\ Null \notin Types
  BY RefCountsAssumption DEF IInv, TypeOK
<1>2. t \in Types /\ refCount[t] > 0 /\ state[t] = "live"
  BY OwnerMeansCount
<1>3. h \in HolderOwners(t)
  BY DEF HolderOwners
<1>4. HolderOwners(t)' = HolderOwners(t) \ {h}
  BY <1>1, <1>2 DEF HolderOwners
<1>5. ASSUME NEW u \in Types, u # t PROVE HolderOwners(u)' = HolderOwners(u)
  BY <1>1, <1>5 DEF HolderOwners
<1>6. /\ refCount' \in [Types -> Nat] /\ holds' \in [Holders -> Types \cup {Null}]
      /\ refCount'[t] = refCount[t] - 1 /\ \A u \in Types \ {t} : refCount'[u] = refCount[u]
  BY <1>1, <1>2
<1>7. ASSUME NEW u \in Types PROVE MemberOwners(u)' = MemberOwners(u)
  BY DEF MemberOwners, Owned
<1>8. Cardinality(HolderOwners(t)') = Cardinality(HolderOwners(t)) - 1
  BY <1>3, <1>4, FinitelyMany, FS_RemoveElement
<1>9. ASSUME NEW u \in Types
      PROVE  refCount'[u] = Cardinality(MemberOwners(u)') + Cardinality(HolderOwners(u)')
  <2>1. refCount[u] = Cardinality(MemberOwners(u)) + Cardinality(HolderOwners(u))
    BY DEF IInv, OwnersCounted
  <2>2. CASE u = t
    BY <1>6, <1>7, <1>8, <2>1, <2>2, FinitelyMany
  <2>3. CASE u # t
    BY <1>5, <1>6, <1>7, <2>1, <2>3
  <2> QED BY <2>2, <2>3
<1> QED BY <1>2, <1>6, <1>9 DEF OwnersCounted

\* drop()
LEMMA DropInv ==
    ASSUME IInv, NEW h \in Holders, Drop(h)
    PROVE  IInv'
<1>0. PICK t : t = holds[h]
  OBVIOUS
<1>1. /\ Idle /\ t # Null /\ UNCHANGED <<heap, temps, gcQueue, thrown>>
      /\ holds' = [holds EXCEPT ![h] = Null]
      /\ refCount' = [refCount EXCEPT ![t] = IF @ = 0 THEN @ ELSE @ - 1]
      /\ todo' = (IF refCount[t] = 1 THEN <<Call(t)>> ELSE <<>>)
      /\ state' = state /\ UNCHANGED <<members, released>>
  BY <1>0 DEF Drop, Idle, heap
<1>2. t \in Types /\ refCount[t] > 0 /\ state[t] = "live"
  BY <1>0, <1>1, OwnerMeansCount
<1>3. refCount' = [refCount EXCEPT ![t] = @ - 1]
  <2>1. refCount[t] # 0
    BY <1>2
  <2> QED BY <1>1, <2>1
<1>4. /\ OwnersCounted' /\ refCount' \in [Types -> Nat] /\ holds' \in [Holders -> Types \cup {Null}]
      /\ refCount'[t] = refCount[t] - 1 /\ \A u \in Types \ {t} : refCount'[u] = refCount[u]
  BY <1>0, <1>1, <1>3, LetGo
<1>5. refCount[t] \in Nat /\ temps \in SUBSET Types
  BY <1>2 DEF IInv, TypeOK
<1>6. t \notin temps
  BY <1>2 DEF IInv, Alive
<1>7. Alive'
  BY <1>1, <1>2, <1>4, <1>5, <1>6 DEF IInv, Alive
<1>8. /\ todo' = <<Call(t)>> \/ todo' = <<>>
      /\ refCount'[t] = 0 => todo' = <<Call(t)>>
  BY <1>1, <1>4, <1>5
<1>9. \A u \in Types : state[u] = "live" /\ refCount'[u] = 0 => u \in temps' \/ (u = t /\ todo' = <<Call(t)>>)
  BY <1>1, <1>4, <1>8, IdleFacts
<1> QED BY <1>1, <1>2, <1>4, <1>5, <1>6, <1>7, <1>8, <1>9, ClientStep

\* The return value of a subroutine that is one of its arguments.
LEMMA UnuseInv ==
    ASSUME IInv, NEW h \in Holders, Unuse(h)
    PROVE  IInv'
<1>0. PICK t : t = holds[h]
  OBVIOUS
<1>1. /\ Idle /\ t # Null /\ UNCHANGED <<heap, gcQueue, thrown>>
      /\ holds' = [holds EXCEPT ![h] = Null]
      /\ refCount' = [refCount EXCEPT ![t] = @ - 1]
      /\ temps' = (IF refCount[t] = 1 THEN temps \cup {t} ELSE temps)
      /\ todo' = <<>> /\ state' = state /\ UNCHANGED <<members, released>>
  BY <1>0 DEF Unuse, Idle, heap
<1>2. /\ OwnersCounted' /\ refCount' \in [Types -> Nat] /\ holds' \in [Holders -> Types \cup {Null}]
      /\ t \in Types /\ refCount[t] > 0 /\ state[t] = "live"
      /\ refCount'[t] = refCount[t] - 1 /\ \A u \in Types \ {t} : refCount'[u] = refCount[u]
  BY <1>0, <1>1, LetGo
<1>3. refCount[t] \in Nat /\ temps \in SUBSET Types
  BY <1>2 DEF IInv, TypeOK
<1>4. t \notin temps
  BY <1>2 DEF IInv, Alive
<1>5. /\ refCount'[t] = 0 => t \in temps'
      /\ t \in temps' => refCount'[t] = 0
      /\ temps' \in SUBSET Types /\ \A u \in Types \ {t} : u \in temps' <=> u \in temps
  BY <1>1, <1>2, <1>3, <1>4
<1>6. Alive'
  BY <1>1, <1>2, <1>3, <1>5 DEF IInv, Alive
<1>7. \A u \in Types : state[u] = "live" /\ refCount'[u] = 0 => u \in temps'
  BY <1>1, <1>2, <1>5, IdleFacts
<1>8. todo' # <<Call(t)>>
  BY <1>1
<1> QED BY <1>1, <1>2, <1>5, <1>6, <1>7, <1>8, ClientStep

\* gc() of a popped type.
LEMMA DiscardInv ==
    ASSUME IInv, NEW t \in Types, Discard(t)
    PROVE  IInv'
<1>1. /\ Idle /\ InHand(t) /\ UNCHANGED <<heap, holds, refCount, gcQueue, thrown>>
      /\ temps' = temps \ {t} /\ todo' = <<Call(t)>> /\ state' = state /\ UNCHANGED <<members, released, holds>>
  BY DEF Discard, heap
<1>2. refCount' \in [Types -> Nat] /\ holds' \in [Holders -> Types \cup {Null}] /\ temps' \in SUBSET Types
  BY <1>1 DEF IInv, TypeOK
<1>3. OwnersCounted'
  BY <1>1, SameOwners DEF IInv, OwnersCounted
<1>4. Alive'
  BY <1>1 DEF IInv, Alive
<1>5. state[t] = "live"
  BY <1>1, IdleFacts
<1>6. \A u \in Types : state[u] = "live" /\ refCount'[u] = 0 => u \in temps' \/ u = t
  BY <1>1, IdleFacts
<1> QED BY <1>1, <1>2, <1>3, <1>4, <1>5, <1>6, ClientStep

\* gcFlush() between two OPs.
LEMMA GcFlushInv ==
    ASSUME IInv, GcFlush
    PROVE  IInv'
<1>1. /\ Idle /\ state' = Flushed /\ gcQueue' = <<>> /\ todo' = <<>>
      /\ UNCHANGED <<kind, members, released, refCount, holds, temps, thrown>>
  BY DEF GcFlush, Idle, client
<1>2. Range(gcQueue) = {t \in Types : state[t] = "deleted"} /\ state \in [Types -> {"free", "live", "deleted"}]
  BY DEF IInv, Queue, TypeOK
<1>3. /\ state' \in [Types -> {"free", "live", "deleted"}]
      /\ \A t \in Types : (state'[t] = "live" <=> state[t] = "live") /\ state'[t] # "deleted"
  BY <1>1, <1>2 DEF Flushed
<1>4. TypeOK'
  BY <1>1, <1>3 DEF IInv, TypeOK
<1>5. OwnersCounted'
  BY <1>1, SameOwners DEF IInv, OwnersCounted
<1>6. Alive'
  BY <1>1, <1>3 DEF IInv, TypeOK, Alive
<1>7. Pending' /\ Calls'
  BY <1>1, <1>3, IdleFacts DEF Pending, Calls
<1>8. Loops'
  <2>1. \A p \in Types : state[p] # "live" => ~(released[p] < Len(members[p]))
    <3>1. \A p \in Types : released[p] \in Nat
      BY DEF IInv, TypeOK
    <3> QED BY <1>1, <3>1, IdleFacts
  <2> QED BY <1>1, <1>3, <2>1 DEF Loops
<1>9. Shape'
  BY <1>1, <1>3 DEF IInv, Shape
<1>10. Queue'
  <2>1. Range(gcQueue') = {} /\ IsInjective(gcQueue')
    BY <1>1 DEF Range, IsInjective
  <2>2. Len(gcQueue') <= GCQueueSize
    BY <1>1, RefCountsAssumption
  <2> QED BY <1>3, <2>1, <2>2 DEF Queue
<1>11. Acyclic'
  <2>1. \A p, i : Owned(p, i)' <=> Owned(p, i)
    BY <1>1 DEF Owned
  <2> QED BY <1>1, <2>1, FewerEdges DEF IInv
<1> QED BY <1>4, <1>5, <1>6, <1>7, <1>8, <1>9, <1>10, <1>11 DEF IInv

\* PropertySignature: a new type that owns a name and another type.
LEMMA PropertySignatureInv ==
    ASSUME IInv, NEW t \in Types, NEW name \in Types, NEW type \in Types, PropertySignature(t, name, type)
    PROVE  IInv'
<1> DEFINE ms == <<name, type>>
<1> DEFINE none == <<>>
<1>0. none = <<>> /\ ms = <<name, type>>
  OBVIOUS
<1>1. /\ Idle /\ Construct(t, "Property", ms) /\ "Property" \in Kinds /\ ms \in Seq(Types)
      /\ Len(ms) = 2 /\ Len(ms) <= MaxMembers /\ ms[1] = name /\ ms[2] = type /\ state[t] = "free"
      /\ name \in temps /\ kind[name] = "Leaf" /\ InHand(type) /\ name # type
  BY RefCountsAssumption DEF PropertySignature, Construct, Kinds
<1> HIDE DEF ms, none
<1>2. /\ refCount[t] = 0 /\ MemberOwners(t) = {} /\ refCount[name] = 0 /\ refCount[type] \in Nat
      /\ state[name] = "live" /\ state[type] = "live" /\ t # name /\ t # type
  <2>1. refCount[t] = 0 /\ MemberOwners(t) = {}
    BY <1>1, IdleSlots
  <2>2. state[name] = "live" /\ state[type] = "live" /\ refCount[name] = 0
    BY <1>1, IdleFacts DEF IInv, Alive
  <2> QED BY <1>1, <2>1, <2>2 DEF IInv, TypeOK
<1>3. /\ \A p \in Types \ {t} : /\ members'[p] = members[p] /\ state'[p] = state[p]
                                /\ kind'[p] = kind[p] /\ released'[p] = released[p]
      /\ members'[t] = ms /\ state'[t] = "live" /\ kind'[t] = "Property" /\ released'[t] = 0
      /\ temps' = (temps \ {name, type}) \cup {t} /\ todo' = none /\ todo = none
      /\ UNCHANGED <<holds, gcQueue, thrown>>
  <2>1. /\ \A p \in Types \ {t} : /\ members'[p] = members[p] /\ state'[p] = state[p]
                                  /\ kind'[p] = kind[p] /\ released'[p] = released[p]
        /\ members'[t] = ms /\ state'[t] = "live" /\ kind'[t] = "Property" /\ released'[t] = 0
    BY <1>1, ConstructEdges, ZenonT(30)
  <2>2. /\ temps' = (temps \ {name, type}) \cup {t} /\ todo' = none /\ todo = none
        /\ UNCHANGED <<holds, gcQueue, thrown>>
    BY <1>0 DEF PropertySignature, Idle
  <2> QED BY <2>1, <2>2
<1>4. /\ refCount' \in [Types -> Nat]
      /\ refCount'[t] = 0 /\ refCount'[name] = 1 /\ refCount'[type] = refCount[type] + 1
      /\ \A u \in Types \ {name, type} : refCount'[u] = refCount[u]
  <2>1. refCount \in [Types -> Nat] /\ refCount' = [refCount EXCEPT ![t] = 0, ![name] = @ + 1, ![type] = @ + 1]
    BY DEF PropertySignature, IInv, TypeOK
  <2> QED BY <1>1, <1>2, <2>1
<1>5. TypeOK'
  <2>1. /\ state' \in [Types -> {"free", "live", "deleted"}] /\ kind' \in [Types -> Kinds]
        /\ members' \in [Types -> Seq(Types)] /\ released' \in [Types -> Nat]
    BY <1>1 DEF Construct, IInv, TypeOK
  <2>2. todo' \in Seq(Tasks) /\ temps' \in SUBSET Types
    BY <1>3 DEF IInv, TypeOK
  <2>3. \A u \in Types : released'[u] <= Len(members'[u]) /\ Len(members'[u]) <= MaxMembers
    <3>1. \A u \in Types : released[u] <= Len(members[u]) /\ Len(members[u]) <= MaxMembers
      BY DEF IInv, TypeOK
    <3>2. released'[t] <= Len(members'[t]) /\ Len(members'[t]) <= MaxMembers
      <4>1. Len(ms) = 2 /\ Len(ms) <= MaxMembers
        BY <1>1
      <4> QED BY <1>3, <4>1
    <3> QED BY <1>3, <3>1, <3>2
  <2> QED BY <1>3, <1>4, <2>1, <2>2, <2>3 DEF IInv, TypeOK
<1>6. OwnersCounted'
  <2>1. /\ \A i \in 1..MaxMembers : ~Owned(t, i) /\ (Owned(t, i)' <=> i <= 2)
        /\ \A p \in Types \ {t}, i \in 1..MaxMembers :
              (Owned(p, i)' <=> Owned(p, i)) /\ members'[p][i] = members[p][i]
    <3>1. /\ \A i \in 1..MaxMembers : ~Owned(t, i) /\ (Owned(t, i)' <=> i <= Len(ms))
          /\ \A p \in Types \ {t}, i \in 1..MaxMembers :
                (Owned(p, i)' <=> Owned(p, i)) /\ members'[p][i] = members[p][i]
      BY <1>1, ConstructEdges
    <3>2. Len(ms) = 2
      BY <1>1
    <3> QED BY <3>1, <3>2
  <2>2. ASSUME NEW u \in Types, NEW p \in Types, NEW i \in 1..MaxMembers
        PROVE  Owned(p, i)' /\ members'[p][i] = u <=>
                  \/ Owned(p, i) /\ members[p][i] = u
                  \/ p = t /\ i = 1 /\ u = name
                  \/ p = t /\ i = 2 /\ u = type
    <3>1. CASE p # t
      BY <2>1, <3>1
    <3>2. CASE p = t
      <4>1. i \in Nat /\ i >= 1 /\ (i <= 2 <=> i = 1 \/ i = 2)
        BY Bounds
      <4> QED BY <1>1, <1>3, <2>1, <3>2, <4>1
    <3> QED BY <3>1, <3>2
  <2>3. ASSUME NEW u \in Types \ {name, type} PROVE MemberOwners(u)' = MemberOwners(u)
    BY <2>2 DEF MemberOwners
  <2>4. MemberOwners(name)' = MemberOwners(name) \cup {<<t, 1>>} /\ <<t, 1>> \notin MemberOwners(name)
    BY <1>1, <2>1, <2>2, Bounds DEF MemberOwners
  <2>5. MemberOwners(type)' = MemberOwners(type) \cup {<<t, 2>>} /\ <<t, 2>> \notin MemberOwners(type)
    BY <1>1, <2>1, <2>2, Bounds DEF MemberOwners
  <2>6. /\ Cardinality(MemberOwners(name)') = Cardinality(MemberOwners(name)) + 1
        /\ Cardinality(MemberOwners(type)') = Cardinality(MemberOwners(type)) + 1
    BY <2>4, <2>5, FinitelyMany, FS_AddElement
  <2>7. ASSUME NEW u \in Types
        PROVE  refCount'[u] = Cardinality(MemberOwners(u)') + Cardinality(HolderOwners(u)')
    <3>1. refCount[u] = Cardinality(MemberOwners(u)) + Cardinality(HolderOwners(u))
      BY DEF IInv, OwnersCounted
    <3>2. HolderOwners(u)' = HolderOwners(u)
      BY <1>3 DEF HolderOwners
    <3>3. CASE u = name
      BY <1>2, <1>4, <2>6, <3>1, <3>2, <3>3, FinitelyMany
    <3>4. CASE u = type
      BY <1>2, <1>4, <2>6, <3>1, <3>2, <3>4, FinitelyMany
    <3>5. CASE u # name /\ u # type
      BY <1>4, <2>3, <3>1, <3>2, <3>5
    <3> QED BY <3>3, <3>4, <3>5
  <2> QED BY <2>7 DEF OwnersCounted
<1>7. Alive'
  BY <1>2, <1>3, <1>4 DEF IInv, TypeOK, Alive
<1>8. Pending'
  <2>1. \A u \in Types \ {t} : state[u] = "live" /\ refCount[u] = 0 => u \in temps
    BY <1>1, IdleFacts
  <2> QED BY <1>2, <1>3, <1>4, <2>1 DEF Pending
<1>9. Calls'
  BY <1>0, <1>3 DEF Calls
<1>10. Loops'
  <2>1. \A p \in Types : state[p] # "live" => released[p] = Len(members[p])
    BY <1>1, IdleSlots
  <2>2. ASSUME NEW p \in Types, state'[p] # "live" PROVE released'[p] = Len(members'[p])
    BY <1>3, <2>1, <2>2
  <2>3. \A p \in Types : released'[p] \in Nat
    BY <1>5 DEF TypeOK
  <2> QED BY <1>0, <1>3, <2>2, <2>3 DEF Loops
<1>11. Shape'
  <2>1. ASSUME NEW p \in Types, state[p] = "live", kind[p] = "Property"
        PROVE  members[p][1] \in Types \ {t}
    <3>1. Owned(p, 1)
      BY <2>1 DEF IInv, Shape, Owned
    <3> QED BY <1>1, <3>1, Bounds, OwnerMeansCount
  <2> SUFFICES ASSUME NEW p \in Types
               PROVE  /\ kind'[p] = "Leaf" => members'[p] = none
                      /\ state'[p] = "live" => released'[p] = 0
                      /\ state'[p] = "live" /\ kind'[p] = "Property" =>
                            /\ Len(members'[p]) = 2 /\ members'[p][1] # members'[p][2]
                            /\ kind'[members'[p][1]] = "Leaf"
    BY <1>0 DEF Shape
  <2>2. CASE p = t
    BY <1>1, <1>2, <1>3, <2>2
  <2>3. CASE p # t
    BY <1>0, <1>3, <2>1, <2>3 DEF IInv, Shape
  <2> QED BY <2>2, <2>3
<1>12. Queue'
  <2>1. t \notin {u \in Types : state[u] = "deleted"} /\ t \notin {u \in Types : state'[u] = "deleted"}
    BY <1>1, <1>3
  <2>2. {u \in Types : state'[u] = "deleted"} = {u \in Types : state[u] = "deleted"}
    BY <1>3, <2>1
  <2> QED BY <1>3, <2>2 DEF IInv, Queue
<1>13. Acyclic'
  <2>1. \A i \in 1..Len(ms) : ms[i] # t
    BY <1>1, <1>2
  <2> QED BY <1>1, <2>1, ConstructAcyclic
<1> QED BY <1>5, <1>6, <1>7, <1>8, <1>9, <1>10, <1>11, <1>12, <1>13 DEF IInv

\* A type that is being built takes another member.
LEMMA AddMemberInv ==
    ASSUME IInv, NEW p \in Types, NEW c \in Types, AddMember(p, c)
    PROVE  IInv'
<1>1. /\ Idle /\ p # c /\ InHand(p) /\ InHand(c) /\ kind[p] = "Members" /\ MemberOwners(p) = {}
      /\ Len(members[p]) < MaxMembers /\ todo = <<>> /\ todo' = <<>>
      /\ members' = [members EXCEPT ![p] = Append(@, c)] /\ refCount' = [refCount EXCEPT ![c] = @ + 1]
      /\ temps' = temps \ {c} /\ UNCHANGED <<state, kind, released, holds, gcQueue, thrown>>
  BY DEF AddMember, Idle
<1>2. /\ members \in [Types -> Seq(Types)] /\ refCount \in [Types -> Nat] /\ released[p] = 0
      /\ state[p] = "live" /\ state[c] = "live" /\ Len(members[p]) \in Nat
  <2>1. state[p] = "live" /\ state[c] = "live"
    BY <1>1, IdleFacts
  <2> QED BY <2>1 DEF IInv, TypeOK, Shape
<1>3. PICK n : n = Len(members[p]) + 1
  OBVIOUS
<1>4. /\ refCount' \in [Types -> Nat] /\ refCount'[c] = refCount[c] + 1
      /\ \A u \in Types \ {c} : refCount'[u] = refCount[u]
  BY <1>1, <1>2
<1>5. /\ n \in 1..MaxMembers /\ members' \in [Types -> Seq(Types)]
      /\ Len(members'[p]) = n /\ members'[p][n] = c
      /\ \A i \in 1..Len(members[p]) : members'[p][i] = members[p][i]
      /\ \A q \in Types \ {p} : members'[q] = members[q]
  BY <1>1, <1>2, <1>3, Bounds
<1>6. ASSUME NEW q \in Types, NEW i \in 1..MaxMembers
      PROVE  /\ q # p \/ i # n => (Owned(q, i)' <=> Owned(q, i)) /\ (Owned(q, i) => members'[q][i] = members[q][i])
             /\ Owned(p, n)' /\ ~Owned(p, n)
  <2>1. Owned(p, n)' /\ ~Owned(p, n)
    BY <1>1, <1>2, <1>3, <1>5 DEF Owned
  <2>2. CASE q # p
    BY <1>1, <1>5, <2>1, <2>2 DEF Owned
  <2>3. CASE q = p
    BY <1>1, <1>2, <1>3, <1>5, <2>1, <2>3, Bounds DEF Owned
  <2> QED BY <2>1, <2>2, <2>3
<1>7. TypeOK'
  <2>1. \A u \in Types : released[u] <= Len(members[u]) /\ Len(members[u]) <= MaxMembers
    BY DEF IInv, TypeOK
  <2>2. released'[p] <= Len(members'[p]) /\ Len(members'[p]) <= MaxMembers
    BY <1>1, <1>2, <1>3, <1>5, Bounds
  <2>3. \A u \in Types : released'[u] <= Len(members'[u]) /\ Len(members'[u]) <= MaxMembers
    BY <1>1, <1>5, <2>1, <2>2
  <2> QED BY <1>1, <1>4, <1>5, <2>3 DEF IInv, TypeOK
<1>8. OwnersCounted'
  <2>1. MemberOwners(c)' = MemberOwners(c) \cup {<<p, n>>} /\ <<p, n>> \notin MemberOwners(c)
    BY <1>5, <1>6 DEF MemberOwners
  <2>2. ASSUME NEW u \in Types \ {c} PROVE MemberOwners(u)' = MemberOwners(u)
    BY <1>5, <1>6 DEF MemberOwners
  <2>3. Cardinality(MemberOwners(c)') = Cardinality(MemberOwners(c)) + 1
    BY <2>1, FinitelyMany, FS_AddElement
  <2>4. ASSUME NEW u \in Types
        PROVE  refCount'[u] = Cardinality(MemberOwners(u)') + Cardinality(HolderOwners(u)')
    <3>1. refCount[u] = Cardinality(MemberOwners(u)) + Cardinality(HolderOwners(u))
      BY DEF IInv, OwnersCounted
    <3>2. HolderOwners(u)' = HolderOwners(u)
      BY <1>1 DEF HolderOwners
    <3>3. CASE u = c
      BY <1>4, <2>3, <3>1, <3>2, <3>3, FinitelyMany
    <3>4. CASE u # c
      BY <1>4, <2>2, <3>1, <3>2, <3>4
    <3> QED BY <3>3, <3>4
  <2> QED BY <2>4 DEF OwnersCounted
<1>9. Alive'
  BY <1>1, <1>2, <1>4 DEF IInv, Alive, TypeOK
<1>10. Pending'
  BY <1>1, <1>2, <1>4, IdleFacts DEF Pending
<1>11. Calls'
  BY <1>1 DEF Calls
<1>12. Loops'
  <2>1. \A q \in Types : state[q] # "live" => ~(released[q] < Len(members[q]))
    <3>1. \A q \in Types : released[q] \in Nat
      BY DEF IInv, TypeOK
    <3> QED BY <1>1, <3>1, IdleFacts
  <2>2. ASSUME NEW q \in Types, state'[q] # "live" PROVE ~(released'[q] < Len(members'[q]))
    BY <1>1, <1>2, <1>5, <2>1, <2>2
  <2> QED BY <1>1, <2>2 DEF Loops
<1>13. Shape' /\ Queue'
  BY <1>1, <1>5 DEF IInv, Shape, Queue
<1>14. Acyclic'
  <2> SUFFICES ASSUME NEW S \in SUBSET Types, S # {}
               PROVE  \E u \in S : \A q \in S, i \in 1..MaxMembers : Owned(q, i)' => members'[q][i] # u
    BY DEF Acyclic
  <2>1. PICK u \in S : \A q \in S, i \in 1..MaxMembers : Owned(q, i) => members[q][i] # u
    BY DEF IInv, Acyclic
  <2>2. CASE u # c \/ p \notin S
    <3>1. ASSUME NEW q \in S, NEW i \in 1..MaxMembers, Owned(q, i)' PROVE members'[q][i] # u
      BY <1>5, <1>6, <2>1, <2>2, <3>1, ZenonT(30)
    <3> QED BY <3>1
  <2>3. CASE p \in S
    <3>1. ASSUME NEW q \in S, NEW i \in 1..MaxMembers, Owned(q, i)' PROVE members'[q][i] # p
      <4>1. CASE q = p /\ i = n
        BY <1>1, <1>5, <4>1
      <4>2. CASE q # p \/ i # n
        <5>1. Owned(q, i) /\ members'[q][i] = members[q][i]
          BY <1>6, <3>1, <4>2
        <5>2. <<q, i>> \in MemberOwners(members[q][i])
          BY <5>1 DEF MemberOwners
        <5> QED BY <1>1, <5>1, <5>2
      <4> QED BY <4>1, <4>2
    <3> QED BY <2>3, <3>1
  <2> QED BY <2>2, <2>3
<1> QED BY <1>7, <1>8, <1>9, <1>10, <1>11, <1>12, <1>13, <1>14 DEF IInv

(***************************************************************************)
(* The steps of gc().                                                      *)
(***************************************************************************)

\* The call stack of gc() and what is left of it when the innermost call ends.
LEMMA Stack ==
    ASSUME IInv, todo # <<>>
    PROVE  /\ Len(todo) \in Nat \ {0} /\ Len(todo) \in 1..Len(todo)
           /\ Top = todo[Len(todo)] /\ Top \in Tasks /\ Top.type \in Types
           /\ Top = Call(Top.type) \/ Top = Loop(Top.type)
           /\ Rest \in Seq(Tasks) /\ Len(Rest) = Len(todo) - 1
           /\ \A i \in 1..Len(Rest) : i \in 1..Len(todo) /\ i # Len(todo) /\ Rest[i] = todo[i]
           /\ \A i \in 1..Len(todo) : i # Len(todo) => i \in 1..Len(Rest)
           /\ \A i \in 1..Len(todo) : todo[i].type \in Types
<1>1. todo \in Seq(Tasks)
  BY DEF IInv, TypeOK
<1>2. /\ Len(todo) \in Nat \ {0} /\ Len(todo) \in 1..Len(todo) /\ Top = todo[Len(todo)]
      /\ \A i \in 1..Len(todo) : todo[i] \in Tasks
  BY <1>1 DEF Top
<1>3. \A x \in Tasks : x.type \in Types /\ (x = Call(x.type) \/ x = Loop(x.type))
  BY DEF Tasks, Call, Loop
<1>4. Rest \in Seq(Tasks) /\ Len(Rest) = Len(todo) - 1 /\ \A i \in 1..Len(Rest) : Rest[i] = todo[i]
  <2>1. PICK n : n = Len(todo) - 1
    OBVIOUS
  <2>2. n \in Nat /\ n \in Int /\ 1 \in Int /\ \A i \in 1..n : i \in 1..Len(todo) /\ todo[i] \in Tasks
    BY <1>2, <2>1
  <2>3. /\ SubSeq(todo, 1, n) \in Seq(Tasks)
        /\ Len(SubSeq(todo, 1, n)) = IF 1 <= n THEN n - 1 + 1 ELSE 0
        /\ \A i \in 1..n - 1 + 1 : SubSeq(todo, 1, n)[i] = todo[1 + i - 1]
    BY <2>2, SubSeqProperties
  <2>4. Len(SubSeq(todo, 1, n)) = n /\ \A i \in 1..n : SubSeq(todo, 1, n)[i] = todo[i]
    BY <2>2, <2>3
  <2> QED BY <2>1, <2>3, <2>4 DEF Rest
<1> QED BY <1>2, <1>3, <1>4

\* The two kinds of tasks.
LEMMA TaskOf ==
    ASSUME NEW t
    PROVE  /\ Call(t).op = "gc" /\ Call(t).type = t /\ Loop(t).op = "loop" /\ Loop(t).type = t
           /\ t \in Types => Call(t) \in Tasks /\ Loop(t) \in Tasks
           /\ \A u : /\ Call(u) # Loop(t)
                     /\ Call(u) = Call(t) => u = t
                     /\ Loop(u) = Loop(t) => u = t
BY DEF Call, Loop, Tasks

\* A call that leaves the heap alone ends: gc() of an owned type, or the end of a loop.
LEMMA ReturnInv ==
    ASSUME IInv, todo # <<>>, todo' = Rest, UNCHANGED <<heap, client, refCount, gcQueue, thrown>>,
           Top.op = "gc" => refCount[Top.type] > 0,
           Top.op = "loop" => released[Top.type] >= Len(members[Top.type])
    PROVE  IInv'
<1>1. UNCHANGED <<state, kind, members, released, holds, temps, refCount, gcQueue, thrown>>
  BY DEF heap, client
<1>2. PICK t \in Types : t = Top.type
  BY Stack
<1>3. refCount[t] \in Nat /\ released[t] \in Nat /\ Len(members[t]) \in Nat
  BY DEF IInv, TypeOK
<1>4. ASSUME NEW x, Active(x), x # Top PROVE Active(x)'
  <2>1. PICK i \in 1..Len(todo) : todo[i] = x
    BY <1>4 DEF Active
  <2>2. i \in 1..Len(Rest) /\ Rest[i] = x
    BY <1>4, <2>1, Stack
  <2> QED BY <2>2 DEF Active
<1>5. TypeOK'
  BY <1>1, Stack DEF IInv, TypeOK
<1>6. OwnersCounted'
  BY <1>1, SameOwners DEF IInv, OwnersCounted
<1>7. Alive' /\ Shape' /\ Queue'
  BY <1>1 DEF IInv, Alive, Shape, Queue
<1>8. Pending'
  <2> SUFFICES ASSUME NEW u \in Types, state[u] = "live", refCount[u] = 0 PROVE u \in temps \/ Active(Call(u))'
    BY <1>1 DEF Pending
  <2>1. u \in temps \/ Active(Call(u))
    BY DEF IInv, Pending
  <2>2. Call(u) # Top
    BY <1>2, <1>3, TaskOf
  <2> QED BY <1>4, <2>1, <2>2
<1>9. Calls'
  <2> SUFFICES ASSUME NEW i \in 1..Len(Rest), Rest[i].op = "gc"
               PROVE  /\ refCount[Rest[i].type] = 0 => state[Rest[i].type] = "live" /\ Rest[i].type \notin temps
                      /\ i = Len(Rest)
    BY <1>1 DEF Calls
  <2>1. i \in 1..Len(todo) /\ i # Len(todo) /\ Rest[i] = todo[i] /\ Len(Rest) = Len(todo) - 1
    BY Stack
  <2> QED BY <2>1 DEF IInv, Calls
<1>10. Loops'
  <2>1. \A i \in 1..Len(todo') : i \in 1..Len(todo) /\ todo'[i] = todo[i]
    BY Stack
  <2>2. ASSUME NEW p \in Types, state[p] # "live", released[p] < Len(members[p]) PROVE Active(Loop(p))'
    <3>1. Active(Loop(p))
      BY <2>2 DEF IInv, Loops
    <3>2. Loop(p) # Top
      BY <1>2, <1>3, <2>2, TaskOf
    <3> QED BY <1>4, <3>1, <3>2
  <2> QED BY <1>1, <2>1, <2>2 DEF IInv, Loops
<1>11. Acyclic'
  <2>1. \A p, i : Owned(p, i)' <=> Owned(p, i)
    BY <1>1 DEF Owned
  <2> QED BY <1>1, <2>1, FewerEdges DEF IInv
<1> QED BY <1>5, <1>6, <1>7, <1>8, <1>9, <1>10, <1>11 DEF IInv

\* The end of a loop.
LEMMA LoopDoneInv ==
    ASSUME IInv, LoopDone
    PROVE  IInv'
<1>1. /\ todo # <<>> /\ todo' = Rest /\ UNCHANGED <<heap, client, refCount, gcQueue, thrown>>
      /\ Top.op = "loop" /\ released[Top.type] >= Len(members[Top.type])
  BY DEF LoopDone
<1> QED BY <1>1, ReturnInv

\* A member that its owner has given up loses one count and goes to gc().
LEMMA ReleaseMemberInv ==
    ASSUME IInv, ReleaseMember
    PROVE  IInv'
<1>0. todo # <<>> /\ Top.op = "loop" /\ released[Top.type] < Len(members[Top.type])
  BY DEF ReleaseMember
<1>1. PICK t \in Types : t = Top.type
  BY <1>0, Stack
<1>2. PICK n : n = released[t] + 1
  OBVIOUS
<1>3. PICK c : c = members[t][n]
  OBVIOUS
<1>4. /\ released' = [released EXCEPT ![t] = n] /\ refCount' = [refCount EXCEPT ![c] = @ - 1]
      /\ todo' = Append(todo, Call(c))
      /\ UNCHANGED <<state, kind, members, holds, temps, gcQueue, thrown>>
  BY <1>1, <1>2, <1>3 DEF ReleaseMember, client
<1>5. /\ released \in [Types -> Nat] /\ refCount \in [Types -> Nat] /\ members[t] \in Seq(Types)
      /\ todo \in Seq(Tasks)
      /\ \A p \in Types : released[p] <= Len(members[p]) /\ Len(members[p]) <= MaxMembers
  BY DEF IInv, TypeOK
<1>6. n \in 1..MaxMembers /\ n <= Len(members[t]) /\ n \in Nat
  <2>1. released[t] \in Nat /\ Len(members[t]) \in Nat /\ released[t] < Len(members[t])
    BY <1>0, <1>1, <1>5
  <2>2. Len(members[t]) <= MaxMembers /\ MaxMembers \in Nat
    BY <1>5, Bounds
  <2> QED BY <1>2, <2>1, <2>2
<1>7. Owned(t, n)
  BY <1>2, <1>5, <1>6 DEF Owned
<1>8. c \in Types /\ refCount[c] > 0 /\ state[c] = "live" /\ c \notin temps
  <2>1. c \in Types /\ refCount[c] > 0 /\ state[c] = "live"
    BY <1>3, <1>6, <1>7, OwnerMeansCount
  <2> QED BY <2>1 DEF IInv, Alive
<1>9. Top = Loop(t) /\ state[t] # "live" /\ kind[t] = "Members" /\ Active(Loop(t))
  <2>1. Top = Loop(t)
    BY <1>0, <1>1, Stack, TaskOf
  <2>2. Len(todo) \in 1..Len(todo) /\ todo[Len(todo)] = Loop(t)
    BY <1>0, <2>1, Stack
  <2> QED BY <2>1, <2>2, TaskOf DEF IInv, Loops, Active
<1>10. \A i \in 1..Len(todo) : todo[i].op # "gc"
  <2>1. \A i \in 1..Len(todo) : todo[i].op = "gc" => i # Len(todo)
    BY <1>0, Stack
  <2> QED BY <1>0, <2>1 DEF IInv, Calls
<1>11. /\ released' \in [Types -> Nat] /\ released'[t] = n /\ \A p \in Types \ {t} : released'[p] = released[p]
       /\ refCount' \in [Types -> Nat] /\ refCount'[c] = refCount[c] - 1
       /\ \A u \in Types \ {c} : refCount'[u] = refCount[u]
  <2>1. released' = [released EXCEPT ![t] = n] /\ refCount' = [refCount EXCEPT ![c] = @ - 1]
    BY <1>4
  <2>2. released' \in [Types -> Nat] /\ released'[t] = n /\ \A p \in Types \ {t} : released'[p] = released[p]
    BY <1>5, <1>6, <2>1
  <2>3. refCount[c] \in Nat /\ refCount[c] - 1 \in Nat
    BY <1>5, <1>8
  <2>4. /\ refCount' \in [Types -> Nat] /\ refCount'[c] = refCount[c] - 1
        /\ \A u \in Types \ {c} : refCount'[u] = refCount[u]
    BY <1>5, <1>8, <2>1, <2>3
  <2> QED BY <2>2, <2>4
<1>12. /\ todo' \in Seq(Tasks) /\ Len(todo') = Len(todo) + 1 /\ Len(todo) \in Nat
       /\ todo'[Len(todo')] = Call(c)
       /\ \A i \in 1..Len(todo') : i # Len(todo') => i \in 1..Len(todo) /\ todo'[i] = todo[i]
       /\ \A i \in 1..Len(todo) : i \in 1..Len(todo') /\ todo'[i] = todo[i]
  BY <1>4, <1>5, <1>8, TaskOf
<1>13. ASSUME NEW x, Active(x) PROVE Active(x)'
  BY <1>12, <1>13 DEF Active
<1>14. Active(Call(c))'
  BY <1>12 DEF Active
<1>15. ASSUME NEW p \in Types, NEW i \in 1..MaxMembers
       PROVE  /\ Owned(p, i)' <=> Owned(p, i) /\ ~(p = t /\ i = n)
              /\ members'[p][i] = members[p][i]
  <2>1. CASE p = t
    <3>1. members' = members /\ released'[t] = n
      BY <1>4, <1>11
    <3>2. i \in Int /\ n \in Int /\ released[t] = n - 1
      BY <1>2, <1>5, <1>6, Bounds
    <3>3. n <= Len(members[t]) /\ Len(members[t]) \in Nat
      BY <1>5, <1>6
    <3> QED BY <2>1, <3>1, <3>2, <3>3 DEF Owned
  <2>2. CASE p # t
    BY <1>4, <1>11, <2>2 DEF Owned
  <2> QED BY <2>1, <2>2
<1>16. TypeOK'
  <2>1. \A p \in Types : released'[p] <= Len(members[p])
    BY <1>5, <1>6, <1>11
  <2> QED BY <1>4, <1>5, <1>11, <1>12, <2>1 DEF IInv, TypeOK
<1>17. OwnersCounted'
  <2>1. MemberOwners(c)' = MemberOwners(c) \ {<<t, n>>} /\ <<t, n>> \in MemberOwners(c)
    BY <1>3, <1>6, <1>7, <1>15 DEF MemberOwners
  <2>2. ASSUME NEW u \in Types \ {c} PROVE MemberOwners(u)' = MemberOwners(u)
    BY <1>3, <1>15 DEF MemberOwners
  <2>3. Cardinality(MemberOwners(c)') = Cardinality(MemberOwners(c)) - 1
    BY <2>1, FinitelyMany, FS_RemoveElement
  <2>4. ASSUME NEW u \in Types
        PROVE  refCount'[u] = Cardinality(MemberOwners(u)') + Cardinality(HolderOwners(u)')
    <3>1. refCount[u] = Cardinality(MemberOwners(u)) + Cardinality(HolderOwners(u))
      BY DEF IInv, OwnersCounted
    <3>2. HolderOwners(u)' = HolderOwners(u)
      BY <1>4 DEF HolderOwners
    <3>3. CASE u = c
      BY <1>11, <2>3, <3>1, <3>2, <3>3, FinitelyMany
    <3>4. CASE u # c
      BY <1>11, <2>2, <3>1, <3>2, <3>4
    <3> QED BY <3>3, <3>4
  <2> QED BY <2>4 DEF OwnersCounted
<1>18. Alive'
  BY <1>4, <1>5, <1>8, <1>11 DEF IInv, TypeOK, Alive
<1>19. Pending'
  <2> SUFFICES ASSUME NEW u \in Types, state[u] = "live", refCount'[u] = 0 PROVE u \in temps \/ Active(Call(u))'
    BY <1>4 DEF Pending
  <2>1. CASE u = c
    BY <1>14, <2>1
  <2>2. CASE u # c
    <3>1. u \in temps \/ Active(Call(u))
      BY <1>11, <2>2 DEF IInv, Pending
    <3> QED BY <1>13, <3>1
  <2> QED BY <2>1, <2>2
<1>20. Calls'
  <2>1. ASSUME NEW i \in 1..Len(todo'), todo'[i].op = "gc" PROVE i = Len(todo') /\ todo'[i].type = c
    BY <1>10, <1>12, <2>1, TaskOf
  <2> QED BY <1>4, <1>8, <2>1 DEF Calls
<1>21. Loops'
  <2>1. ASSUME NEW i \in 1..Len(todo'), todo'[i].op = "loop" PROVE i \in 1..Len(todo) /\ todo'[i] = todo[i]
    BY <1>12, <2>1, TaskOf
  <2>2. ASSUME NEW p \in Types, state[p] # "live", released'[p] < Len(members[p]) PROVE Active(Loop(p))'
    <3>1. CASE p = t
      BY <1>9, <1>13, <3>1
    <3>2. CASE p # t
      <4>1. Active(Loop(p))
        BY <1>11, <2>2, <3>2 DEF IInv, Loops
      <4> QED BY <1>13, <4>1
    <3> QED BY <3>1, <3>2
  <2> QED BY <1>4, <2>1, <2>2 DEF IInv, Loops
<1>22. Shape'
  BY <1>4, <1>9, <1>11 DEF IInv, Shape
<1>23. Queue'
  BY <1>4 DEF IInv, Queue
<1>24. Acyclic'
  BY <1>15, FewerEdges DEF IInv
<1> QED BY <1>16, <1>17, <1>18, <1>19, <1>20, <1>21, <1>22, <1>23, <1>24 DEF IInv

\* gcWithoutChildren(): the type alone leaves the living ones.
LEMMA Flagged ==
    ASSUME IInv, NEW t \in Types, state[t] = "live", GcWithoutChildren(t)
    PROVE  /\ state' \in [Types -> {"free", "live", "deleted"}] /\ gcQueue' \in Seq(Types)
           /\ state'[t] # "live"
           /\ \A u \in Types \ {t} : state'[u] = "live" <=> state[u] = "live"
           /\ Queue'
<1>1. /\ state \in [Types -> {"free", "live", "deleted"}] /\ gcQueue \in Seq(Types) /\ IsInjective(gcQueue)
      /\ Len(gcQueue) <= GCQueueSize /\ Range(gcQueue) = {u \in Types : state[u] = "deleted"}
      /\ GCQueueSize \in Nat \ {0} /\ Len(gcQueue) \in Nat
  BY RefCountsAssumption DEF IInv, TypeOK, Queue
<1>2. CASE Len(gcQueue) >= GCQueueSize
  <2>1. state' = [Flushed EXCEPT ![t] = "deleted"] /\ gcQueue' = <<t>>
    BY <1>2 DEF GcWithoutChildren
  <2>2. /\ Flushed \in [Types -> {"free", "live", "deleted"}]
        /\ \A u \in Types : (Flushed[u] = "live" <=> state[u] = "live") /\ Flushed[u] # "deleted"
    BY <1>1 DEF Flushed
  <2>3. /\ state' \in [Types -> {"free", "live", "deleted"}] /\ state'[t] = "deleted"
        /\ \A u \in Types \ {t} : (state'[u] = "live" <=> state[u] = "live") /\ state'[u] # "deleted"
    BY <2>1, <2>2
  <2>4. gcQueue' \in Seq(Types) /\ Len(gcQueue') = 1 /\ Range(gcQueue') = {t} /\ IsInjective(gcQueue')
    BY <2>1, SingletonList
  <2>5. Range(gcQueue') = {u \in Types : state'[u] = "deleted"}
    BY <2>3, <2>4
  <2>6. Queue'
    BY <1>1, <2>4, <2>5 DEF Queue
  <2> QED BY <2>3, <2>4, <2>6
<1>3. CASE ~(Len(gcQueue) >= GCQueueSize)
  <2>1. state' = [state EXCEPT ![t] = "deleted"] /\ gcQueue' = Append(gcQueue, t)
    BY <1>3 DEF GcWithoutChildren
  <2>2. /\ state' \in [Types -> {"free", "live", "deleted"}] /\ state'[t] = "deleted"
        /\ \A u \in Types \ {t} : state'[u] = state[u]
    BY <1>1, <2>1
  <2>3. t \notin Range(gcQueue)
    BY <1>1
  <2>4. /\ gcQueue' \in Seq(Types) /\ Len(gcQueue') = Len(gcQueue) + 1
        /\ Range(gcQueue') = Range(gcQueue) \cup {t} /\ IsInjective(gcQueue')
    BY <1>1, <2>1, <2>3, AppendOfInjective
  <2>5. Range(gcQueue') = {u \in Types : state'[u] = "deleted"}
    BY <1>1, <2>2, <2>4
  <2>6. Len(gcQueue') <= GCQueueSize
    BY <1>1, <1>3, <2>4
  <2>7. Queue'
    BY <2>4, <2>5, <2>6 DEF Queue
  <2> QED BY <2>2, <2>4, <2>7
<1> QED BY <1>2, <1>3

\* The innermost call finds its type alive if nobody owns it; an outer one is for
\* another type, and there is none unless the type is a leaf.
LEMMA InnermostCall ==
    ASSUME IInv, todo # <<>>, NEW t, t = Top.type, Top.op = "gc", refCount[t] = 0
    PROVE  /\ t \in Types /\ state[t] = "live" /\ t \notin temps /\ Top = Call(t)
           /\ \A i \in 1..Len(Rest) : Rest[i].op = "gc" =>
                 /\ i = Len(Rest) /\ kind[t] = "Leaf" /\ Rest[i].type # t
                 /\ refCount[Rest[i].type] = 0 => state[Rest[i].type] = "live" /\ Rest[i].type \notin temps
<1>1. /\ t \in Types /\ Top = Call(t) /\ Len(todo) \in 1..Len(todo) /\ todo[Len(todo)] = Top
      /\ Len(Rest) = Len(todo) - 1
  BY Stack, TaskOf
<1>2. state[t] = "live" /\ t \notin temps
  BY <1>1 DEF IInv, Calls
<1>3. ASSUME NEW i \in 1..Len(Rest), Rest[i].op = "gc"
      PROVE  /\ i = Len(Rest) /\ kind[t] = "Leaf" /\ Rest[i].type # t
             /\ refCount[Rest[i].type] = 0 => state[Rest[i].type] = "live" /\ Rest[i].type \notin temps
  <2>1. i \in 1..Len(todo) /\ i # Len(todo) /\ Rest[i] = todo[i]
    BY Stack
  <2> QED BY <1>1, <1>3, <2>1 DEF IInv, Calls
<1> QED BY <1>1, <1>2, <1>3

\* A type that is collected, whatever its kind: what has to be shown about the calls
\* that are added, and about the counts, suffices.
LEMMA CollectStep ==
    ASSUME IInv, todo # <<>>, NEW t, t = Top.type, Top.op = "gc", refCount[t] = 0, GcWithoutChildren(t),
           UNCHANGED <<kind, members, client, thrown>>,
           released' \in [Types -> Nat], refCount' \in [Types -> Nat], todo' \in Seq(Tasks),
           released'[t] <= Len(members[t]), \A p \in Types \ {t} : released'[p] = released[p],
           released[t] <= released'[t],
           OwnersCounted', Pending', Calls',
           \A u \in Types : refCount'[u] <= refCount[u],
           \A i \in 1..Len(Rest) : i \in 1..Len(todo') /\ todo'[i] = Rest[i],
           \A i \in 1..Len(todo') : todo'[i].op = "loop" =>
                i \in 1..Len(Rest) \/ (i = Len(Rest) + 1 /\ todo'[i] = Loop(t) /\ kind[t] = "Members"),
           released'[t] < Len(members[t]) => Active(Loop(t))'
    PROVE  IInv'
<1>1. UNCHANGED <<kind, members, holds, temps, thrown>>
  BY DEF client
<1>2. t \in Types /\ state[t] = "live" /\ t \notin temps /\ Top = Call(t)
  BY InnermostCall
<1>3. /\ state' \in [Types -> {"free", "live", "deleted"}] /\ gcQueue' \in Seq(Types)
      /\ state'[t] # "live" /\ Queue'
      /\ \A u \in Types \ {t} : state'[u] = "live" <=> state[u] = "live"
  BY <1>2, Flagged
<1>4. /\ \A u \in Types : refCount[u] \in Nat /\ refCount'[u] \in Nat /\ released[u] \in Nat /\ released'[u] \in Nat
      /\ \A u \in Types : Len(members[u]) \in Nat
  BY DEF IInv, TypeOK
<1>5. TypeOK'
  BY <1>1, <1>3 DEF IInv, TypeOK
<1>6. Alive'
  <2>1. ASSUME NEW u \in Types, refCount'[u] > 0 PROVE state'[u] = "live"
    <3>1. refCount'[u] \in Nat /\ refCount[u] \in Nat /\ refCount'[u] <= refCount[u] /\ refCount'[u] > 0
      BY <1>4, <2>1
    <3>2. refCount[u] > 0
      BY <3>1
    <3>3. state[u] = "live" /\ u # t
      BY <3>2 DEF IInv, Alive
    <3> QED BY <1>3, <3>3
  <2>2. ASSUME NEW u \in temps PROVE state'[u] = "live" /\ refCount'[u] = 0
    <3>1. u \in Types /\ state[u] = "live" /\ refCount[u] = 0 /\ u # t
      BY <1>2 DEF IInv, TypeOK, Alive
    <3> QED BY <1>3, <1>4, <3>1
  <2> QED BY <1>1, <2>1, <2>2 DEF Alive
<1>7. Loops'
  <2>1. ASSUME NEW i \in 1..Len(todo'), todo'[i].op = "loop", i \in 1..Len(Rest)
        PROVE  /\ i \in 1..Len(todo) /\ todo'[i] = todo[i] /\ todo[i].type \in Types
               /\ state[todo[i].type] # "live" /\ kind[todo[i].type] = "Members"
    <3>1. i \in 1..Len(todo) /\ todo'[i] = todo[i] /\ todo[i].type \in Types
      BY <2>1, Stack
    <3> QED BY <2>1, <3>1 DEF IInv, Loops
  <2>2. ASSUME NEW i \in 1..Len(todo'), todo'[i].op = "loop"
        PROVE  state'[todo'[i].type] # "live" /\ kind'[todo'[i].type] = "Members"
    <3>1. CASE i \in 1..Len(Rest)
      <4>1. PICK u : u = todo[i].type
        OBVIOUS
      <4>2. todo'[i].type = u /\ u \in Types /\ state[u] # "live" /\ kind[u] = "Members"
        BY <2>1, <2>2, <3>1, <4>1
      <4>3. u # t /\ state'[u] # "live"
        BY <1>2, <1>3, <4>2
      <4> QED BY <1>1, <4>2, <4>3
    <3>2. CASE i \notin 1..Len(Rest)
      BY <1>1, <1>3, <2>2, <3>2, TaskOf
    <3> QED BY <3>1, <3>2
  <2>3. ASSUME NEW i \in 1..Len(todo'), NEW j \in 1..Len(todo'), todo'[i].op = "loop", todo'[i] = todo'[j]
        PROVE  i = j
    <3>1. CASE i \in 1..Len(Rest) /\ j \in 1..Len(Rest)
      BY <2>1, <2>3, <3>1 DEF IInv, Loops
    <3>2. CASE i \notin 1..Len(Rest) /\ j \notin 1..Len(Rest)
      BY <2>3, <3>2
    <3>3. CASE i \in 1..Len(Rest) /\ j \notin 1..Len(Rest)
      BY <1>2, <2>1, <2>3, <3>3, TaskOf
    <3>4. CASE i \notin 1..Len(Rest) /\ j \in 1..Len(Rest)
      BY <1>2, <2>1, <2>3, <3>4, TaskOf
    <3> QED BY <3>1, <3>2, <3>3, <3>4
  <2>4. ASSUME NEW p \in Types, state'[p] # "live", released'[p] < Len(members[p]) PROVE Active(Loop(p))'
    <3>1. CASE p = t
      BY <2>4, <3>1
    <3>2. CASE p # t
      <4>1. Active(Loop(p))
        BY <1>3, <2>4, <3>2 DEF IInv, Loops
      <4>2. PICK i \in 1..Len(todo) : todo[i] = Loop(p)
        BY <4>1 DEF Active
      <4>3. i # Len(todo)
        BY <1>2, <4>2, Stack, TaskOf
      <4>4. i \in 1..Len(Rest) /\ Rest[i] = Loop(p)
        BY <4>2, <4>3, Stack
      <4> QED BY <4>4 DEF Active
    <3> QED BY <3>1, <3>2
  <2> QED BY <1>1, <2>2, <2>3, <2>4 DEF Loops
<1>8. Shape'
  <2> SUFFICES ASSUME NEW p \in Types
               PROVE  /\ kind[p] = "Leaf" => members[p] = <<>>
                      /\ state'[p] = "live" => released'[p] = 0
                      /\ state'[p] = "live" /\ kind[p] = "Property" =>
                            /\ Len(members[p]) = 2 /\ members[p][1] # members[p][2]
                            /\ kind[members[p][1]] = "Leaf"
    BY <1>1 DEF Shape
  <2>1. state'[p] = "live" => state[p] = "live" /\ released'[p] = released[p]
    BY <1>3
  <2> QED BY <2>1 DEF IInv, Shape
<1>9. Acyclic'
  <2>1. ASSUME NEW p \in Types, NEW i \in 1..MaxMembers, Owned(p, i)' PROVE Owned(p, i) /\ members'[p][i] = members[p][i]
    <3>1. i \in Nat /\ released[p] <= released'[p]
      BY <1>2, <1>4, Bounds
    <3> QED BY <1>1, <1>4, <2>1, <3>1 DEF Owned
  <2> QED BY <2>1, FewerEdges DEF IInv
<1> QED BY <1>3, <1>5, <1>6, <1>7, <1>8, <1>9 DEF IInv

\* A leaf has nothing to give up.
LEMMA LeafInv ==
    ASSUME IInv, todo # <<>>, NEW t, t = Top.type, Top.op = "gc", refCount[t] = 0, GcWithoutChildren(t),
           UNCHANGED <<kind, members, client, thrown>>, kind[t] = "Leaf", GcLeaf
    PROVE  IInv'
<1>1. /\ t \in Types /\ state[t] = "live" /\ t \notin temps /\ Top = Call(t)
      /\ \A i \in 1..Len(Rest) : Rest[i].op = "gc" =>
            /\ i = Len(Rest) /\ Rest[i].type # t
            /\ refCount[Rest[i].type] = 0 => state[Rest[i].type] = "live" /\ Rest[i].type \notin temps
  BY InnermostCall
<1>2. todo' = Rest /\ UNCHANGED <<released, refCount>> /\ UNCHANGED <<holds, temps, members>>
  BY DEF GcLeaf, client
<1>3. /\ Rest \in Seq(Tasks) /\ \A i \in 1..Len(Rest) : Rest[i].type \in Types
  BY Stack
<1>4. /\ released \in [Types -> Nat] /\ refCount \in [Types -> Nat] /\ released[t] <= Len(members[t])
      /\ Len(members[t]) = 0
  BY <1>1 DEF IInv, TypeOK, Shape
<1>5. \A u \in Types \ {t} : state'[u] = "live" <=> state[u] = "live"
  BY <1>1, Flagged
<1>6. state'[t] # "live"
  BY <1>1, Flagged
<1>7. OwnersCounted'
  BY <1>2, SameOwners DEF IInv, OwnersCounted
<1>8. Pending'
  <2> SUFFICES ASSUME NEW u \in Types, state'[u] = "live", refCount[u] = 0 PROVE u \in temps \/ Active(Call(u))'
    BY <1>2 DEF Pending
  <2>1. u # t /\ state[u] = "live"
    BY <1>5, <1>6
  <2>2. CASE u \in temps
    BY <2>2
  <2>3. CASE Active(Call(u))
    <3>1. PICK i \in 1..Len(todo) : todo[i] = Call(u)
      BY <2>3 DEF Active
    <3>2. i # Len(todo)
      BY <1>1, <2>1, <3>1, Stack, TaskOf
    <3>3. i \in 1..Len(Rest) /\ Rest[i] = Call(u)
      BY <3>1, <3>2, Stack
    <3> QED BY <1>2, <3>3 DEF Active
  <2> QED BY <2>1, <2>2, <2>3 DEF IInv, Pending
<1>9. Calls'
  <2>1. ASSUME NEW i \in 1..Len(Rest), Rest[i].op = "gc", refCount[Rest[i].type] = 0
        PROVE  state'[Rest[i].type] = "live" /\ Rest[i].type \notin temps
    BY <1>1, <1>3, <1>5, <2>1
  <2> QED BY <1>1, <1>2, <2>1 DEF Calls
<1>10. /\ released'[t] <= Len(members[t]) /\ \A p \in Types \ {t} : released'[p] = released[p]
       /\ released[t] <= released'[t] /\ ~(released'[t] < Len(members[t]))
       /\ \A u \in Types : refCount'[u] <= refCount[u]
  BY <1>1, <1>2, <1>4
<1>11. \A i \in 1..Len(Rest) : i \in 1..Len(todo') /\ todo'[i] = Rest[i]
  BY <1>2
<1>12. \A i \in 1..Len(todo') : i \in 1..Len(Rest)
  BY <1>2
<1>13. released' \in [Types -> Nat] /\ refCount' \in [Types -> Nat] /\ todo' \in Seq(Tasks)
  BY <1>2, <1>3, <1>4
<1> QED BY <1>7, <1>8, <1>9, <1>10, <1>11, <1>12, <1>13, CollectStep

\* A type with a list of members starts the loop over them.
LEMMA MembersInv ==
    ASSUME IInv, todo # <<>>, NEW t, t = Top.type, Top.op = "gc", refCount[t] = 0, GcWithoutChildren(t),
           UNCHANGED <<kind, members, client, thrown>>, kind[t] = "Members", GcMembers(t)
    PROVE  IInv'
<1>1. /\ t \in Types /\ state[t] = "live" /\ t \notin temps /\ Top = Call(t)
      /\ \A i \in 1..Len(Rest) : Rest[i].op # "gc"
  BY InnermostCall
<1>2. todo' = Append(Rest, Loop(t)) /\ UNCHANGED <<released, refCount>> /\ UNCHANGED <<holds, temps, members>>
  BY DEF GcMembers, client
<1>3. Rest \in Seq(Tasks) /\ Loop(t) \in Tasks
  BY <1>1, Stack, TaskOf
<1>4. /\ todo' \in Seq(Tasks) /\ Len(todo') = Len(Rest) + 1 /\ Len(Rest) \in Nat
      /\ todo'[Len(Rest) + 1] = Loop(t)
      /\ \A i \in 1..Len(Rest) : i \in 1..Len(todo') /\ todo'[i] = Rest[i]
      /\ \A i \in 1..Len(todo') : i \in 1..Len(Rest) \/ i = Len(Rest) + 1
  BY <1>2, <1>3
<1>5. /\ released \in [Types -> Nat] /\ refCount \in [Types -> Nat] /\ released[t] <= Len(members[t])
  BY <1>1 DEF IInv, TypeOK
<1>6. state'[t] # "live" /\ \A u \in Types \ {t} : state'[u] = "live" <=> state[u] = "live"
  BY <1>1, Flagged
<1>7. OwnersCounted'
  BY <1>2, SameOwners DEF IInv, OwnersCounted
<1>8. Pending'
  <2> SUFFICES ASSUME NEW u \in Types, state'[u] = "live", refCount[u] = 0 PROVE u \in temps
    BY <1>2 DEF Pending
  <2>1. u # t /\ state[u] = "live"
    BY <1>6
  <2>2. SUFFICES ASSUME Active(Call(u)) PROVE FALSE
    BY <2>1 DEF IInv, Pending
  <2>3. PICK i \in 1..Len(todo) : todo[i] = Call(u)
    BY <2>2 DEF Active
  <2>4. i # Len(todo)
    BY <1>1, <2>1, <2>3, Stack, TaskOf
  <2> QED BY <1>1, <2>3, <2>4, Stack, TaskOf
<1>9. \A i \in 1..Len(todo') : todo'[i].op # "gc"
  BY <1>1, <1>4, TaskOf
<1>10. Calls'
  BY <1>9 DEF Calls
<1>11. Active(Loop(t))'
  <2>1. Len(Rest) + 1 \in 1..Len(todo')
    BY <1>4
  <2> QED BY <1>4, <2>1 DEF Active
<1>12. /\ released'[t] <= Len(members[t]) /\ \A p \in Types \ {t} : released'[p] = released[p]
       /\ released[t] <= released'[t] /\ \A u \in Types : refCount'[u] <= refCount[u]
       /\ released' \in [Types -> Nat] /\ refCount' \in [Types -> Nat]
  BY <1>1, <1>2, <1>5
<1> QED BY <1>4, <1>7, <1>8, <1>10, <1>11, <1>12, CollectStep

\* A property gives up its name and its type, both counts before the two calls.
LEMMA PropertyInv ==
    ASSUME IInv, todo # <<>>, NEW t, t = Top.type, Top.op = "gc", refCount[t] = 0, GcWithoutChildren(t),
           UNCHANGED <<kind, members, client, thrown>>, kind[t] = "Property", GcProperty(t)
    PROVE  IInv'
<1>1. /\ t \in Types /\ state[t] = "live" /\ t \notin temps /\ Top = Call(t)
      /\ \A i \in 1..Len(Rest) : Rest[i].op # "gc"
  BY InnermostCall
<1>2. PICK name, type : name = members[t][1] /\ type = members[t][2]
  OBVIOUS
<1>3. /\ released' = [released EXCEPT ![t] = 2]
      /\ refCount' = [refCount EXCEPT ![name] = @ - 1, ![type] = @ - 1]
      /\ todo' = Append(Append(Rest, Call(type)), Call(name))
      /\ UNCHANGED <<holds, temps, members, kind>>
  BY <1>2 DEF GcProperty, client
<1>4. released[t] = 0 /\ Len(members[t]) = 2 /\ name # type /\ kind[name] = "Leaf"
  BY <1>1, <1>2 DEF IInv, Shape
<1>5. Owned(t, 1) /\ Owned(t, 2)
  BY <1>4 DEF Owned
<1>6. /\ name \in Types /\ refCount[name] > 0 /\ state[name] = "live" /\ name \notin temps
      /\ type \in Types /\ refCount[type] > 0 /\ state[type] = "live" /\ type \notin temps
      /\ name # t /\ type # t
  <2>1. /\ name \in Types /\ refCount[name] > 0 /\ state[name] = "live"
        /\ type \in Types /\ refCount[type] > 0 /\ state[type] = "live"
    BY <1>1, <1>2, <1>5, Bounds, OwnerMeansCount
  <2> QED BY <2>1 DEF IInv, Alive
<1>7. /\ released' \in [Types -> Nat] /\ released'[t] = 2 /\ \A p \in Types \ {t} : released'[p] = released[p]
      /\ refCount' \in [Types -> Nat]
      /\ refCount'[name] = refCount[name] - 1 /\ refCount'[type] = refCount[type] - 1
      /\ \A u \in Types \ {name, type} : refCount'[u] = refCount[u]
      /\ \A u \in Types : refCount'[u] <= refCount[u]
  <2>1. released \in [Types -> Nat] /\ refCount \in [Types -> Nat]
    BY DEF IInv, TypeOK
  <2>2. /\ released' \in [Types -> Nat] /\ released'[t] = 2
        /\ \A p \in Types \ {t} : released'[p] = released[p]
    BY <1>1, <1>3, <2>1
  <2>3. refCount[name] \in Nat \ {0} /\ refCount[type] \in Nat \ {0}
    BY <1>6, <2>1
  <2>4. /\ refCount' \in [Types -> Nat]
        /\ refCount'[name] = refCount[name] - 1 /\ refCount'[type] = refCount[type] - 1
        /\ \A u \in Types \ {name, type} : refCount'[u] = refCount[u]
    BY <1>3, <1>4, <1>6, <2>1, <2>3
  <2>5. ASSUME NEW u \in Types PROVE refCount'[u] <= refCount[u]
    <3>1. CASE u = name \/ u = type
      BY <2>3, <2>4, <3>1
    <3>2. CASE u # name /\ u # type
      BY <2>1, <2>4, <3>2
    <3> QED BY <3>1, <3>2
  <2> QED BY <2>2, <2>4, <2>5
<1>8. /\ todo' \in Seq(Tasks) /\ Len(todo') = Len(Rest) + 2 /\ Len(Rest) \in Nat
      /\ todo'[Len(Rest) + 1] = Call(type) /\ todo'[Len(Rest) + 2] = Call(name)
      /\ \A i \in 1..Len(Rest) : i \in 1..Len(todo') /\ todo'[i] = Rest[i]
      /\ \A i \in 1..Len(todo') : i \in 1..Len(Rest) \/ i = Len(Rest) + 1 \/ i = Len(Rest) + 2
      /\ Len(Rest) + 1 \in 1..Len(todo') /\ Len(Rest) + 2 \in 1..Len(todo')
  <2>1. Rest \in Seq(Tasks) /\ Call(type) \in Tasks /\ Call(name) \in Tasks
    BY <1>6, Stack, TaskOf
  <2>2. PICK s : s = Append(Rest, Call(type))
    OBVIOUS
  <2>3. /\ s \in Seq(Tasks) /\ Len(s) = Len(Rest) + 1 /\ Len(Rest) \in Nat /\ s[Len(Rest) + 1] = Call(type)
        /\ \A i \in 1..Len(Rest) : s[i] = Rest[i]
    BY <2>1, <2>2
  <2>4. /\ todo' \in Seq(Tasks) /\ Len(todo') = Len(s) + 1 /\ todo'[Len(s) + 1] = Call(name)
        /\ \A i \in 1..Len(s) : todo'[i] = s[i]
    BY <1>3, <2>1, <2>2, <2>3
  <2> QED BY <2>3, <2>4
<1>9. state'[t] # "live" /\ \A u \in Types \ {t} : state'[u] = "live" <=> state[u] = "live"
  BY <1>1, Flagged
<1>10. ASSUME NEW p \in Types, NEW i \in 1..MaxMembers
       PROVE  (Owned(p, i)' <=> Owned(p, i) /\ p # t) /\ (p = t /\ Owned(p, i) => i = 1 \/ i = 2)
  <2>1. i \in Nat /\ i >= 1
    BY Bounds
  <2>2. CASE p = t
    <3>1. released'[p] = 2 /\ released[p] = 0 /\ Len(members[p]) = 2 /\ members'[p] = members[p]
      BY <1>3, <1>4, <1>7, <2>2
    <3> QED BY <2>1, <2>2, <3>1 DEF Owned
  <2>3. CASE p # t
    BY <1>3, <1>7, <2>3 DEF Owned
  <2> QED BY <2>2, <2>3
<1>11. OwnersCounted'
  <2>0. ASSUME NEW p \in Types, NEW i \in 1..MaxMembers
        PROVE  /\ Owned(p, i)' /\ members'[p][i] = name <=>
                     Owned(p, i) /\ members[p][i] = name /\ ~(p = t /\ i = 1)
               /\ Owned(p, i)' /\ members'[p][i] = type <=>
                     Owned(p, i) /\ members[p][i] = type /\ ~(p = t /\ i = 2)
    <3>1. members'[p][i] = members[p][i]
      BY <1>3
    <3>2. CASE p = t
      BY <1>2, <1>4, <1>10, <3>1, <3>2
    <3>3. CASE p # t
      BY <1>10, <3>1, <3>3
    <3> QED BY <3>2, <3>3
  <2>1. MemberOwners(name)' = MemberOwners(name) \ {<<t, 1>>} /\ <<t, 1>> \in MemberOwners(name)
    <3>1. <<t, 1>> \in MemberOwners(name)
      BY <1>1, <1>2, <1>5, Bounds DEF MemberOwners
    <3> QED BY <2>0, <3>1 DEF MemberOwners
  <2>2. MemberOwners(type)' = MemberOwners(type) \ {<<t, 2>>} /\ <<t, 2>> \in MemberOwners(type)
    <3>1. <<t, 2>> \in MemberOwners(type)
      BY <1>1, <1>2, <1>5, Bounds DEF MemberOwners
    <3> QED BY <2>0, <3>1 DEF MemberOwners
  <2>3. ASSUME NEW u \in Types \ {name, type} PROVE MemberOwners(u)' = MemberOwners(u)
    BY <1>2, <1>3, <1>10 DEF MemberOwners
  <2>4. /\ Cardinality(MemberOwners(name)') = Cardinality(MemberOwners(name)) - 1
        /\ Cardinality(MemberOwners(type)') = Cardinality(MemberOwners(type)) - 1
    <3>1. Cardinality(MemberOwners(name)') = Cardinality(MemberOwners(name)) - 1
      BY <2>1, FinitelyMany, FS_RemoveElement
    <3>2. Cardinality(MemberOwners(type)') = Cardinality(MemberOwners(type)) - 1
      <4>1. Cardinality(MemberOwners(type) \ {<<t, 2>>}) = Cardinality(MemberOwners(type)) - 1
        BY <2>2, FinitelyMany, FS_RemoveElement
      <4> QED BY <2>2, <4>1
    <3> QED BY <3>1, <3>2
  <2>5. ASSUME NEW u \in Types
        PROVE  refCount'[u] = Cardinality(MemberOwners(u)') + Cardinality(HolderOwners(u)')
    <3>1. refCount[u] = Cardinality(MemberOwners(u)) + Cardinality(HolderOwners(u))
      BY DEF IInv, OwnersCounted
    <3>2. HolderOwners(u)' = HolderOwners(u)
      BY <1>3 DEF HolderOwners
    <3>3. CASE u = name
      BY <1>7, <2>4, <3>1, <3>2, <3>3, FinitelyMany
    <3>4. CASE u = type
      BY <1>7, <2>4, <3>1, <3>2, <3>4, FinitelyMany
    <3>5. CASE u # name /\ u # type
      BY <1>7, <2>3, <3>1, <3>2, <3>5
    <3> QED BY <3>3, <3>4, <3>5
  <2> QED BY <2>5 DEF OwnersCounted
<1>12. Pending'
  <2> SUFFICES ASSUME NEW u \in Types, state'[u] = "live", refCount'[u] = 0 PROVE u \in temps \/ Active(Call(u))'
    BY <1>3 DEF Pending
  <2>1. u # t /\ state[u] = "live"
    BY <1>9
  <2>2. CASE u = name \/ u = type
    BY <1>8, <2>2 DEF Active
  <2>3. CASE u # name /\ u # type
    <3>1. u \in temps \/ Active(Call(u))
      BY <1>7, <2>1, <2>3 DEF IInv, Pending
    <3>2. SUFFICES ASSUME Active(Call(u)) PROVE FALSE
      BY <3>1
    <3>3. PICK i \in 1..Len(todo) : todo[i] = Call(u)
      BY <3>2 DEF Active
    <3>4. i # Len(todo)
      BY <1>1, <2>1, <3>3, Stack, TaskOf
    <3> QED BY <1>1, <3>3, <3>4, Stack, TaskOf
  <2> QED BY <2>2, <2>3
<1>13. Calls'
  <2>1. Top' = Call(name) /\ Top'.op = "gc" /\ Top'.type = name
    BY <1>8, TaskOf DEF Top
  <2>2. ASSUME NEW i \in 1..Len(todo'), todo'[i].op = "gc"
        PROVE  \/ i = Len(todo') /\ todo'[i].type = name
               \/ i = Len(todo') - 1 /\ todo'[i].type = type
    BY <1>1, <1>8, <2>2, TaskOf
  <2>3. state'[name] = "live" /\ state'[type] = "live"
    BY <1>6, <1>9
  <2> QED BY <1>3, <1>4, <1>6, <2>1, <2>2, <2>3 DEF Calls
<1>14. \A i \in 1..Len(todo') : todo'[i].op = "loop" => i \in 1..Len(Rest)
  BY <1>8, TaskOf
<1>15. /\ released'[t] <= Len(members[t]) /\ released[t] <= released'[t] /\ ~(released'[t] < Len(members[t]))
  BY <1>4, <1>7
<1> QED BY <1>7, <1>8, <1>11, <1>12, <1>13, <1>14, <1>15, CollectStep

\* gc() of a type; the exception for one that is already deleted is never thrown.
LEMMA GcInv ==
    ASSUME IInv, Gc
    PROVE  IInv'
<1>1. todo # <<>> /\ Top.op = "gc"
  BY DEF Gc
<1>2. PICK t \in Types : t = Top.type
  BY <1>1, Stack
<1>3. CASE refCount[t] > 0 /\ todo' = Rest /\ UNCHANGED <<heap, client, refCount, gcQueue, thrown>>
  BY <1>1, <1>2, <1>3, ReturnInv
<1>4. CASE refCount[t] = 0 /\ Collect(t)
  <2>1. state[t] = "live"
    BY <1>1, <1>2, <1>4, InnermostCall
  <2>2. /\ GcWithoutChildren(t) /\ UNCHANGED <<kind, members, client, thrown>>
        /\ CASE kind[t] = "Leaf" -> GcLeaf
             [] kind[t] = "Members" -> GcMembers(t)
             [] kind[t] = "Property" -> GcProperty(t)
    BY <1>4, <2>1 DEF Collect
  <2>3. kind[t] = "Leaf" \/ kind[t] = "Members" \/ kind[t] = "Property"
    BY DEF IInv, TypeOK, Kinds
  <2>4. CASE kind[t] = "Leaf"
    BY <1>1, <1>2, <1>4, <2>2, <2>4, LeafInv
  <2>5. CASE kind[t] = "Members"
    BY <1>1, <1>2, <1>4, <2>2, <2>5, MembersInv
  <2>6. CASE kind[t] = "Property"
    BY <1>1, <1>2, <1>4, <2>2, <2>6, PropertyInv
  <2> QED BY <2>3, <2>4, <2>5, <2>6
<1> QED BY <1>2, <1>3, <1>4 DEF Gc

\* A step that changes nothing.
LEMMA StutterInv ==
    ASSUME IInv, UNCHANGED vars
    PROVE  IInv'
<1>1. UNCHANGED <<state, kind, members, released, refCount, holds, temps, gcQueue, todo, thrown>>
  BY DEF vars, heap, client
<1>2. TypeOK' /\ Alive' /\ Shape' /\ Queue'
  BY <1>1 DEF IInv, TypeOK, Alive, Shape, Queue
<1>3. OwnersCounted'
  BY <1>1, SameOwners DEF IInv, OwnersCounted
<1>4. Pending' /\ Loops'
  BY <1>1 DEF IInv, Pending, Loops, Active
<1>5. Calls'
  BY <1>1 DEF IInv, Calls, Top
<1>6. Acyclic'
  <2>1. \A p, i : Owned(p, i)' <=> Owned(p, i)
    BY <1>1 DEF Owned
  <2> QED BY <1>1, <2>1, FewerEdges DEF IInv
<1> QED BY <1>2, <1>3, <1>4, <1>5, <1>6 DEF IInv

(***************************************************************************)
(* The theorems.                                                           *)
(***************************************************************************)

\* The inductive invariant holds in every state: whatever the clients do, and between
\* any two calls of a gc() that runs through shared members and flushes its queue.
THEOREM InvariantHolds == Spec => []IInv
<1>1. Init => IInv
  BY InitInv
<1>2. IInv /\ [Next]_vars => IInv'
  <2> SUFFICES ASSUME IInv, [Next]_vars PROVE IInv'
    OBVIOUS
  <2>1. ASSUME NEW t \in Types, NEW k \in {"Leaf", "Members"}, Allocate(t, k) PROVE IInv'
    BY <2>1, AllocateInv
  <2>2. ASSUME NEW t \in Types, NEW name \in Types, NEW type \in Types, PropertySignature(t, name, type) PROVE IInv'
    BY <2>2, PropertySignatureInv
  <2>3. ASSUME NEW t \in Types, NEW c \in Types, AddMember(t, c) PROVE IInv'
    BY <2>3, AddMemberInv
  <2>4. ASSUME NEW t \in Types, NEW h \in Holders, Use(h, t) PROVE IInv'
    BY <2>4, UseInv
  <2>5. ASSUME NEW t \in Types, Discard(t) PROVE IInv'
    BY <2>5, DiscardInv
  <2>6. ASSUME NEW h \in Holders, Drop(h) PROVE IInv'
    BY <2>6, DropInv
  <2>7. ASSUME NEW h \in Holders, Unuse(h) PROVE IInv'
    BY <2>7, UnuseInv
  <2>8. CASE GcFlush
    BY <2>8, GcFlushInv
  <2>9. CASE Gc
    BY <2>9, GcInv
  <2>10. CASE ReleaseMember
    BY <2>10, ReleaseMemberInv
  <2>11. CASE LoopDone
    BY <2>11, LoopDoneInv
  <2>12. CASE UNCHANGED vars
    BY <2>12, StutterInv
  <2> QED BY <2>1, <2>2, <2>3, <2>4, <2>5, <2>6, <2>7, <2>8, <2>9, <2>10, <2>11, <2>12 DEF Next
<1> QED BY <1>1, <1>2, PTL DEF Spec

\* The counter of a type is the number of its owners, in the middle of a gc() too.
THEOREM CountsOwners == Spec => []OwnersCounted
<1>1. IInv => OwnersCounted
  BY DEF IInv
<1> QED BY <1>1, InvariantHolds, PTL

\* No owner and no client is left with a collected type, and gc() never throws "Type
\* already deleted".
THEOREM NothingDangles == Spec => []NoDangling
<1>1. IInv => NoDangling
  <2> SUFFICES ASSUME IInv PROVE NoDangling
    OBVIOUS
  <2>1. ~thrown /\ \A t \in temps : state[t] = "live"
    BY DEF IInv, TypeOK, Alive
  <2>2. /\ \A h \in Holders : holds[h] # Null => state[holds[h]] = "live"
        /\ \A p \in Types, i \in 1..MaxMembers : Owned(p, i) => state[members[p][i]] = "live"
    BY OwnerMeansCount
  <2> QED BY <2>1, <2>2 DEF NoDangling
<1> QED BY <1>1, InvariantHolds, PTL

\* When the clients own nothing, every type has been given to the pool: a living type
\* would have an owner, that owner would be a living type, and so on in a circle.
THEOREM NothingLeaks == Spec => []EverythingReleased
<1>1. IInv => EverythingReleased
  <2> SUFFICES ASSUME IInv, Idle, temps = {}, \A h \in Holders : holds[h] = Null
               PROVE  \A t \in Types : state[t] # "live"
    BY DEF EverythingReleased
  <2> DEFINE L == {t \in Types : state[t] = "live"}
  <2>1. SUFFICES ASSUME L # {} PROVE FALSE
    OBVIOUS
  <2>2. PICK t \in L : \A p \in L, i \in 1..MaxMembers : Owned(p, i) => members[p][i] # t
    BY <2>1 DEF IInv, Acyclic
  <2>3. refCount[t] # 0
    BY IdleFacts
  <2>4. HolderOwners(t) = {} /\ Cardinality(HolderOwners(t)) = 0
    <3>1. HolderOwners(t) = {}
      BY RefCountsAssumption DEF HolderOwners
    <3> QED BY <3>1, FS_EmptySet
  <2>5. Cardinality(MemberOwners(t)) # 0
    <3>1. t \in Types /\ refCount[t] = Cardinality(MemberOwners(t)) + Cardinality(HolderOwners(t))
      BY DEF IInv, OwnersCounted
    <3> HIDE DEF L
    <3> QED BY <2>3, <2>4, <3>1, FinitelyMany
  <2>6. PICK e : e \in MemberOwners(t)
    BY <2>5, FinitelyMany, FS_EmptySet
  <2>7. e[1] \in Types /\ e[2] \in 1..MaxMembers /\ Owned(e[1], e[2]) /\ members[e[1]][e[2]] = t
    BY <2>6 DEF MemberOwners
  <2>8. state[e[1]] = "live"
    <3>1. SUFFICES ASSUME state[e[1]] # "live" PROVE FALSE
      OBVIOUS
    <3>2. e[2] \in Nat
      BY <2>7, Bounds
    <3> QED BY <2>7, <3>1, <3>2, IdleSlots
  <2> QED BY <2>2, <2>7, <2>8
<1> QED BY <1>1, InvariantHolds, PTL
=============================================================================
