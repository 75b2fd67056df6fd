------------------------------ MODULE RefCounts ------------------------------
(***************************************************************************)
(* Ownership of types in the VM (use(), useAsRef(), drop(), gc() and       *)
(* gcFlush() of checker/vm2.cpp): the discipline alone, for any client.    *)
(* TypeHeap computes gc() as one recursive function; here every call of    *)
(* gc() is a task on the C++ call stack, so that what holds between two    *)
(* calls, with the queue flushed in the middle, can be stated and proved.  *)
(*                                                                         *)
(* A client is whoever executes an OP.  It owns types through Holders (the *)
(* cached `result` and `narrowed` of a subroutine, the cells of the type   *)
(* arguments of a frame) and has temps: types from allocate() that nobody  *)
(* owns yet, on the stack or in a local variable.  The stack itself is not *)
(* an owner; a client works only with a temp of its own or with a type     *)
(* that has an owner, and a temp that it does not keep goes to gc().       *)
(*                                                                         *)
(* The kinds are those the switch of gc() tells apart.  PropertySignature  *)
(* and MethodSignature are a "Property"; Function, Tuple, TemplateLiteral, *)
(* Union, ObjectLiteral, Array, Rest, TupleMember and ClassInstance have   *)
(* "Members", which gc() gives up one by one; any other kind without       *)
(* members is a "Leaf".  Class, Method and Parameter own types that gc()   *)
(* never gives up: they are left to TypeHeap, and so are the pool of the   *)
(* TypeRefs and appendChild(), which loses the second of three children.   *)
(***************************************************************************)
EXTENDS Integers, Sequences, FiniteSets, SequencesExt

CONSTANTS Types,         \* the slots of the pool of types
          Holders,       \* the owners outside of the heap
          MaxMembers,    \* bound of the model on the length of a TypeRef list
          GCQueueSize,   \* capacity of pool.gcQueue
          Null           \* nullptr

ASSUME RefCountsAssumption == /\ IsFiniteSet(Types) /\ IsFiniteSet(Holders)
                              /\ MaxMembers \in Nat /\ MaxMembers >= 2
                              /\ GCQueueSize \in Nat \ {0}
                              /\ Null \notin Types

VARIABLES
    state,      \* "free": in the hands of the pool; "live"; "deleted": queued by gc()
    kind,       \* "Leaf", "Members" or "Property"
    members,    \* the types a type refers to, in list order
    released,   \* how many of them gc() of the type has given up so far
    refCount,
    holds,      \* Holder -> the type it owns or Null
    temps,      \* the types without owner that a client still has in hand
    gcQueue,    \* pool.gcQueue
    todo,       \* the active calls of gc(), innermost last
    thrown      \* gc() has thrown "Type already deleted"

heap   == <<state, kind, members, released>>
client == <<holds, temps>>
vars   == <<heap, client, refCount, gcQueue, todo, thrown>>

\* gc(t) about to start, and gc(t) in the middle of the loop over its members.
Call(t) == [op |-> "gc", type |-> t]
Loop(t) == [op |-> "loop", type |-> t]
Tasks   == [op : {"gc", "loop"}, type : Types]

Kinds == {"Leaf", "Members", "Property"}

\* Members that p refers to and owns: those behind the ones gc(p) has given up.
Owned(p, i) == released[p] < i /\ i <= Len(members[p])

\* The owners of t.
MemberOwners(t) == {e \in Types \X (1..MaxMembers) : Owned(e[1], e[2]) /\ members[e[1]][e[2]] = t}
HolderOwners(t) == {h \in Holders : holds[h] = t}

\* No call of gc() is active: the next OP may run.
Idle == todo = <<>> /\ ~thrown

\* A pointer a client may use.
InHand(t) == t \in temps \/ refCount[t] > 0
-----------------------------------------------------------------------------
Init == /\ state = [t \in Types |-> "free"]
        /\ kind = [t \in Types |-> "Leaf"]
        /\ members = [t \in Types |-> <<>>]
        /\ released = [t \in Types |-> 0]
        /\ refCount = [t \in Types |-> 0]
        /\ holds = [h \in Holders |-> Null]
        /\ temps = {} /\ gcQueue = <<>> /\ todo = <<>> /\ thrown = FALSE

\* pool.construct(): a slot of the pool becomes a type of kind k with members ms.
Construct(t, k, ms) ==
    /\ state[t] = "free"
    /\ state' = [state EXCEPT ![t] = "live"]
    /\ kind' = [kind EXCEPT ![t] = k]
    /\ members' = [members EXCEPT ![t] = ms]
    /\ released' = [released EXCEPT ![t] = 0]

\* allocate(), for every kind but PropertySignature.
Allocate(t, k) ==
    /\ Idle
    /\ Construct(t, k, <<>>)
    /\ refCount' = [refCount EXCEPT ![t] = 0]
    /\ temps' = temps \cup {t}
    /\ UNCHANGED <<holds, gcQueue, todo, thrown>>

\* PropertySignature: both TypeRefs at once.  pushName() has put a literal of its
\* own on the stack for the name.
PropertySignature(t, name, type) ==
    /\ Idle
    /\ name \in temps /\ kind[name] = "Leaf" /\ InHand(type) /\ name # type
    /\ Construct(t, "Property", <<name, type>>)
    /\ refCount' = [refCount EXCEPT ![t] = 0, ![name] = @ + 1, ![type] = @ + 1]
    /\ temps' = (temps \ {name, type}) \cup {t}
    /\ UNCHANGED <<holds, gcQueue, todo, thrown>>

\* current->next = useAsRef(c), or item->type = use(c): a type that is being built
\* takes another member.  It may already have a holder (the Union of InferBody, a
\* Tuple that is used again), but it is a member of nothing.
AddMember(p, c) ==
    /\ Idle
    /\ p # c /\ InHand(p) /\ InHand(c)
    /\ kind[p] = "Members" /\ MemberOwners(p) = {} /\ Len(members[p]) < MaxMembers
    /\ members' = [members EXCEPT ![p] = Append(@, c)]
    /\ refCount' = [refCount EXCEPT ![c] = @ + 1]
    /\ temps' = temps \ {c}
    /\ UNCHANGED <<state, kind, released, holds, gcQueue, todo, thrown>>

\* Variant: a cached type is stored without use().
UseUncounted(h, t) ==
    /\ Idle
    /\ holds[h] = Null /\ InHand(t)
    /\ holds' = [holds EXCEPT ![h] = t]
    /\ temps' = temps \ {t}
    /\ UNCHANGED <<heap, refCount, gcQueue, todo, thrown>>

\* use(t) for a holder.
Use(h, t) ==
    /\ Idle
    /\ holds[h] = Null /\ InHand(t)
    /\ holds' = [holds EXCEPT ![h] = t]
    /\ refCount' = [refCount EXCEPT ![t] = @ + 1]
    /\ temps' = temps \ {t}
    /\ UNCHANGED <<heap, gcQueue, todo, thrown>>

\* drop(t) by a holder: the last owner gives t to gc().
Drop(h) ==
    LET t == holds[h] IN
    /\ Idle
    /\ t # Null
    /\ holds' = [holds EXCEPT ![h] = Null]
    /\ refCount' = [refCount EXCEPT ![t] = IF @ = 0 THEN @ ELSE @ - 1]
    /\ todo' = IF refCount[t] = 1 THEN <<Call(t)>> ELSE todo
    /\ UNCHANGED <<heap, temps, gcQueue, thrown>>

\* `refCount--` in Return: a type argument that is the return value loses its
\* holder and goes back to the caller, without gc().
Unuse(h) ==
    LET t == holds[h] IN
    /\ Idle
    /\ t # Null
    /\ holds' = [holds EXCEPT ![h] = Null]
    /\ refCount' = [refCount EXCEPT ![t] = @ - 1]
    /\ temps' = IF refCount[t] = 1 THEN temps \cup {t} ELSE temps
    /\ UNCHANGED <<heap, gcQueue, todo, thrown>>

\* gc(t) by a client that popped t and does not keep it.
Discard(t) ==
    /\ Idle
    /\ InHand(t)
    /\ temps' = temps \ {t}
    /\ todo' = <<Call(t)>>
    /\ UNCHANGED <<heap, holds, refCount, gcQueue, thrown>>

\* pool.gcFlush(): the slots of the queue are free.  Their content, but for the
\* link of the free list in the first bytes, stays as it is until construct().
Flushed == [t \in Types |-> IF t \in Range(gcQueue) THEN "free" ELSE state[t]]

GcFlush ==
    /\ Idle
    /\ state' = Flushed
    /\ gcQueue' = <<>>
    /\ UNCHANGED <<kind, members, released, refCount, client, todo, thrown>>
-----------------------------------------------------------------------------
(* gc() *)

Top  == todo[Len(todo)]
Rest == SubSeq(todo, 1, Len(todo) - 1)

\* gcWithoutChildren(): flag and queue; a full queue is flushed first.
GcWithoutChildren(t) ==
    IF Len(gcQueue) >= GCQueueSize
    THEN /\ state' = [Flushed EXCEPT ![t] = "deleted"]
         /\ gcQueue' = <<t>>
    ELSE /\ state' = [state EXCEPT ![t] = "deleted"]
         /\ gcQueue' = Append(gcQueue, t)

\* The switch on the kind: nothing to give up, a loop over the members, or for a
\* property both counts before the two calls.
GcLeaf == todo' = Rest /\ UNCHANGED <<released, refCount>>

GcMembers(t) == todo' = Append(Rest, Loop(t)) /\ UNCHANGED <<released, refCount>>

GcProperty(t) ==
    LET name == members[t][1]
        type == members[t][2]
    IN  /\ released' = [released EXCEPT ![t] = 2]
        /\ refCount' = [refCount EXCEPT ![name] = @ - 1, ![type] = @ - 1]
        /\ todo' = Append(Append(Rest, Call(type)), Call(name))

\* A type without owner is collected; one that already was is an exception.
Collect(t) ==
    IF state[t] = "live"
    THEN /\ GcWithoutChildren(t)
         /\ CASE kind[t] = "Leaf" -> GcLeaf
              [] kind[t] = "Members" -> GcMembers(t)
              [] kind[t] = "Property" -> GcProperty(t)
         /\ UNCHANGED <<kind, members, client, thrown>>
    ELSE thrown' = TRUE /\ UNCHANGED <<heap, client, refCount, gcQueue, todo>>

\* Variant: the test of the counter is missing.
GcAlways ==
    /\ todo # <<>> /\ ~thrown /\ Top.op = "gc"
    /\ Collect(Top.type)

\* gc(t): returns at once if t has an owner.
Gc ==
    /\ todo # <<>> /\ ~thrown /\ Top.op = "gc"
    /\ \/ /\ refCount[Top.type] > 0
          /\ todo' = Rest
          /\ UNCHANGED <<heap, client, refCount, gcQueue, thrown>>
       \/ /\ refCount[Top.type] = 0
          /\ Collect(Top.type)

\* Variant: the count falls, but gc() is not called for the member.
ReleaseMemberUncollected ==
    LET t == Top.type
        c == members[t][released[t] + 1]
    IN  /\ todo # <<>> /\ ~thrown /\ Top.op = "loop" /\ released[t] < Len(members[t])
        /\ released' = [released EXCEPT ![t] = @ + 1]
        /\ refCount' = [refCount EXCEPT ![c] = @ - 1]
        /\ UNCHANGED <<state, kind, members, client, gcQueue, todo, thrown>>

\* `current->type->refCount--; gc(current->type)`.
ReleaseMember ==
    LET t == Top.type
        c == members[t][released[t] + 1]
    IN  /\ todo # <<>> /\ ~thrown /\ Top.op = "loop" /\ released[t] < Len(members[t])
        /\ released' = [released EXCEPT ![t] = @ + 1]
        /\ refCount' = [refCount EXCEPT ![c] = @ - 1]
        /\ todo' = Append(todo, Call(c))
        /\ UNCHANGED <<state, kind, members, client, gcQueue, thrown>>

\* The end of the loop.
LoopDone ==
    /\ todo # <<>> /\ ~thrown /\ Top.op = "loop" /\ released[Top.type] >= Len(members[Top.type])
    /\ todo' = Rest
    /\ UNCHANGED <<heap, client, refCount, gcQueue, thrown>>

Next ==
    \/ \E t \in Types : \/ \E k \in {"Leaf", "Members"} : Allocate(t, k)
                        \/ \E name, type \in Types : PropertySignature(t, name, type)
                        \/ \E c \in Types : AddMember(t, c)
                        \/ \E h \in Holders : Use(h, t)
                        \/ Discard(t)
    \/ \E h \in Holders : Drop(h) \/ Unuse(h)
    \/ GcFlush
    \/ Gc \/ ReleaseMember \/ LoopDone

Spec == Init /\ [][Next]_vars
-----------------------------------------------------------------------------
(* Properties *)

\* refCount is the number of owners of a type at every moment, between two calls of
\* a recursive gc() too: members of types gc() has not given up yet, and holders.
OwnersCounted ==
    \A t \in Types : refCount[t] = Cardinality(MemberOwners(t)) + Cardinality(HolderOwners(t))

\* No owner is left with a type that gc() has queued or a flush has freed, nor is a
\* client with a temp, and gc() never meets a type it has collected before ("Type
\* already deleted"), however the recursion runs through shared members.
NoDangling ==
    /\ ~thrown
    /\ \A h \in Holders : holds[h] # Null => state[holds[h]] = "live"
    /\ \A p \in Types, i \in 1..MaxMembers : Owned(p, i) => state[members[p][i]] = "live"
    /\ \A t \in temps : state[t] = "live"

\* Once the clients own nothing and have nothing in hand, every type has been given
\* to the pool: drop() and gc() leave no member behind.
EverythingReleased ==
    Idle /\ temps = {} /\ (\A h \in Holders : holds[h] = Null)
    => \A t \in Types : state[t] # "live"
=============================================================================
