------------------------------ MODULE TypeHeap ------------------------------
(***************************************************************************)
(* The types the VM computes with: reference counted records in a pool     *)
(* (checker/types2.h and the memory functions of checker/vm2.cpp).  A heap *)
(* is a value; every operator returns the heap after the call.             *)
(*                                                                         *)
(* `kids` are the types a type refers to, in list order: the TypeRef list  *)
(* of a Tuple, Union, ObjectLiteral, PropertySignature, TemplateLiteral,   *)
(* Function or Method, or the single type of a TupleMember, Rest, Array,   *)
(* ClassInstance or Parameter.  `table` is the hash table of a Class and   *)
(* of an ObjectLiteral or Union of more than five members, one sequence    *)
(* per bucket.  `hash` is what the code hashes: the text of a literal, the *)
(* name of a property or the keyword, "" for 0, and stands for the text.   *)
(* The pools are seen through what they promise (module Allocator): a slot *)
(* passed to gc() keeps its content until the queue of its pool is         *)
(* flushed, then it may be handed out again.                               *)
(***************************************************************************)
EXTENDS Integers, Sequences, FiniteSets, SequencesExt

CONSTANTS MaxTypes,        \* slots of the model's Type pool
          GCQueueSize,     \* capacity of pool.gcQueue
          RefGCQueueSize   \* capacity of poolRef.gcQueue

ASSUME HeapAssumption == /\ MaxTypes \in Nat
                         /\ GCQueueSize \in Nat \ {0}
                         /\ RefGCQueueSize \in Nat \ {0}

Ids == 1..MaxTypes
Null == 0

\* Kinds whose `type` member is a TypeRef list.
ListKinds   == {"Tuple", "Union", "ObjectLiteral", "PropertySignature", "Function", "TemplateLiteral"}
SingleKinds == {"TupleMember", "Rest", "Array", "ClassInstance"}

\* The hashes of the keywords.
KeywordHash == [Never |-> "never", Any |-> "any", Undefined |-> "undefined", Null |-> "null",
                Unknown |-> "unknown", String |-> "string", Number |-> "number", Boolean |-> "boolean"]

\* Type(kind, hash): the constructor.
NewType(kind, hash) ==
    [kind |-> kind, hash |-> hash, flags |-> {}, refCount |-> 0, size |-> 0, kids |-> <<>>,
     table |-> <<>>]

FreeSlot == NewType("free", "")

EmptyHeap == [types |-> [t \in Ids |-> FreeSlot],
              queue |-> <<>>,       \* pool.gcQueue
              refs  |-> 0,          \* poolRef.active
              refQueued |-> 0,      \* poolRef.gcQueued
              notUsed |-> FALSE,    \* drop() met a type without owner
              fault |-> ""]         \* the exception or invalid access that ended the run

Allocated(h) == {t \in Ids : h.types[t].kind # "free"}       \* pool.active
Deleted(h)   == {t \in Ids : "Deleted" \in h.types[t].flags}
Usable(h)    == Allocated(h) \ Deleted(h)

Fault(h, what) == [h EXCEPT !.fault = IF @ = "" THEN what ELSE @]

\* F(x), evaluated once for the value of x: TLC passes arguments by name.
With(x, F(_)) == CHOOSE y \in {F(v) : v \in {x}} : TRUE

\* allocate(): the slot the next allocation returns, and the heap after it.
Fresh(h) == CHOOSE t \in Ids \ Allocated(h) : \A u \in Ids \ Allocated(h) : t <= u
HasFresh(h, n) == Cardinality(Ids \ Allocated(h)) >= n
Allocate(h, type) == With(h, LAMBDA g : [g EXCEPT !.types[Fresh(g)] = type])

Use(h, t) == [h EXCEPT !.types[t].refCount = @ + 1]

\* `refCount--` on an unsigned counter.
UintMax == 2147483647      \* stands for 2^32 - 1
Dec(n) == IF n = 0 THEN UintMax ELSE n - 1
Unuse(h, t) == [h EXCEPT !.types[t].refCount = Dec(@)]

\* useAsRef(): an owning TypeRef.
UseAsRef(h, t) == [Use(h, t) EXCEPT !.refs = @ + 1]
UseAllAsRef(h, ts) == FoldLeft(UseAsRef, h, ts)

\* Type::appendChild(): behind the first child, in place of those that follow.
AppendChild(h, t, child) ==
    [UseAsRef(h, child) EXCEPT !.types[t].kids = IF @ = <<>> THEN <<child>> ELSE <<Head(@), child>>, !.types[t].size = @ + 1]

\* children = allocateRefs(size) and addHashChild() or addHashChildWithoutRefCounter()
\* for every type: the first of a bucket is in the table itself, a later one in a
\* TypeRef behind the first.  The length of a text stands for its hash code.
Bucket(hash, buckets) == (Len(hash) % buckets) + 1

AddHashChild(h, t, child) == With(h, LAMBDA g :
    LET b == Bucket(g.types[child].hash, Len(g.types[t].table))
        entry == g.types[t].table[b]
    IN  [g EXCEPT !.types[t].table[b] = IF entry = <<>> THEN <<child>>
                                        ELSE <<entry[1], child>> \o Tail(entry),
                  !.refs = IF entry = <<>> THEN @ ELSE @ + 1])

WithTable(h, t, size, children) ==
    FoldLeft(LAMBDA acc, c : AddHashChild(acc, t, c),
             [h EXCEPT !.types[t].table = [b \in 1..size |-> <<>>]], children)

CollisionRefs(table) == FoldLeft(LAMBDA n, b : IF b = <<>> THEN n ELSE n + Len(b) - 1, 0, table)

\* findChild(): by the table if there is one, otherwise along the list.
FindChild(h, t, hash) ==
    LET type == h.types[t]
        among == IF type.table = <<>> THEN type.kids ELSE type.table[Bucket(hash, Len(type.table))]
    IN  SelectSeq(among, LAMBDA c : h.types[c].hash = hash)

\* forEachChild(): along the list, or bucket by bucket through the table.
ForEachChild(type) == IF type.kids # <<>> THEN type.kids ELSE FlattenSeq(type.table)
-----------------------------------------------------------------------------
(* Garbage collection *)

\* pool.gcFlush(): queued slots are destructed and become free.
FlushTypes(h) ==
    With(h, LAMBDA g : [g EXCEPT !.types = [t \in Ids |-> IF t \in Range(g.queue) THEN FreeSlot ELSE @[t]],
                                 !.queue = <<>>])
FlushRefs(h) == With(h, LAMBDA g : [g EXCEPT !.refs = @ - g.refQueued, !.refQueued = 0])

\* Variant: pool.gc() never flushes.
QueueTypeUnflushed(h, t) == [h EXCEPT !.queue = Append(@, t)]

\* pool.gc() and poolRef.gc(): a full queue is flushed first.
QueueType(h, t) ==
    With(h, LAMBDA g : [(IF Len(g.queue) >= GCQueueSize THEN FlushTypes(g) ELSE g)
                           EXCEPT !.queue = Append(@, t)])
QueueRef(h) ==
    With(h, LAMBDA g : [(IF g.refQueued >= RefGCQueueSize THEN FlushRefs(g) ELSE g)
                           EXCEPT !.refQueued = @ + 1])

RECURSIVE QueueRefs(_, _)
QueueRefs(h, n) == IF n = 0 THEN h ELSE QueueRefs(QueueRef(h), n - 1)

GcWithoutChildren(h, t) ==
    QueueType([h EXCEPT !.types[t].flags = @ \cup {"Deleted"}], t)

RECURSIVE Gc(_, _)

\* Variant: the owned types keep their count.
ReleaseNothing(h, ts) == h

\* `refCount--; gc()` for one owned type after the other.
Release(h, ts) == FoldLeft(LAMBDA acc, t : Gc(Unuse(acc, t), t), h, ts)

\* The types t owns and the TypeRefs that own them.  For a PropertySignature
\* both TypeRefs are queued before they are read: the first is gone if queuing
\* the second flushes the queue.
GcChildren(h, t) ==
    LET kids == h.types[t].kids
        kind == h.types[t].kind
    IN  CASE kind = "PropertySignature" ->
                With(QueueRef(h), LAMBDA g :
                    IF g.refQueued >= RefGCQueueSize THEN Fault(g, "read of a flushed TypeRef")
                    ELSE Release(QueueRef(g), kids))
          [] kind \in ListKinds \ {"PropertySignature"} ->
                QueueRefs(Release(h, kids), Len(kids) + CollisionRefs(h.types[t].table))
          [] kind \in SingleKinds -> Release(h, kids)
          [] OTHER -> h

\* Variant: gc() of a type that still has owners.
GcTypeOwned(h, t) ==
    IF h.fault # "" THEN h
    ELSE IF "Deleted" \in h.types[t].flags THEN Fault(h, "Type already deleted")
    ELSE With(GcWithoutChildren(h, t), LAMBDA g : GcChildren(g, t))

\* gc(Type *)
GcType(h, t) ==
    IF h.fault # "" \/ h.types[t].refCount > 0 THEN h
    ELSE IF "Deleted" \in h.types[t].flags THEN Fault(h, "Type already deleted")
    ELSE With(GcWithoutChildren(h, t), LAMBDA g : GcChildren(g, t))

Gc(h, t) == With(h, LAMBDA g : GcType(g, t))

GcAll(h, ts) == FoldLeft(Gc, h, ts)

\* drop(Type *)
Drop(h, t) ==
    IF t = Null THEN h
    ELSE With(h, LAMBDA g : IF g.types[t].refCount = 0 THEN [g EXCEPT !.notUsed = TRUE]
                            ELSE Gc(Unuse(g, t), t))

DropAll(h, ts) == FoldLeft(Drop, h, ts)
-----------------------------------------------------------------------------
(* Relations *)

\* extends(left, right) of checker/check2.h, by the kind of right.
RECURSIVE Extends(_, _, _)

\* A union extends a union if every member on the right has one on the left.
\* Otherwise the hash decides before the members are looked at.
ExtendsUnion(h, left, right) ==
    LET lk == h.types[left].kids
        rk == ForEachChild(h.types[right])
    IN  IF h.types[left].kind = "Union"
        THEN \A i \in DOMAIN rk : \E j \in DOMAIN lk : Extends(h, lk[j], rk[i])
        ELSE \/ h.types[right].table # <<>> /\ FindChild(h, right, h.types[left].hash) # <<>>
             \/ \E i \in DOMAIN rk : Extends(h, left, rk[i])

ExtendsLiteral(l, r) ==
    /\ l.kind = "Literal"
    /\ LET both(f) == f \in l.flags /\ f \in r.flags IN
       IF both("StringLiteral") \/ both("NumberLiteral") THEN l.hash = r.hash ELSE both("True") \/ both("False")

\* The flags of the literals of a primitive type.
LiteralFlags == [String |-> {"StringLiteral"}, Number |-> {"NumberLiteral"}, Boolean |-> {"True", "False"}]
ExtendsPrimitive(l, kind) == l.kind = kind \/ (l.kind = "Literal" /\ l.flags \cap LiteralFlags[kind] # {})

Extends(h, left, right) ==
    LET l == h.types[left]
        r == h.types[right]
        lk == l.kids
        rk == r.kids
    IN  CASE r.kind = "Any" -> TRUE
          [] r.kind = "TupleMember" -> l.kind = "TupleMember" /\ Extends(h, lk[1], rk[1])
          [] r.kind = "Tuple" /\ l.kind = "Tuple" ->
                IF rk = <<>> THEN lk = <<>>
                ELSE Len(lk) >= Len(rk) /\ \A i \in DOMAIN rk : Extends(h, lk[i], rk[i])
          [] r.kind = "Tuple" /\ l.kind = "Array" ->
                h.types[lk[1]].kind = "Any" \/ \A i \in DOMAIN rk : Extends(h, lk[1], rk[i])
          [] r.kind = "Array" /\ l.kind = "Array" -> Extends(h, lk[1], rk[1])
          [] r.kind = "Array" /\ l.kind = "Tuple" ->
                \/ h.types[rk[1]].kind = "Any"
                \/ \A i \in DOMAIN lk : Extends(h, h.types[lk[i]].kids[1], rk[1])
          [] r.kind = "PropertySignature" -> l.kind = "PropertySignature" /\ Extends(h, lk[2], rk[2])
          [] r.kind = "ObjectLiteral" ->
                /\ l.kind = "ObjectLiteral"
                /\ \A child \in Range(ForEachChild(r)) :
                      LET same == FindChild(h, left, h.types[child].hash)
                      IN  same # <<>> /\ Extends(h, same[1], child)
          [] r.kind = "Union" -> ExtendsUnion(h, left, right)
          [] r.kind = "Function" ->
                /\ l.kind = "Function" /\ Len(lk) <= Len(rk)
                /\ \A i \in 2..Len(lk) : Extends(h, lk[i], rk[i])
          [] r.kind = "Parameter" -> Extends(h, IF l.kind = "Parameter" THEN lk[1] ELSE left, rk[1])
          [] r.kind = "Literal" -> ExtendsLiteral(l, r)
          [] r.kind \in {"String", "Number", "Boolean"} -> ExtendsPrimitive(l, r.kind)
          [] OTHER -> FALSE
=============================================================================
