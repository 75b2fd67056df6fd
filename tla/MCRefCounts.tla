---------------------------- MODULE MCRefCounts -----------------------------
(* Bounded instance of RefCounts: a few slots, all of them alike, and lists of *)
(* two members, so that a type can be shared, owned twice by one list, and be *)
(* reached again while the queue of one entry is flushed by the recursion.     *)
EXTENDS RefCounts, TLC

Alike == Permutations(Types) \cup Permutations(Holders)
=============================================================================
