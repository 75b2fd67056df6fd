--------------------------- MODULE MCBytecodeCache ---------------------------
(* Bounded instances of BytecodeCache: two texts, a handful of writes. *)
EXTENDS BytecodeCache
=============================================================================
