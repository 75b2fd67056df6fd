---------------------------- MODULE MCPoolSingle ----------------------------
(* Bounded instance of PoolSingle: slots of 2 bytes, 2 slots per block. *)
EXTENDS PoolSingle
=============================================================================
