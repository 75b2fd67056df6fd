---------------------------- MODULE MCPoolArray ----------------------------
(* Bounded instances of PoolArray: classes 1, 2 and 4. *)
EXTENDS PoolArray

SmallClasses == {1, 2, 4}
=============================================================================
