---------------------------- MODULE MCAckQueues ----------------------------
(***************************************************************************)
(* Model checking of AckQueues: calling threads are interchangeable.       *)
(***************************************************************************)
EXTENDS AckQueues, TLC

Symmetry == Permutations(Threads)
=============================================================================
