---------------------------- MODULE MCCartPairing ----------------------------
(***************************************************************************)
(* Model checking of CartPairing: two token identities, interchangeable    *)
(* where only safety is checked.                                           *)
(***************************************************************************)
EXTENDS CartPairing, TLC

Symmetry == Permutations(Requests)
=============================================================================
