---------------------------- MODULE MCFederation ----------------------------
(***************************************************************************)
(* An instance of Federation: three goroutines beside each other, all      *)
(* equal until they begin.                                                 *)
(***************************************************************************)
EXTENDS Federation, TLC

Symmetry == Permutations(Jobs)
=============================================================================
