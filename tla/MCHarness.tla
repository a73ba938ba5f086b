----------------------------- MODULE MCHarness -----------------------------
(***************************************************************************)
(* A small instance of Harness for TLC: two deliveries of one keyed        *)
(* logical call and an unkeyed one, paid from one balance.                 *)
(***************************************************************************)
EXTENDS HarnessRefinement, TLC

CONSTANTS c1, c2, c3, k1, p1

OneCaller     == [c \in Calls |-> p1]
TwoAndUnkeyed == [c \in Calls |-> IF c = c3 THEN NoKey ELSE k1]

\* The two deliveries of one key are interchangeable.
Symmetry == Permutations({c1, c2})
=============================================================================
