----------------------------- MODULE MCDirectory -----------------------------
(***************************************************************************)
(* Instances of Directory: two registrations or spot checks of a provider  *)
(* that tips enough for both, and quotes up to and over the budget.        *)
(***************************************************************************)
EXTENDS Directory
=============================================================================
