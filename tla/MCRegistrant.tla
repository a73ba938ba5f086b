---------------------------- MODULE MCRegistrant ----------------------------
(* Instances of Registrant: two registrations at one directory, one at      *)
(* another, both allowed.                                                   *)
EXTENDS Registrant

CONSTANTS d1, d2, j1, j2, j3

Directories == [j \in Jobs |-> IF j = j3 THEN d2 ELSE d1]
=============================================================================
