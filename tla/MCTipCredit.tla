---------------------------- MODULE MCTipCredit ----------------------------
(* An instance of TipCredit in either host: a peer the bot allows tips      *)
(* twice, then a stranger.                                                  *)
EXTENDS TipCredit

CONSTANTS p1, p2

TipPayers == [t \in TipIds |-> IF t = 3 THEN p2 ELSE p1]
TipMatoms == [t \in TipIds |-> 1500 * t]
=============================================================================
