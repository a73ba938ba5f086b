---------------------------- MODULE MCBridgeSpend ----------------------------
(***************************************************************************)
(* Instances of BridgeSpend: two calls to one bot for the same amount, one *)
(* for no amount at all, and a tip of the same amount sent from the chat.  *)
(***************************************************************************)
EXTENDS BridgeSpend

CONSTANTS bot, c1, c2, c3

Payees     == [p \in Calls \cup Others |-> bot]
Shortfalls == [c \in Calls |-> IF c = c1 THEN 2 ELSE 0]
Prices     == [p \in Calls \cup Others |-> IF p = c3 THEN 0 ELSE 2]

Policy(mode, perCall, perDay) == [mode |-> mode, perCall |-> perCall, perDay |-> perDay]
Autopay  == {Policy("autopay", 2, 3)}
Either   == {Policy("autopay", 2, 3), Policy("approval", 2, 3)}
=============================================================================
