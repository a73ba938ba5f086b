------------------------------ MODULE MCRelay ------------------------------
(***************************************************************************)
(* Small instances of Relay for TLC: one logical call with every fault of  *)
(* the link and the bot, or two calls on one link.                         *)
(***************************************************************************)
EXTENDS Relay, TLC

CONSTANTS a1, a2, a3, b1, b2, b3, ra, rb, k1, k2, p1

\* Each relay has its deliveries, and one key for all of them.
InOrder    == [r \in Relays |-> IF r = ra THEN <<a1, a2, a3>> ELSE <<b1, b2, b3>>]
OneKeyEach == [c \in Calls |-> IF c \in {a1, a2, a3} THEN k1 ELSE k2]
OneCaller  == [c \in Calls |-> p1]

\* Two relays change places with their deliveries and keys.
Swapped    == {ra :> rb @@ rb :> ra @@ a1 :> b1 @@ b1 :> a1 @@ a2 :> b2 @@ b2 :> a2
               @@ a3 :> b3 @@ b3 :> a3 @@ k1 :> k2 @@ k2 :> k1}
\* Constraint: no request reaches a handler.
NoneArrives == \A d \in Calls : pc[d] = "new"
=============================================================================
