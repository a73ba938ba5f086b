---------------------------- MODULE MCTransport ----------------------------
(***************************************************************************)
(* An instance of the transport.  HandlePM hands a part to the assembler,  *)
(* and takes the router's lock when a message is complete: the two share   *)
(* no state, so either moves while the other is at rest.                   *)
(*   Router: both roles, concurrent handlers, a peer that may have one     *)
(* session at a time, and session ids it can use again.                    *)
(*   Assembler: three messages of several parts and one single-part        *)
(* message from two peers, and parts no Encode produced: one that          *)
(* disagrees on the part count, one that also takes its message over the   *)
(* limit, one whose numbers do not parse.                                  *)
(***************************************************************************)
EXTENDS Router, Assembler, TLC

CONSTANTS p1, p2, m1, m2, m3, m4

Symmetry == Permutations(Handlers) \cup Permutations(InSids)

SenderOf  == [m \in Messages |-> IF m = m3 THEN p2 ELSE p1]
Lengths   == [m \in Messages |-> CASE m = m1 -> 4 [] m = m2 -> 5 [] m = m3 -> 3
                                     [] OTHER -> 2]
Deadlines == [m \in Messages |-> IF m = m1 THEN 1 ELSE IF m = m4 THEN 2 ELSE 0]

RogueParts == {
    [mid |-> m1, seq |-> 1, total |-> 3, exp |-> 0, chunk |-> << <<m1, 0>> >>],
    [mid |-> m1, seq |-> 2, total |-> 3, exp |-> 0, chunk |-> [i \in 1..5 |-> <<m1, 0>>]],
    [mid |-> m3, seq |-> 3, total |-> 2, exp |-> 0, chunk |-> << <<m3, 0>> >>]}

TransportInit == Init /\ AsmInit
TransportNext ==
    \/ AsmInit /\ UNCHANGED asmVars /\ Next
    \/ Init /\ UNCHANGED vars /\ AsmNext
TransportSpec == TransportInit /\ [][TransportNext]_<<vars, asmVars>>
=============================================================================
