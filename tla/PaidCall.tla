------------------------------- MODULE PaidCall -------------------------------
(***************************************************************************)
(* What the serving harness promises about the money of its calls, without *)
(* ledger, journal, records or handlers: every charge is held while its    *)
(* call runs and is then kept for an output or given back.                 *)
(***************************************************************************)
EXTENDS Naturals

CONSTANTS
    Calls,      \* deliveries of calls
    Keys,       \* idempotency keys
    KeyOf       \* the key of a delivery; some deliveries have none

VARIABLES
    serving,    \* whether calls are taken up
    bill,       \* what became of each delivery's charge
    given,      \* how often it was given back
    settled,    \* keys whose outcome answers every further delivery
    crashed,    \* how often the service has crashed
    faulty      \* a write has failed: nothing is promised any more

paidVars == <<serving, bill, given, settled, crashed, faulty>>

\* "owed": interrupted by a crash and still to be given back; "lost": a crash
\* took it, unjournaled.
Bills == {"none", "held", "kept", "returned", "owed", "lost"}

Rival(c, d) == c # d /\ KeyOf[c] \in Keys /\ KeyOf[d] = KeyOf[c]

PaidInit ==
    /\ serving = TRUE
    /\ bill = [c \in Calls |-> "none"]
    /\ given = [c \in Calls |-> 0]
    /\ settled = {}
    /\ crashed = 0
    /\ faulty = FALSE

\* A delivery is charged: no other one of its key holds a charge, and no
\* outcome of its key answers it instead.
Hold(c) ==
    /\ serving /\ ~faulty
    /\ bill[c] = "none" /\ KeyOf[c] \notin settled
    /\ \A d \in Calls : Rival(c, d) => bill[d] # "held"
    /\ bill' = [bill EXCEPT ![c] = "held"]
    /\ UNCHANGED <<serving, given, settled, crashed, faulty>>

\* The tool failed.
GiveBack(c) ==
    /\ ~faulty /\ bill[c] = "held"
    /\ bill' = [bill EXCEPT ![c] = "returned"]
    /\ given' = [given EXCEPT ![c] = @ + 1]
    /\ UNCHANGED <<serving, settled, crashed, faulty>>

\* The call is over: its output keeps the charge, and its outcome answers
\* what else comes with its key.
Settle(c) ==
    /\ ~faulty /\ bill[c] \in {"held", "returned"}
    /\ bill' = [bill EXCEPT ![c] = IF @ = "held" THEN "kept" ELSE @]
    /\ settled' = settled \cup ({KeyOf[c]} \cap Keys)
    /\ UNCHANGED <<serving, given, crashed, faulty>>

\* Replay windows end.
Lapse ==
    /\ ~faulty
    /\ settled' \subseteq settled
    /\ UNCHANGED <<serving, bill, given, crashed, faulty>>

\* A crash: what is held is owed or lost; what was given back and not yet
\* closed is owed once more.
Crash ==
    /\ ~faulty
    /\ serving' = FALSE
    /\ crashed' = crashed + 1
    /\ bill' \in [Calls -> Bills]
    /\ \A c \in Calls :
          \/ bill'[c] = bill[c] /\ bill[c] # "held"
          \/ bill[c] = "held" /\ bill'[c] \in {"owed", "lost"}
          \/ bill[c] = "returned" /\ bill'[c] = "owed"
    /\ UNCHANGED <<given, settled, faulty>>

\* Reconciliation: what is owed is given back ...
MakeGood(c) ==
    /\ ~faulty /\ ~serving /\ bill[c] = "owed"
    /\ bill' = [bill EXCEPT ![c] = "returned"]
    /\ given' = [given EXCEPT ![c] = @ + 1]
    /\ UNCHANGED <<serving, settled, crashed, faulty>>

\* ... before calls are taken up again.
Serve ==
    /\ ~faulty /\ ~serving
    /\ \A c \in Calls : bill[c] # "owed"
    /\ serving' = TRUE
    /\ UNCHANGED <<bill, given, settled, crashed, faulty>>

\* A write fails; from then on the state says nothing.
Fault ==
    /\ ~faulty
    /\ faulty' = TRUE
    /\ serving' = TRUE
    /\ bill' = [c \in Calls |-> "none"]
    /\ given' = [c \in Calls |-> 0]
    /\ settled' = {}
    /\ crashed' = 0

PaidNext ==
    \/ \E c \in Calls : Hold(c) \/ GiveBack(c) \/ Settle(c) \/ MakeGood(c)
    \/ Lapse \/ Crash \/ Serve \/ Fault

PaidSpec == PaidInit /\ [][PaidNext]_paidVars
=============================================================================
