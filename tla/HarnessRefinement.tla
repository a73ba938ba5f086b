-------------------------- MODULE HarnessRefinement --------------------------
(***************************************************************************)
(* The harness implements PaidCall: the state of the abstract              *)
(* specification is read off claims, records, journal file and ledger      *)
(* history, for as long as every write succeeds.                           *)
(***************************************************************************)
EXTENDS Harness

\* The charge of a crashed delivery whose entry in calls.json is still open
\* and not credited by the reconciliation under way.
Owed(c) ==
    /\ c \in dead /\ Keyed(c)
    /\ callsFile[KeyOf[c]].owner = c
    /\ ~callsFile[KeyOf[c]].done
    /\ credited # KeyOf[c]

BillOf(c) ==
    IF c \notin charged THEN "none"
    ELSE IF Owed(c) THEN "owed"
    ELSE IF refunds[c] > 0 THEN "returned"
    ELSE IF c \in dead THEN "lost"
    ELSE IF pc[c] = "done" /\ result[c] = "ok" THEN "kept"
    ELSE "held"

Replayed == {k \in Keys : \E c \in Calls : /\ Settled(c) /\ KeyOf[c] = k
                                          /\ now <= rec[c].expires}

\* The abstract state.
Sound       == diskFaults = 0
billBar     == [c \in Calls |-> IF Sound THEN BillOf(c) ELSE "none"]
givenBar    == [c \in Calls |-> IF Sound THEN refunds[c] ELSE 0]
settledBar  == IF Sound THEN Replayed ELSE {}
crashedBar  == IF Sound THEN crashes ELSE 0
servingBar  == Sound => phase = "up"

Paid == INSTANCE PaidCall WITH serving <- servingBar, bill <- billBar,
            given <- givenBar, settled <- settledBar, crashed <- crashedBar,
            faulty <- ~Sound

\* The harness implements its promise: a charge is held by one delivery of a
\* key at a time, kept once its call is settled, given back when its tool
\* failed or a crash interrupted it, and never again inside the replay window
\* (AddToolPriced, completeCall, openJournal).
ImplementsPaidCall == Paid!PaidSpec

\* A charge is given back at most once, plus once for every crash: the credit
\* and the removal of the entry are two writes, and only a crash between
\* them repeats the first (openJournal).
GivenBackOncePerCrash ==
    diskFaults = 0 => \A c \in Calls : refunds[c] <= 1 + crashes
=============================================================================
