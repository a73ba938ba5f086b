------------------------------- MODULE Harness -------------------------------
(***************************************************************************)
(* The serving harness (server/harness.go, server/journal.go): the tool    *)
(* handler AddToolPriced installs, from the claim of the idempotency key   *)
(* to the recorded outcome, over the ledger and the paid-call journal,     *)
(* with process crashes and the reconciliation openJournal runs at start.  *)
(*                                                                         *)
(* Every delivery of a tools/call request is a member of Calls and runs    *)
(* the handler as its own goroutine; a transport retry or a post-payment   *)
(* reissue of one logical call is another delivery with the same key.      *)
(***************************************************************************)
EXTENDS Ledger, FiniteSets, Functions

CONSTANTS
    Calls,          \* deliveries of tools/call requests
    Keys,           \* the harness's claim keys, "peer|callKey"
    NoKey,          \* the key of a delivery without a usable callKey
    NoCall,         \* no delivery
    KeyOf,          \* the key each delivery carries
    CallerOf,       \* the peer each delivery comes from
    Prices,         \* what a PriceFunc may return
    Tips,           \* amounts the tip loop may credit
    MaxDeposit,     \* bound: what one peer may be credited in all
    CallKeyTTL,     \* replay window of a completed outcome, in clock ticks
    MaxTime,        \* bound: last value of the clock
    MaxCrashes      \* bound: how often the process may crash

ASSUME HarnessAssumption ==
    /\ NoKey \notin Keys
    /\ NoCall \notin Calls
    /\ KeyOf \in [Calls -> Keys \cup {NoKey}]
    /\ CallerOf \in [Calls -> Peers]
    /\ \A c, d \in Calls :
          KeyOf[c] = KeyOf[d] /\ KeyOf[c] # NoKey => CallerOf[c] = CallerOf[d]
    /\ Prices \subseteq Nat
    /\ Tips \subseteq Nat
    /\ MaxDeposit \in Nat
    /\ CallKeyTTL \in Nat
    /\ MaxTime \in Nat
    /\ MaxCrashes \in Nat

\* There are finitely many deliveries: what they cost adds up (LedgerAddsUp).
ASSUME FiniteDeliveries == IsFiniteSet(Calls)

VARIABLES
    phase,      \* "up", "down" (crashed) or "recovering" (in openJournal)
    now,        \* the clock
    crashes,    \* crashes so far
    pc,         \* where each delivery's handler is
    dead,       \* deliveries whose process crashed under them
    price,      \* priceAtoms of each delivery
    result,     \* what fn returned to each delivery
    reply,      \* what the handler returned to each delivery
    waits,      \* the record a duplicate waits on, named by its claimer
    calls,      \* Harness.calls: key -> claimer of its record
    rec,        \* the callRecord each claimer created
    journal,    \* callJournal.data
    callsFile,  \* what calls.json holds
    owed,       \* openJournal: interrupted entries still to visit
    credited,   \* openJournal: entry refunded and not yet removed
    deposited,  \* history: what tips credited to each peer
    charged,    \* history: deliveries whose debit succeeded
    refunds     \* history: refunds of each delivery's charge

procVars  == <<phase, now, crashes>>
callVars  == <<pc, price, result, reply, waits>>
claimVars == <<calls, rec>>
jVars     == <<journal, callsFile>>
openVars  == <<owed, credited>>
histVars  == <<deposited, charged, refunds>>
vars == <<ledgerVars, procVars, callVars, dead, claimVars, jVars, openVars,
          histVars>>

Steps    == {"new", "wait", "admit", "debit", "journal", "run", "refund",
             "finish", "done"}
Outcomes == {"none", "ok", "err", "notRetained"}
Replies  == Outcomes \cup {"empty", "refused", "unpaid", "cancelled"}

\* A callRecord: its done channel, its outcome ("none": expires is zero).
Record   == [closed : BOOLEAN, outcome : Outcomes, expires : Nat]
NewRecord == [closed |-> FALSE, outcome |-> "none", expires |-> 0]
Abandoned == [closed |-> TRUE, outcome |-> "none", expires |-> 0]

\* A journalEntry; owner names the delivery it was charged for (Peer is the
\* owner's caller), and an outcome over the size cap is "notRetained".
Entry    == [owner : Calls \cup {NoCall}, atoms : Nat, done : BOOLEAN,
             expires : Nat, outcome : Outcomes]
NoEntry  == [owner |-> NoCall, atoms |-> 0, done |-> FALSE, expires |-> 0,
             outcome |-> "none"]
Charge(c) == [owner |-> c, atoms |-> price[c], done |-> FALSE, expires |-> 0,
              outcome |-> "none"]

\* Mutant: a failed call's error is not kept in its entry.
DoneWithoutErr(e, outcome, expires) ==
    [owner |-> e.owner, atoms |-> e.atoms, done |-> TRUE, expires |-> expires,
     outcome |-> IF outcome = "err" THEN "ok" ELSE outcome]

\* The entry of a completed call.
Done(e, outcome, expires) ==
    [owner |-> e.owner, atoms |-> e.atoms, done |-> TRUE, expires |-> expires,
     outcome |-> outcome]

Keyed(c) == KeyOf[c] # NoKey

\* The handler runs in the current process and owns its execution.
Executing(c) ==
    /\ c \notin dead
    /\ pc[c] \in {"admit", "debit", "journal", "run", "refund", "finish"}

\* Every value has its type: no balance goes negative, a delivery waits only
\* for another (claimCall), and a journal entry belongs to a delivery.
TypeOK ==
    /\ LedgerTypeOK
    /\ phase \in {"up", "down", "recovering"}
    /\ now \in 0..MaxTime
    /\ crashes \in 0..MaxCrashes
    /\ pc \in [Calls -> Steps]
    /\ dead \subseteq Calls
    /\ price \in [Calls -> Nat]
    /\ result \in [Calls -> Outcomes]
    /\ reply \in [Calls -> Replies]
    /\ waits \in [Calls -> Calls \cup {NoCall}]
    /\ \A c \in Calls : pc[c] = "wait" => waits[c] # NoCall
    /\ calls \in [Keys -> Calls \cup {NoCall}]
    /\ rec \in [Calls -> Record]
    /\ journal \in [Keys -> Entry]
    /\ callsFile \in [Keys -> Entry]
    /\ owed \subseteq Keys
    /\ credited \in Keys \cup {NoKey}
    /\ deposited \in [Peers -> Nat]
    /\ charged \subseteq Calls
    /\ refunds \in [Calls -> Nat]

Init ==
    /\ balances = [p \in Peers |-> 0]
    /\ ledgerFile = balances
    /\ diskFaults = 0
    /\ phase = "up"
    /\ now = 0
    /\ crashes = 0
    /\ pc = [c \in Calls |-> "new"]
    /\ dead = {}
    /\ price = [c \in Calls |-> 0]
    /\ result = [c \in Calls |-> "none"]
    /\ reply = [c \in Calls |-> "none"]
    /\ waits = [c \in Calls |-> NoCall]
    /\ calls = [k \in Keys |-> NoCall]
    /\ rec = [c \in Calls |-> NewRecord]
    /\ journal = [k \in Keys |-> NoEntry]
    /\ callsFile = journal
    /\ owed = {}
    /\ credited = NoKey
    /\ deposited = [p \in Peers |-> 0]
    /\ charged = {}
    /\ refunds = [c \in Calls |-> 0]

-----------------------------------------------------------------------------
(* The call journal.                                                       *)

\* persistLocked of the journal, called with the mutated entries j.
persistJournal(j, ok) ==
    /\ journal' = j
    /\ callsFile' = IF ok THEN j ELSE callsFile
    /\ Write(ok)
    /\ UNCHANGED <<balances, ledgerFile>>

\* Mutant: the entry expires at the last instant of its window.
EntryExpiredEarly(e) == e.done /\ now >= e.expires

EntryExpired(e) == e.done /\ now > e.expires

\* gc: drops completed entries whose replay window passed; writes the file
\* only when it dropped one.
gc(ok) ==
    LET kept == [k \in Keys |->
                    IF EntryExpired(journal[k]) THEN NoEntry ELSE journal[k]]
    IN  IF kept = journal
        THEN ok /\ UNCHANGED <<jVars, ledgerVars>>
        ELSE persistJournal(kept, ok)

\* complete: an entry the key has is marked done; an outcome over the cap is
\* not kept.  An error carries no result and no output, so it always fits.
complete(k, outcome, kept, expires, ok) ==
    IF journal[k] = NoEntry
    THEN ok /\ kept /\ UNCHANGED <<jVars, ledgerVars>>
    ELSE /\ outcome = "err" => kept
         /\ LET o == IF kept THEN outcome ELSE "notRetained"
            IN  persistJournal(
                  [journal EXCEPT ![k] = Done(journal[k], o, expires)], ok)

-----------------------------------------------------------------------------
(* The handler.  A step ends where another goroutine or a crash can be     *)
(* observed: at a lock, at a file write, at the tool's own code.           *)

Goto(c, l) == pc' = [pc EXCEPT ![c] = l]

Return(c, r) ==
    /\ Goto(c, "done")
    /\ reply' = [reply EXCEPT ![c] = r]

\* Mutant: the purge does not skip records that are not completed.
RecordExpiredOrOpen(r) == now > r.expires

RecordExpired(r) == r.outcome # "none" /\ now > r.expires

\* Mutant: a completed record no longer answers for its key.
ClaimsOpenOnly == [k \in Keys |->
                      IF calls[k] # NoCall /\ rec[calls[k]].closed
                      THEN NoCall ELSE calls[k]]

\* The claims left after claimCall's purge of expired records.
Claims == [k \in Keys |->
              IF calls[k] # NoCall /\ RecordExpired(rec[calls[k]])
              THEN NoCall ELSE calls[k]]

\* A delivery without a key of 8 to 128 characters is not deduplicated.
ArriveUnkeyed(c) ==
    /\ phase = "up"
    /\ pc[c] = "new" /\ ~Keyed(c)
    /\ Goto(c, "admit")
    /\ UNCHANGED <<ledgerVars, procVars, price, result, reply, waits, dead,
                   claimVars, jVars, openVars, histVars>>

\* claimCall: purge and gc, then claim the key or become its duplicate.
claimCall(c, ok) ==
    /\ phase = "up"
    /\ pc[c] = "new" /\ Keyed(c)
    /\ gc(ok)
    /\ IF Claims[KeyOf[c]] = NoCall
       THEN /\ calls' = [Claims EXCEPT ![KeyOf[c]] = c]
            /\ rec' = [rec EXCEPT ![c] = NewRecord]
            /\ Goto(c, "admit")
            /\ UNCHANGED waits
       ELSE /\ calls' = Claims
            /\ Goto(c, "wait")
            /\ waits' = [waits EXCEPT ![c] = Claims[KeyOf[c]]]
            /\ UNCHANGED rec
    /\ UNCHANGED <<procVars, price, result, reply, dead, openVars, histVars>>

\* A duplicate returns what the record holds once its channel is closed.
AnswerDuplicate(c) ==
    /\ c \notin dead /\ pc[c] = "wait"
    /\ rec[waits[c]].closed
    /\ LET o == rec[waits[c]].outcome
       IN  Return(c, IF o = "none" THEN "empty" ELSE o)
    /\ UNCHANGED <<ledgerVars, procVars, price, result, waits, dead, claimVars,
                   jVars, openVars, histVars>>

\* ... or gives up when its context ends first.
CancelDuplicate(c) ==
    /\ c \notin dead /\ pc[c] = "wait"
    /\ Return(c, "cancelled")
    /\ UNCHANGED <<ledgerVars, procVars, price, result, waits, dead, claimVars,
                   jVars, openVars, histVars>>

\* Mutant: the claim is deleted and its channel left open.
releaseWithoutClose(c) ==
    IF Keyed(c)
    THEN calls' = [calls EXCEPT ![KeyOf[c]] = NoCall] /\ UNCHANGED rec
    ELSE UNCHANGED claimVars

\* releaseCall: the claim is deleted and its channel closed, unrecorded.
releaseCall(c) ==
    IF Keyed(c)
    THEN /\ calls' = [calls EXCEPT ![KeyOf[c]] = NoCall]
         /\ rec' = [rec EXCEPT ![c] = Abandoned]
    ELSE UNCHANGED claimVars

\* refuse: a pre-execution refusal releases the key.
refuse(c, r) == Return(c, r) /\ releaseCall(c)

\* The rate limiter (takeToken) or the PriceFunc refuses the call.
RefuseEarly(c) ==
    /\ Executing(c) /\ pc[c] = "admit"
    /\ refuse(c, "refused")
    /\ UNCHANGED <<ledgerVars, procVars, price, result, waits, dead, jVars,
                   openVars, histVars>>

\* The call is within its rate and priced; a free call runs at once.
Price(c, atoms) ==
    /\ Executing(c) /\ pc[c] = "admit"
    /\ price' = [price EXCEPT ![c] = atoms]
    /\ Goto(c, IF atoms > 0 THEN "debit" ELSE "run")
    /\ UNCHANGED <<ledgerVars, procVars, result, reply, waits, dead, claimVars,
                   jVars, openVars, histVars>>

\* charge refused with payment_required: the balance does not cover it.
RefuseUnpaid(c) ==
    /\ Executing(c) /\ pc[c] = "debit"
    /\ Insufficient(CallerOf[c], price[c])
    /\ refuse(c, "unpaid")
    /\ UNCHANGED <<ledgerVars, procVars, price, result, waits, dead, jVars,
                   openVars, histVars>>

\* charge: the balance is debited.  A debit that could not be persisted
\* also answers payment_required, with the memory balance already reduced.
charge(c, ok) ==
    /\ Executing(c) /\ pc[c] = "debit"
    /\ Debit(CallerOf[c], price[c], ok)
    /\ IF ok
       THEN /\ Goto(c, IF Keyed(c) THEN "journal" ELSE "run")
            /\ charged' = charged \cup {c}
            /\ UNCHANGED <<reply, claimVars>>
       ELSE refuse(c, "unpaid") /\ UNCHANGED charged
    /\ UNCHANGED <<procVars, price, result, waits, dead, jVars, openVars,
                   deposited, refunds>>

\* Mutant: the charge is journaled in memory only.
journalChargedInMemory(c, ok) ==
    /\ Executing(c) /\ pc[c] = "journal"
    /\ ok
    /\ journal' = [journal EXCEPT ![KeyOf[c]] = Charge(c)]
    /\ Goto(c, "run")
    /\ UNCHANGED <<ledgerVars, procVars, price, result, reply, waits, dead,
                   claimVars, callsFile, openVars, histVars>>

\* journal.charged, before the handler runs; its error is only logged.
journalCharged(c, ok) ==
    /\ Executing(c) /\ pc[c] = "journal"
    /\ persistJournal([journal EXCEPT ![KeyOf[c]] = Charge(c)], ok)
    /\ Goto(c, "run")
    /\ UNCHANGED <<procVars, price, result, reply, waits, dead, claimVars,
                   openVars, histVars>>

\* Mutant: a failed call is not refunded.
RunWithoutRefund(c, o) ==
    /\ Executing(c) /\ pc[c] = "run"
    /\ result' = [result EXCEPT ![c] = o]
    /\ Goto(c, "finish")
    /\ UNCHANGED <<ledgerVars, procVars, price, reply, waits, dead, claimVars,
                   jVars, openVars, histVars>>

\* fn: the operator's tool code, which succeeds or returns an error.
Run(c, o) ==
    /\ Executing(c) /\ pc[c] = "run"
    /\ o \in {"ok", "err"}
    /\ result' = [result EXCEPT ![c] = o]
    /\ Goto(c, IF o = "err" /\ price[c] > 0 THEN "refund" ELSE "finish")
    /\ UNCHANGED <<ledgerVars, procVars, price, reply, waits, dead, claimVars,
                   jVars, openVars, histVars>>

\* The caller does not pay for the operator's failure.
RefundFailure(c, ok) ==
    /\ Executing(c) /\ pc[c] = "refund"
    /\ Credit(CallerOf[c], price[c], ok)
    /\ refunds' = [refunds EXCEPT ![c] = @ + 1]
    /\ Goto(c, "finish")
    /\ UNCHANGED <<procVars, price, result, reply, waits, dead, claimVars,
                   jVars, openVars, deposited, charged>>

\* finish and completeCall: the outcome is recorded in memory, then in the
\* journal, then the channel is closed and the handler returns it.
completeCall(c, kept, ok) ==
    /\ Executing(c) /\ pc[c] = "finish"
    /\ Return(c, result[c])
    /\ IF Keyed(c)
       THEN /\ rec' = [rec EXCEPT ![c] = [closed |-> TRUE,
                                          outcome |-> result[c],
                                          expires |-> now + CallKeyTTL]]
            /\ complete(KeyOf[c], result[c], kept, now + CallKeyTTL, ok)
       ELSE ok /\ kept /\ UNCHANGED <<rec, jVars, ledgerVars>>
    /\ UNCHANGED <<procVars, price, result, waits, dead, calls, openVars,
                   histVars>>

-----------------------------------------------------------------------------
(* The environment, crashes and openJournal.                               *)

\* The tip loop credits a received tip (see TipCredit).
TopUp(p, atoms, ok) ==
    /\ phase = "up"
    /\ deposited[p] + atoms <= MaxDeposit
    /\ Credit(p, atoms, ok)
    /\ deposited' = [deposited EXCEPT ![p] = @ + atoms]
    /\ UNCHANGED <<procVars, callVars, dead, claimVars, jVars, openVars,
                   charged, refunds>>

Tick ==
    /\ now < MaxTime
    /\ now' = now + 1
    /\ UNCHANGED <<ledgerVars, phase, crashes, callVars, dead, claimVars, jVars,
                   openVars, histVars>>

\* The process dies: handlers, claims and in-memory state are gone.
Crash ==
    /\ phase # "down"
    /\ crashes < MaxCrashes
    /\ phase' = "down"
    /\ crashes' = crashes + 1
    /\ dead' = dead \cup {c \in Calls : pc[c] \notin {"new", "done"}}
    /\ calls' = [k \in Keys |-> NoCall]
    /\ owed' = {}
    /\ credited' = NoKey
    /\ UNCHANGED <<ledgerVars, now, callVars, rec, jVars, histVars>>

\* Mutant: completed entries count as interrupted too.
interruptedOrDone(j) == {k \in Keys : j[k] # NoEntry}

\* The entries charged and never completed.
interrupted(j) == {k \in Keys : j[k] # NoEntry /\ ~j[k].done}

\* NewHarness: the ledger and the journal are read back.
Restart ==
    /\ phase = "down"
    /\ phase' = "recovering"
    /\ OpenLedger
    /\ journal' = callsFile
    /\ owed' = interrupted(callsFile)
    /\ UNCHANGED <<now, crashes, callVars, dead, claimVars, callsFile, credited,
                   histVars>>

\* Mutant: the credit is retried although it was persisted.
RefundAndRetry(k, ok) ==
    /\ phase = "recovering"
    /\ credited = NoKey /\ k \in owed
    /\ Credit(CallerOf[journal[k].owner], journal[k].atoms, ok)
    /\ refunds' = [refunds EXCEPT ![journal[k].owner] = @ + 1]
    /\ UNCHANGED <<procVars, callVars, dead, claimVars, jVars, openVars, deposited,
                   charged>>

\* openJournal refunds one interrupted charge; when the credit cannot be
\* persisted the entry is kept for the next start.
RefundInterrupted(k, ok) ==
    /\ phase = "recovering"
    /\ credited = NoKey /\ k \in owed
    /\ Credit(CallerOf[journal[k].owner], journal[k].atoms, ok)
    /\ refunds' = [refunds EXCEPT ![journal[k].owner] = @ + 1]
    /\ IF ok THEN credited' = k /\ UNCHANGED owed
             ELSE owed' = owed \ {k} /\ UNCHANGED credited
    /\ UNCHANGED <<procVars, callVars, dead, claimVars, jVars, deposited, charged>>

\* ... and then removes its entry.
RemoveInterrupted(ok) ==
    /\ phase = "recovering"
    /\ credited # NoKey
    /\ persistJournal([journal EXCEPT ![credited] = NoEntry], ok)
    /\ owed' = owed \ {credited}
    /\ credited' = NoKey
    /\ UNCHANGED <<procVars, callVars, dead, claimVars, histVars>>

\* completedRecords: the outcomes still inside their window answer
\* duplicates again; then gc, and the harness serves.
Serve(ok) ==
    /\ phase = "recovering"
    /\ owed = {} /\ credited = NoKey
    /\ LET replayable == {k \in Keys : /\ journal[k].done
                                       /\ ~EntryExpired(journal[k])}
       IN  /\ calls' = [k \in Keys |-> IF k \in replayable
                                       THEN journal[k].owner ELSE NoCall]
           /\ rec' = [c \in Calls |->
                IF Keyed(c) /\ KeyOf[c] \in replayable
                            /\ journal[KeyOf[c]].owner = c
                THEN [closed  |-> TRUE,
                      outcome |-> journal[KeyOf[c]].outcome,
                      expires |-> journal[KeyOf[c]].expires]
                ELSE rec[c]]
    /\ gc(ok)
    /\ phase' = "up"
    /\ UNCHANGED <<now, crashes, callVars, dead, openVars, histVars>>

-----------------------------------------------------------------------------
\* One step of the goroutine serving delivery c.
HandlerStep(c) ==
    \/ AnswerDuplicate(c)
    \/ RefuseEarly(c)
    \/ \E atoms \in Prices : Price(c, atoms)
    \/ RefuseUnpaid(c)
    \/ \E ok \in BOOLEAN : charge(c, ok)
    \/ \E ok \in BOOLEAN : journalCharged(c, ok)
    \/ \E o \in {"ok", "err"} : Run(c, o)
    \/ \E ok \in BOOLEAN : RefundFailure(c, ok)
    \/ \E kept, ok \in BOOLEAN : completeCall(c, kept, ok)

\* One step of NewHarness after a crash.
RecoveryStep ==
    \/ Restart
    \/ \E k \in Keys, ok \in BOOLEAN : RefundInterrupted(k, ok)
    \/ \E ok \in BOOLEAN : RemoveInterrupted(ok)
    \/ \E ok \in BOOLEAN : Serve(ok)

Next ==
    \/ \E c \in Calls : \/ ArriveUnkeyed(c)
                        \/ \E ok \in BOOLEAN : claimCall(c, ok)
                        \/ CancelDuplicate(c)
                        \/ HandlerStep(c)
    \/ \E p \in Peers, atoms \in Tips, ok \in BOOLEAN : TopUp(p, atoms, ok)
    \/ Tick
    \/ Crash
    \/ RecoveryStep

Spec == Init /\ [][Next]_vars

-----------------------------------------------------------------------------
(* Properties.                                                             *)

\* A paid keyed call whose outcome was recorded and returned.
Settled(c) == Keyed(c) /\ c \in charged /\ pc[c] = "done"

\* At most one execution per key is in progress: concurrent deliveries of
\* one logical call never run the gates, the charge or the tool twice at
\* the same time (claimCall, completeCall and the purge of expired records).
SingleFlight ==
    \A c, d \in Calls :
        /\ Executing(c) /\ Executing(d)
        /\ Keyed(c) /\ KeyOf[c] = KeyOf[d]
        => c = d

\* Inside the replay window a settled paid call is never executed again, not
\* even after crashes and restarts: completeCall journals the outcome before
\* anybody sees it and openJournal brings its record back.
SettledIsFinal ==
    diskFaults = 0 =>
        \A c, d \in Calls :
            /\ Settled(c) /\ now <= rec[c].expires
            /\ c # d /\ KeyOf[c] = KeyOf[d]
            => ~Executing(d)

\* A paid call that was answered with its output is never refunded, whatever
\* crashes follow: no start finds its charge still open in the journal.
SettledStaysPaid ==
    diskFaults = 0 =>
        \A c \in Calls : Settled(c) /\ reply[c] = "ok" => refunds[c] = 0

\* When the harness serves again, every charge that was in the journal and
\* whose execution a crash interrupted has been refunded (openJournal), also
\* when further crashes hit the reconciliation itself.
InterruptedIsRefunded ==
    phase = "up" /\ diskFaults = 0 =>
        \A c \in dead :
            /\ Keyed(c) /\ c \in charged
            /\ pc[c] \in {"run", "refund", "finish"}
            => refunds[c] >= 1

\* An outcome a delivery reports was produced by an execution under its own
\* key: neither the records, nor the journal, nor a restart mix keys up.
OutcomeWasProduced ==
    \A d \in Calls :
        reply[d] \in {"ok", "err"} =>
            \E c \in Calls : /\ c = d \/ (Keyed(d) /\ KeyOf[c] = KeyOf[d])
                            /\ result[c] = reply[d]

\* What delivery c may cost its caller as things stand.  A living one costs
\* its price while its charge is not given back, and for good once its tool
\* succeeded; a crashed one only if its charge had not reached the journal, or
\* had no key under which the journal could cover it.
Cost(c) ==
    IF \/ c \notin dead /\ c \in charged /\ pc[c] \in {"journal", "run", "refund"}
       \/ c \notin dead /\ result[c] = "ok"
       \/ c \in dead /\ c \in charged /\ (~Keyed(c) \/ pc[c] = "journal")
    THEN price[c] ELSE 0

Mine(p) == {c \in Calls : CallerOf[c] = p}

AllCosts(p) == SumFunctionOnSet([c \in Calls |-> Cost(c)], Mine(p))

\* As long as every write succeeds, the ledger adds up.  Without a crash it
\* holds what the tips brought minus what the successful and the running
\* calls cost: refusals, failures and duplicates cost nothing.  After crashes
\* a caller is short by no more than that and the charges of crashed calls
\* that had not reached the journal: openJournal gives every other one back.
LedgerAddsUp ==
    diskFaults = 0 =>
        \A p \in Peers :
            /\ crashes = 0 => balances[p] = deposited[p] - AllCosts(p)
            /\ phase = "up" => balances[p] >= deposited[p] - AllCosts(p)
=============================================================================
