----------------------------- MODULE BridgeSpend -----------------------------
(***************************************************************************)
(* How the bridge pays for a call (bridge/payment.go) over the tip rail    *)
(* (bridge/tippayer.go, bridge/tipmatcher.go): caps, human approval, the   *)
(* spend log and its daily window, the wait for the tip's outcome, and     *)
(* outcomes that arrive late, after a restart, or for somebody else's tip. *)
(* One step per critical section; the tip rail and its progress events     *)
(* belong to the host's Bison Relay client and are external.               *)
(***************************************************************************)
EXTENDS Integers, Sequences, FiniteSets, SequencesExt

CONSTANTS
    Calls,              \* tool calls answered with payment_required
    Others,             \* tips the user sends outside the bridge
    BotOf,              \* the payee of each
    Shortfall, Price,   \* the refusal's amounts; Others use Price
    Policies,           \* settings the user may apply
    Window,             \* the daily cap's 24 hours
    SpendKeep,          \* spendKeep
    MaxTime,            \* bound: last value of the clock
    MaxDiskFaults,      \* bound: failed writes of the spend log
    MaxCrashes          \* bound: restarts of the bridge

ASSUME BridgeAssumption ==
    /\ IsFiniteSet(Calls) /\ Calls \cap Others = {}
    /\ Shortfall \in [Calls -> Int] /\ Price \in [Calls \cup Others -> Int]
    /\ \A s \in Policies : /\ s.mode \in {"autopay", "approval"}
                           /\ s.perCall \in Int /\ s.perDay \in Int
    /\ {Window, SpendKeep, MaxTime, MaxDiskFaults, MaxCrashes} \subseteq Nat

VARIABLES
    settings,
    spend,      \* every entry ever logged; the program keeps those after dropped
    dropped,    \* how many of the oldest entries pruning has removed
    spendSeq,
    spendFile,  \* mcpspend.json: spend and dropped when last written
    call,       \* where each call's settle is, and what it remembers
    waiters,    \* TipMatcher.waiters: calls, oldest first
    rail,       \* each tip's state on the rail
    late,       \* tips whose outcome matched no waiter and is on its way to
                \* ResolveSpend
    now, diskFaults, crashes,
    raced,      \* history: a spend was logged between another's check and log
    revived,    \* history: an entry that had been failed was marked paid
    unsure      \* history: calls whose tip was sent though starting it erred

log  == <<spend, dropped, spendSeq, spendFile, diskFaults>>
vars == <<settings, log, call, waiters, rail, late, now, crashes, raced, revived, unsure>>

-----------------------------------------------------------------------------
(* The spend log.                                                          *)

Atoms(p) == IF p \in Calls /\ Shortfall[p] > 0 THEN Shortfall[p] ELSE Price[p]

\* Mutant: a payment under way does not count yet.
countsWhenPaid(status) == status = "paid"

countsTowardCap(status) == status \notin {"failed", "refused"}

InWindow(e) == e.ts >= now - Window

\* spentSinceLocked for the last day.
SpentToday ==
    SumFunctionOnSet([i \in DOMAIN spend |-> spend[i].atoms],
                     {i \in dropped + 1..Len(spend) :
                         InWindow(spend[i]) /\ countsTowardCap(spend[i].status)})

Entry(c, status, seq) ==
    [bot |-> BotOf[c], atoms |-> Atoms(c), ts |-> now, status |-> status, seq |-> seq]

\* Mutant: pending entries can be pruned.
ProtectedByWindow(e) == InWindow(e) /\ countsTowardCap(e.status)

\* An entry pruning must keep.
Protected(e) == (InWindow(e) /\ countsTowardCap(e.status)) \/ e.status = "pending"

\* How many of the oldest entries of s are gone after persistSpendLocked:
\* all but spendKeep, up to the first that is protected.
Pruned(s) ==
    LET first == Len(s) - SpendKeep
        keep  == {i \in dropped + 1..first : Protected(s[i])}
    IN  IF first <= dropped THEN dropped
        ELSE IF keep = {} THEN first ELSE Min(keep) - 1

\* persistSpendLocked with entries s; a failed write is only logged.
persistSpend(s) ==
    /\ spend' = s
    /\ dropped' = Pruned(s)
    /\ \/ spendFile' = [log |-> s, dropped |-> dropped'] /\ UNCHANGED diskFaults
       \/ /\ diskFaults < MaxDiskFaults
          /\ diskFaults' = diskFaults + 1
          /\ UNCHANGED spendFile

\* markSpendLocked.
markSpend(seq, status) ==
    LET at == {i \in dropped + 1..Len(spend) : spend[i].seq = seq /\ seq # 0}
    IN  /\ IF at = {} THEN UNCHANGED <<spend, dropped, spendFile, diskFaults>>
           ELSE persistSpend([spend EXCEPT ![Min(at)].status = status])
        /\ UNCHANGED spendSeq

Outcome(ok) == IF ok THEN "paid" ELSE "failed"

\* ResolveSpend: the oldest pending entry with the payee and the amount.
ResolveSpend(p, ok) ==
    LET at == {i \in dropped + 1..Len(spend) :
                  /\ spend[i].status = "pending"
                  /\ spend[i].atoms = Atoms(p) /\ spend[i].bot = BotOf[p]}
    IN  /\ IF at = {} THEN UNCHANGED <<spend, dropped, spendFile, diskFaults>>
           ELSE persistSpend([spend EXCEPT ![Min(at)].status = Outcome(ok)])
        /\ UNCHANGED spendSeq

-----------------------------------------------------------------------------
(* settle.                                                                 *)

NewCall == [pc |-> "new", seq |-> 0, spent |-> 0,
            decision |-> "none", result |-> "none"]

\* What settle remembered is gone when it has returned.
Returned == [NewCall EXCEPT !.pc = "done"]

Init ==
    /\ settings \in Policies
    /\ spend = <<>> /\ dropped = 0 /\ spendSeq = 0
    /\ spendFile = [log |-> <<>>, dropped |-> 0]
    /\ call = [c \in Calls |-> NewCall]
    /\ waiters = <<>>
    /\ rail = [p \in Calls \cup Others |-> IF p \in Others THEN "running" ELSE "none"]
    /\ late = {}
    /\ now = 0 /\ diskFaults = 0 /\ crashes = 0
    /\ raced = FALSE /\ revived = FALSE /\ unsure = {}

At(c, pc) == call[c].pc = pc
Goto(c, pc) == call' = [call EXCEPT ![c] = IF pc = "done" THEN Returned
                                           ELSE [@ EXCEPT !.pc = pc]]

OverCap(c) ==
    \/ settings.perCall <= 0 \/ Atoms(c) > settings.perCall
    \/ settings.perDay <= 0 \/ SpentToday + Atoms(c) > settings.perDay

\* The settings and the day's total are read once, under the lock.
Settle(c) ==
    /\ At(c, "new")
    /\ LET next == IF Atoms(c) <= 0 THEN "done"
                   ELSE IF OverCap(c) THEN "refuse"
                   ELSE IF settings.mode = "approval" THEN "parked" ELSE "launch"
       IN  call' = [call EXCEPT ![c].pc = next, ![c].spent = SpentToday]
    /\ UNCHANGED <<settings, log, waiters, rail, late, now, crashes, raced, revived, unsure>>

refuse(c) ==
    /\ At(c, "refuse")
    /\ Goto(c, "done")
    /\ spendSeq' = spendSeq + 1
    /\ persistSpend(Append(spend, Entry(c, "refused", spendSeq + 1)))
    /\ UNCHANGED <<settings, waiters, rail, late, now, crashes, raced, revived, unsure>>

\* ResolvePayment: the first decision on a parked payment counts.
ResolvePayment(c, d) ==
    /\ At(c, "parked") /\ call[c].decision = "none"
    /\ call' = [call EXCEPT ![c].decision = d]
    /\ UNCHANGED <<settings, log, waiters, rail, late, now, crashes, raced, revived, unsure>>

\* Mutant: the approval never times out.
awaitForever(c) ==
    /\ At(c, "parked")
    /\ \/ call[c].decision = "approve" /\ Goto(c, "launch")
       \/ call[c].decision = "deny" /\ Goto(c, "refuse")
    /\ UNCHANGED <<settings, log, waiters, rail, late, now, crashes, raced, revived, unsure>>

\* awaitApproval ends with the decision, the timeout or the call's end.
awaitApproval(c) ==
    /\ At(c, "parked")
    /\ \/ call[c].decision = "approve" /\ Goto(c, "launch")
       \/ call[c].decision = "deny" /\ Goto(c, "refuse")
       \/ Goto(c, "refuse")
    /\ UNCHANGED <<settings, log, waiters, rail, late, now, crashes, raced, revived, unsure>>

\* recordSpendLocked: logged before the tip starts.
recordSpend(c) ==
    /\ At(c, "launch")
    /\ call' = [call EXCEPT ![c].pc = "expect", ![c].seq = spendSeq + 1]
    /\ spendSeq' = spendSeq + 1
    /\ persistSpend(Append(spend, Entry(c, "pending", spendSeq + 1)))
    /\ raced' = (raced \/ SpentToday > call[c].spent)
    /\ UNCHANGED <<settings, waiters, rail, late, now, crashes, revived, unsure>>

-----------------------------------------------------------------------------
(* TipPayer.Pay.                                                           *)

\* Cancel: c's waiter is taken out, unless an outcome has done so.
Cancel(c) ==
    waiters' = IF c \in Range(waiters)
               THEN RemoveAt(waiters, CHOOSE i \in DOMAIN waiters : waiters[i] = c)
               ELSE waiters

Expect(c) ==
    /\ At(c, "expect")
    /\ Goto(c, "tip")
    /\ waiters' = Append(waiters, c)
    /\ UNCHANGED <<settings, log, rail, late, now, crashes, raced, revived, unsure>>

\* The tip starts on the rail...
TipStarts(c) ==
    /\ At(c, "tip")
    /\ Goto(c, "wait")
    /\ rail' = [rail EXCEPT ![c] = "running"]
    /\ UNCHANGED <<settings, log, waiters, late, now, crashes, raced, revived, unsure>>

\* ... or the rail answers with an error: nothing was sent, or it was and the
\* answer got lost.  Pay takes both for a failure.
TipRefused(c) ==
    /\ At(c, "tip")
    /\ Goto(c, "failed")
    /\ Cancel(c)
    /\ \/ UNCHANGED <<rail, unsure>>
       \/ rail' = [rail EXCEPT ![c] = "running"] /\ unsure' = unsure \cup {c}
    /\ UNCHANGED <<settings, log, late, now, crashes, raced, revived>>

PayReturns(c) ==
    /\ At(c, "wait")
    /\ call[c].result # "none"
    /\ Goto(c, call[c].result)
    /\ UNCHANGED <<settings, log, waiters, rail, late, now, crashes, raced, revived, unsure>>

\* Mutant: the deadline counts as a failure of the tip.
PayExpiresFailed(c) ==
    /\ At(c, "wait")
    /\ Goto(c, "failed")
    /\ Cancel(c)
    /\ UNCHANGED <<settings, log, rail, late, now, crashes, raced, revived, unsure>>

\* Mutant: the abandoned waiter stays registered.
PayExpiresRegistered(c) ==
    /\ At(c, "wait")
    /\ Goto(c, IF call[c].result = "none" THEN "done" ELSE "forward")
    /\ UNCHANGED <<settings, log, waiters, rail, late, now, crashes, raced, revived, unsure>>

\* The wait budget runs out; an outcome of the same instant is forwarded.
PayExpires(c) ==
    /\ At(c, "wait")
    /\ Goto(c, IF call[c].result = "none" THEN "done" ELSE "forward")
    /\ Cancel(c)
    /\ UNCHANGED <<settings, log, rail, late, now, crashes, raced, revived, unsure>>

Forward(c) ==
    /\ At(c, "forward")
    /\ Goto(c, "done")
    /\ ResolveSpend(c, call[c].result = "paid")
    /\ UNCHANGED <<settings, waiters, rail, late, now, crashes, raced, revived, unsure>>

\* Back in settle.  A failure is logged unless the deadline passed meanwhile.
PayFailed(c) ==
    /\ At(c, "failed")
    /\ Goto(c, "done")
    /\ \/ markSpend(call[c].seq, "failed")
       \/ UNCHANGED log
    /\ UNCHANGED <<settings, waiters, rail, late, now, crashes, raced, revived, unsure>>

PayDone(c) ==
    /\ At(c, "paid")
    /\ Goto(c, "done")
    /\ markSpend(call[c].seq, "paid")
    /\ revived' = (revived \/ \E i \in DOMAIN spend : /\ spend[i].status = "failed"
                                                     /\ spend'[i].status = "paid")
    /\ UNCHANGED <<settings, waiters, rail, late, now, crashes, raced, unsure>>

-----------------------------------------------------------------------------
(* The environment: tips end, the user changes the policy, the bridge      *)
(* restarts, time passes.                                                  *)

\* TipMatcher.Resolve: the oldest waiter with the payee and the amount.
Matches(p) == {i \in DOMAIN waiters : /\ BotOf[waiters[i]] = BotOf[p]
                                      /\ Atoms(waiters[i]) = Atoms(p)}

\* A tip ends, and Progress gives its outcome to a waiter or sends it on.
Progress(p, ok) ==
    /\ rail[p] = "running"
    /\ rail' = [rail EXCEPT ![p] = IF ok THEN "settled" ELSE "failed"]
    /\ IF Matches(p) = {}
       THEN late' = late \cup {p} /\ UNCHANGED <<waiters, call>>
       ELSE LET w == waiters[Min(Matches(p))]
            IN  /\ waiters' = RemoveAt(waiters, Min(Matches(p)))
                /\ call' = [call EXCEPT ![w].result = Outcome(ok)]
                /\ UNCHANGED late
    /\ UNCHANGED <<settings, log, now, crashes, raced, revived, unsure>>

resolveLate(p) ==
    /\ p \in late
    /\ late' = late \ {p}
    /\ ResolveSpend(p, rail[p] = "settled")
    /\ UNCHANGED <<settings, call, waiters, rail, now, crashes, raced, revived, unsure>>

ApplySettings(s) ==
    /\ settings # s
    /\ settings' = s
    /\ UNCHANGED <<log, call, waiters, rail, late, now, crashes, raced, revived, unsure>>

\* loadState: sequence numbers are not stored.
Reloaded(s) == [i \in DOMAIN s |-> [s[i] EXCEPT !.seq = 0]]

\* A crash ends every call under way; the log is what the file holds.
Restart ==
    /\ crashes < MaxCrashes
    /\ crashes' = crashes + 1
    /\ call' = [c \in Calls |-> IF At(c, "new") THEN call[c] ELSE Returned]
    /\ waiters' = <<>> /\ late' = {}
    /\ spend' = Reloaded(spendFile.log) /\ dropped' = spendFile.dropped
    /\ spendSeq' = 0
    /\ UNCHANGED <<settings, spendFile, diskFaults, rail, now, raced, revived, unsure>>

Tick ==
    /\ now < MaxTime
    /\ now' = now + 1
    /\ UNCHANGED <<settings, log, call, waiters, rail, late, crashes, raced, revived, unsure>>

-----------------------------------------------------------------------------
SettleStep(c) ==
    \/ refuse(c) \/ awaitApproval(c) \/ recordSpend(c)
    \/ Expect(c) \/ TipStarts(c) \/ TipRefused(c)
    \/ PayReturns(c) \/ PayExpires(c) \/ Forward(c)
    \/ PayFailed(c) \/ PayDone(c)

Next ==
    \/ \E c \in Calls : \/ Settle(c) \/ SettleStep(c)
                        \/ \E d \in {"approve", "deny"} : ResolvePayment(c, d)
    \/ \E p \in Calls \cup Others : \/ \E ok \in BOOLEAN : Progress(p, ok)
                                    \/ resolveLate(p)
    \/ \E s \in Policies : ApplySettings(s)
    \/ Restart \/ Tick

Spec == Init /\ [][Next]_vars

\* A settle under way goes on: its waits have timeouts.  Users, tips and
\* late outcomes are not assumed to do anything.
FairSpec == Spec /\ \A c \in Calls : WF_vars(SettleStep(c))

-----------------------------------------------------------------------------
(* Properties.                                                             *)

Counted(p) == {i \in DOMAIN spend : /\ countsTowardCap(spend[i].status)
                                    /\ spend[i].bot = BotOf[p] /\ spend[i].atoms = Atoms(p)}
Moving(p) == {c \in Calls : /\ rail[c] \in {"running", "settled"}
                            /\ BotOf[c] = BotOf[p] /\ Atoms(c) = Atoms(p)}
UnsureOf(p) == {c \in unsure : BotOf[c] = BotOf[p] /\ Atoms(c) = Atoms(p)}
WithinCap == SpentToday = 0 \/ \E s \in Policies : SpentToday <= s.perDay

\* Every value has its type: no payment without an amount is logged but as a
\* refusal, and nobody waits who is not in Pay (settle, TipMatcher).
BridgeTypeOK ==
    /\ settings \in Policies
    /\ dropped \in 0..Len(spend)
    /\ \A i \in DOMAIN spend :
          /\ spend[i].status \in {"pending", "paid", "failed", "refused"}
          /\ spend[i].ts \in 0..now
          /\ spend[i].seq \in 0..spendSeq
          /\ spend[i].status # "refused" => spend[i].atoms > 0
    /\ IsInjective(waiters) /\ \A i \in DOMAIN waiters : At(waiters[i], "tip") \/ At(waiters[i], "wait")
    /\ late \subseteq {p \in DOMAIN rail : rail[p] \in {"settled", "failed"}}
    /\ unsure \subseteq {c \in Calls : rail[c] # "none"}

MoneyCovered ==
    (\A o \in Others : rail[o] = "running") =>
        \A c \in Calls :
            Cardinality(Counted(c)) + diskFaults + Cardinality(UnsureOf(c))
                >= Cardinality(Moving(c))

PruneSafe == \A i \in 1..dropped : ~(InWindow(spend[i]) /\ countsTowardCap(spend[i].status))
                                   /\ spend[i].status # "pending"

\* As long as no outcome of a tip sent outside the bridge came in, every tip
\* that moved money or may still move it is covered by an entry that counts, but
\* for one for each failed write of the log: through timeouts, swapped outcomes
\* of equal tips, late outcomes and restarts on what the file holds; and pruning
\* never takes an entry that still counts today or whose outcome is to come.
LogCoversMoney == MoneyCovered /\ PruneSafe

\* The day's total stays within the cap except where one settle logged its
\* spend between another's check and its log, or marked an entry paid that the
\* outcome of an equal tip had failed meanwhile.  What failed writes make
\* the log forget is bounded by LogCoversMoney.
CapUnlessRaced == raced \/ revived \/ WithinCap

\* Every settle returns to the caller, whatever the user and the rail do: in the
\* end none is under way (its waits for an approval and for the tip have timeouts).
EverySettleReturns == <>[](\A c \in Calls : At(c, "new") \/ At(c, "done"))

\* settings.go: "Caps are hard ceilings on BOTH modes".
CapIsHard == WithinCap
=============================================================================
