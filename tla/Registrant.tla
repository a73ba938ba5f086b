----------------------------- MODULE Registrant -----------------------------
(***************************************************************************)
(* The provider's side of a listing (directory/registrant.go): Register,   *)
(* called by the host or through a directory's listing_invite, the         *)
(* auto-fund policy, and the fund history its monthly cap counts.  Several *)
(* registrations run at once, one goroutine each; what a directory answers *)
(* and what the payment rail reports is external.                          *)
(***************************************************************************)
EXTENDS Integers, Sequences, FiniteSets, SequencesExt

CONSTANTS
    Jobs,               \* calls of Register
    DirOf,              \* the directory of each
    Amounts,            \* what directories estimate and ask for
    Enabled, AllowedDirs,                   \* AutoFund; an empty set allows all
    MaxAtomsPerRequest, MaxAtomsPerMonth,   \* AutoFund; 0 is no cap
    Month,              \* the cap's 30 days
    MaxTime,            \* bound: last value of the clock
    MaxDiskFaults,      \* bound: failed writes of the fund history
    MaxCrashes          \* bound: restarts of the provider

ASSUME RegistrantAssumption ==
    /\ IsFiniteSet(Jobs)
    /\ Enabled \in BOOLEAN
    /\ Amounts \subseteq Nat
    /\ {MaxAtomsPerRequest, MaxAtomsPerMonth, Month,
        MaxTime, MaxDiskFaults, MaxCrashes} \subseteq Nat

VARIABLES
    entries,    \* fundHistory.entries
    fundFile,   \* regfund.json
    job,        \* where each Register is, and the payment it is about
    left,       \* history: the jobs whose money has left or may have
    seen,       \* history: the entries each job's policy check counted
    raced,      \* history: an entry was added between a check and its record
    now, diskFaults, crashes

vars == <<entries, fundFile, job, left, seen, raced, now, diskFaults, crashes>>

-----------------------------------------------------------------------------
Init ==
    /\ entries = <<>> /\ fundFile = <<>>
    /\ job = [j \in Jobs |-> [pc |-> "new", atoms |-> 0, ts |-> 0]]
    /\ left = {}
    /\ seen = [j \in Jobs |-> 0] /\ raced = FALSE
    /\ now = 0 /\ diskFaults = 0 /\ crashes = 0

At(j, pc) == job[j].pc = pc
Goto(j, pc) == job' = [job EXCEPT ![j].pc = pc]

\* A step of a job that leaves the history and the money alone.
Keep == UNCHANGED <<entries, fundFile, left, seen, raced, now, diskFaults, crashes>>

-----------------------------------------------------------------------------
(* The policy.                                                             *)

\* Mutant: what has just been recorded is outside the window.
AfterWindow(e, since) == e.ts > since

InWindow(e, since) == e.ts >= since

\* The sum of the entries at some positions of a history.
AtomsAt(h, positions) == SumFunctionOnSet([i \in DOMAIN h |-> h[i].atoms], positions)

\* fundHistory.totalSince.
totalSince(since) ==
    AtomsAt(entries, {i \in DOMAIN entries : InWindow(entries[i], since)})

allowFund(dir, atoms) ==
    /\ Enabled
    /\ AllowedDirs = {} \/ dir \in AllowedDirs
    /\ MaxAtomsPerRequest = 0 \/ atoms <= MaxAtomsPerRequest
    /\ MaxAtomsPerMonth = 0 \/ totalSince(now - Month) + atoms <= MaxAtomsPerMonth

-----------------------------------------------------------------------------
(* Register.                                                               *)

\* The host calls Register.
Register(j) == At(j, "new") /\ Goto(j, "dial") /\ Keep

\* listing_invite: the policy is applied to the estimate, and the
\* registration goes on in a goroutine of its own.
listing_invite(j, estimate) ==
    /\ At(j, "new")
    /\ Goto(j, IF allowFund(DirOf[j], estimate) THEN "dial" ELSE "done")
    /\ Keep

\* The directory cannot be reached, my_status shows a listing that is not
\* about to expire, register is refused, or nothing is owed...
NothingOwed(j) == At(j, "dial") /\ Goto(j, "done") /\ Keep

\* ... or register is answered with what is missing for fee and test.
Invoiced(j, shortfall) ==
    /\ At(j, "dial")
    /\ shortfall > 0
    /\ job' = [job EXCEPT ![j].pc = "invoiced", ![j].atoms = shortfall]
    /\ Keep

Decline(j) ==
    /\ At(j, "invoiced")
    /\ ~allowFund(DirOf[j], job[j].atoms)
    /\ Goto(j, "done")
    /\ Keep

Allow(j) ==
    /\ At(j, "invoiced")
    /\ allowFund(DirOf[j], job[j].atoms)
    /\ Goto(j, "record")
    /\ seen' = [seen EXCEPT ![j] = Len(entries)]
    /\ UNCHANGED <<entries, fundFile, left, raced, now, diskFaults, crashes>>

\* Mutant: the newest entry comes first.
PrependEntry(e) == <<e>> \o entries

AppendEntry(e) == Append(entries, e)

\* Mutant: the entry is not written before the money moves.
recordInMemory(j, ok) ==
    /\ At(j, "record") /\ ok
    /\ entries' = AppendEntry([ts |-> now, dir |-> DirOf[j], atoms |-> job[j].atoms])
    /\ raced' = (raced \/ Len(entries) # seen[j])
    /\ job' = [job EXCEPT ![j].ts = now, ![j].pc = "pay"]
    /\ UNCHANGED <<fundFile, diskFaults, left, seen, now, crashes>>

\* fundHistory.record, before the money moves; when the write fails the entry
\* stays in memory and Register gives up.
record(j, ok) ==
    /\ At(j, "record")
    /\ entries' = AppendEntry([ts |-> now, dir |-> DirOf[j], atoms |-> job[j].atoms])
    /\ raced' = (raced \/ Len(entries) # seen[j])
    /\ job' = [job EXCEPT ![j].ts = now, ![j].pc = IF ok THEN "pay" ELSE "done"]
    /\ IF ok THEN fundFile' = entries' /\ UNCHANGED diskFaults
       ELSE /\ diskFaults < MaxDiskFaults
            /\ diskFaults' = diskFaults + 1
            /\ UNCHANGED fundFile
    /\ UNCHANGED <<left, seen, now, crashes>>

\* Payer.Pay begins: from here on the money may have left.
Pay(j) ==
    /\ At(j, "pay")
    /\ Goto(j, "paying")
    /\ left' = left \cup {j}
    /\ UNCHANGED <<entries, fundFile, seen, raced, now, diskFaults, crashes>>

\* Payer.Pay returns: paid, then a last look at my_status; or a timeout, after
\* which the tip may still go through.
PayEnds(j) == At(j, "paying") /\ Goto(j, "done") /\ Keep

\* The rail reports a failure: no money left, and the entry stays.
PayFailed(j) ==
    /\ At(j, "paying")
    /\ Goto(j, "done")
    /\ left' = left \ {j}
    /\ UNCHANGED <<entries, fundFile, seen, raced, now, diskFaults, crashes>>

\* The provider dies and starts again (NewRegistrant): registrations under
\* way are gone, the history is what the file holds.
Restart ==
    /\ crashes < MaxCrashes
    /\ crashes' = crashes + 1
    /\ job' = [j \in Jobs |-> IF At(j, "new") THEN job[j]
                                              ELSE [job[j] EXCEPT !.pc = "done"]]
    /\ entries' = fundFile
    /\ UNCHANGED <<fundFile, left, seen, raced, now, diskFaults>>

Tick ==
    /\ now < MaxTime
    /\ now' = now + 1
    /\ UNCHANGED <<entries, fundFile, job, left, seen, raced, diskFaults, crashes>>

-----------------------------------------------------------------------------
JobStep(j) ==
    \/ Register(j)
    \/ \E estimate \in Amounts : listing_invite(j, estimate)
    \/ NothingOwed(j)
    \/ \E shortfall \in Amounts : Invoiced(j, shortfall)
    \/ Decline(j) \/ Allow(j)
    \/ \E ok \in BOOLEAN : record(j, ok)
    \/ Pay(j) \/ PayEnds(j) \/ PayFailed(j)

Next == (\E j \in Jobs : JobStep(j)) \/ Restart \/ Tick

Spec == Init /\ [][Next]_vars

-----------------------------------------------------------------------------
(* Properties.                                                             *)

\* What may have left for directories since a given time.
LeftSince(since) ==
    SumFunctionOnSet([j \in Jobs |-> job[j].atoms], {j \in left : job[j].ts >= since})

Entry == [ts : 0..MaxTime, dir : {DirOf[j] : j \in Jobs}, atoms : Amounts \ {0}]

JobState == [pc : {"new", "dial", "invoiced", "record", "pay", "paying", "done"},
             atoms : Nat, ts : 0..now]

\* Every value has its type, and the file lacks at most the newest entries of
\* the history in memory (fundHistory.record).
RegistrantTypeOK ==
    /\ entries \in Seq(Entry) /\ fundFile \in Seq(Entry)
    /\ \A i \in DOMAIN entries : entries[i].ts <= now
    /\ IsPrefix(fundFile, entries)
    /\ job \in [Jobs -> JobState]
    /\ \A j \in Jobs : At(j, "invoiced") \/ At(j, "record") => job[j].atoms \in Amounts \ {0}
    /\ left \subseteq {j \in Jobs : job[j].pc \in {"paying", "done"}}
    /\ seen \in [Jobs -> Nat] /\ raced \in BOOLEAN
    /\ now \in 0..MaxTime /\ diskFaults \in 0..MaxDiskFaults /\ crashes \in 0..MaxCrashes

\* The money that may have left for directories, in whatever window one looks
\* at, is covered by the history ON DISK: crashes, failing writes, timeouts
\* and failures of the rail make the cap count too much, never too little.
HistoryCoversMoney ==
    \A since \in 0..now :
        AtomsAt(fundFile, {i \in DOMAIN fundFile : fundFile[i].ts >= since})
            >= LeftSince(since)

\* What leaves within one month stays within the cap, through restarts,
\* except where one registration was recorded between another's check and its
\* record (allowFund reads the total, record adds to it later).
MonthlyCapUnlessRaced ==
    MaxAtomsPerMonth > 0 => raced \/ LeftSince(now - Month) <= MaxAtomsPerMonth
=============================================================================
