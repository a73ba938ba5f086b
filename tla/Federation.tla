----------------------------- MODULE Federation -----------------------------
(***************************************************************************)
(* How a directory learns of a provider from the snapshots of its peers    *)
(* (directory/federation.go), and the journal of what it pays for them and *)
(* for paid tests (directory/client.go).  Admin calls, tests and the       *)
(* pursuits a key exchange resumes are goroutines beside each other; they  *)
(* meet in the leads, the peers and the spend journal, each behind a lock  *)
(* of its own.  One provider is modelled: leads of different providers     *)
(* share their file only.                                                  *)
(***************************************************************************)
EXTENDS Integers, FiniteSets, Sequences, SequencesExt

CONSTANTS
    Jobs,               \* goroutines of the directory
    Peers,              \* peer directories
    MaxDiskFaults,      \* bound: writes that fail
    MaxCrashes          \* bound: restarts

ASSUME FederationAssumption ==
    /\ IsFiniteSet(Jobs)
    /\ {MaxDiskFaults, MaxCrashes} \subseteq Nat

VARIABLES
    lead,       \* the provider's lead: its state, or "none"
    leadFile,   \* ... in leads.json
    peers,      \* the record of each peer: "none", "trusted" or "keyless"
    peersFile,  \* ... in peers.json
    known,      \* the index has an entry of the provider
    registrar,  \* what handleRegister does next
    kx,         \* an introduction has been asked for and not completed
    job,        \* what each goroutine does
    spend,      \* spendJournal.entries, each named by the job it was made for
    spendFile,  \* ... in spend.json
    left,       \* history: the jobs whose money has left or may have
    hist,       \* history: see Init
    diskFaults, crashes

files  == <<leadFile, peersFile, spendFile>>
tables == <<lead, peers, spend, files>>
world  == <<known, registrar, kx>>
vars   == <<tables, world, job, left, hist, diskFaults, crashes>>

LeadStates == {"none", "new", "pursuing", "invited", "converted"}
Kinds == {"none", "verify", "test", "pursue", "resume"}

Idle(pc, p) == [pc |-> pc, kind |-> "none", peer |-> p, token |-> 0]

Init ==
    /\ lead = "none" /\ leadFile = lead
    /\ peers = [p \in Peers |-> "none"] /\ peersFile = peers
    /\ known = FALSE /\ registrar = "idle" /\ kx = FALSE
    /\ \E p \in Peers : job = [j \in Jobs |-> Idle("new", p)]
    /\ spend = <<>> /\ spendFile = <<>>
    /\ left = {}
    /\ hist = [shifted   |-> FALSE, \* an entry moved before its own removal
               raced     |-> FALSE, \* a lead was put that had become known
               torn      |-> FALSE, \* a crash between register and its lead
               missed    |-> FALSE, \* a key exchange ended before the parking
               gaveUp    |-> FALSE] \* an invite after a key exchange failed
    /\ diskFaults = 0 /\ crashes = 0

At(j, pc) == job[j].pc = pc
Is(j, kind) == job[j].kind = kind
Goto(j, pc) == job' = [job EXCEPT ![j].pc = pc]
End(j) == job' = [job EXCEPT ![j] = Idle("done", job[j].peer)]

\* A write of a store: a failed one leaves the file as it was.
Write(ok) == IF ok THEN UNCHANGED diskFaults
             ELSE diskFaults < MaxDiskFaults /\ diskFaults' = diskFaults + 1

PutLead(state, ok) ==
    /\ lead' = state
    /\ leadFile' = IF ok THEN state ELSE leadFile
    /\ Write(ok)

PutPeer(p, record, ok) ==
    /\ peers' = [peers EXCEPT ![p] = record]
    /\ peersFile' = IF ok THEN peers' ELSE peersFile
    /\ Write(ok)

\* Mutant: the file is written before the new entries are in place.
PutSpendStale(entries, ok) ==
    /\ spend' = entries
    /\ spendFile' = IF ok THEN spend ELSE spendFile
    /\ Write(ok)

PutSpend(entries, ok) ==
    /\ spend' = entries
    /\ spendFile' = IF ok THEN entries ELSE spendFile
    /\ Write(ok)

Leads  == <<lead, leadFile>>
Curated == <<peers, peersFile>>
Spend  == <<spend, spendFile>>
Quiet  == UNCHANGED <<tables, diskFaults>>

-----------------------------------------------------------------------------
(* Admins and goroutines begin.                                            *)

Begin(j, kind, pc) ==
    /\ At(j, "new")
    /\ job' = [job EXCEPT ![j].kind = kind, ![j].pc = pc]

\* verify_peer needs a record of the peer, whatever is in it; without a key
\* no signature is good, and the snapshot is bought for nothing.
Verify(j) ==
    /\ peers[job[j].peer] # "none"
    /\ Begin(j, IF peers[job[j].peer] = "trusted" THEN "verify" ELSE "test", "call")
    /\ Quiet /\ UNCHANGED <<world, left, hist, crashes>>

\* The pipeline tests some provider (see Directory).
Test(j) ==
    /\ Begin(j, "test", "call")
    /\ Quiet /\ UNCHANGED <<world, left, hist, crashes>>

\* pursue_lead has nothing to do for a converted lead.
Pursue(j) ==
    /\ lead \notin {"none", "converted"}
    /\ Begin(j, "pursue", "invite")
    /\ Quiet /\ UNCHANGED <<world, left, hist, crashes>>

AddPeer(p, ok) ==
    /\ PutPeer(p, "trusted", ok)
    /\ UNCHANGED <<Leads, Spend, world, job, left, hist, crashes>>

RemovePeer(p, ok) ==
    /\ peers[p] # "none"
    /\ PutPeer(p, "none", ok)
    /\ UNCHANGED <<Leads, Spend, world, job, left, hist, crashes>>

-----------------------------------------------------------------------------
(* paidCall, with the spend journal.                                       *)

\* The call is answered at once, fails, or its price is within the budget and
\* is paid: the entry comes first.
Called(j) ==
    /\ At(j, "call")
    /\ End(j) \/ (Is(j, "verify") /\ Goto(j, "verify"))
    /\ Quiet /\ UNCHANGED <<world, left, hist, crashes>>

\* Mutant: the entry is written when the payment is over.
recordInMemory(j, ok) ==
    /\ At(j, "call")
    /\ ok /\ spend' = Append(spend, j)
    /\ job' = [job EXCEPT ![j].pc = "pay", ![j].token = Len(spend) + 1]
    /\ UNCHANGED <<Leads, Curated, world, left, hist, crashes, spendFile, diskFaults>>

\* spendJournal.record: the position is the token; a failed write is logged.
record(j, ok) ==
    /\ At(j, "call")
    /\ PutSpend(Append(spend, j), ok)
    /\ job' = [job EXCEPT ![j].pc = "pay", ![j].token = Len(spend) + 1]
    /\ UNCHANGED <<Leads, Curated, world, left, hist, crashes>>

\* Payer.Pay begins: from here on the money may have left.
Pay(j) ==
    /\ At(j, "pay")
    /\ left' = left \cup {j}
    /\ Goto(j, "paying")
    /\ Quiet /\ UNCHANGED <<world, hist, crashes>>

\* It is paid and the call issued again; its outcome is unknown...
PayEnds(j) ==
    /\ At(j, "paying")
    /\ End(j) \/ (Is(j, "verify") /\ Goto(j, "verify"))
    /\ Quiet /\ UNCHANGED <<world, left, hist, crashes>>

\* ... or the rail reports a definitive failure.
PayFails(j) ==
    /\ At(j, "paying")
    /\ left' = left \ {j}
    /\ Goto(j, "remove")
    /\ Quiet /\ UNCHANGED <<world, hist, crashes>>

\* What remove leaves: the entry at the position goes, the later ones move.
Without(s, i) == IF i \in DOMAIN s THEN RemoveAt(s, i) ELSE s

\* The jobs whose entry may still have to be removed.
Pending == {j \in Jobs : job[j].pc \in {"pay", "paying", "remove"}}

\* spendJournal.remove takes out what is at the token's position by now.
remove(j, ok) ==
    /\ At(j, "remove")
    /\ LET i == job[j].token
       IN  /\ IF i \in DOMAIN spend THEN PutSpend(Without(spend, i), ok)
              ELSE ok /\ UNCHANGED <<Spend, diskFaults>>
           /\ hist' = [hist EXCEPT !.shifted =
                          @ \/ \E k \in Pending : job[k].token > i]
    /\ End(j)
    /\ UNCHANGED <<Leads, Curated, world, left, crashes>>

-----------------------------------------------------------------------------
(* runPeerVerification, once the snapshot is bought.                       *)

\* The snapshot has the peer's signature, or not; it lists the provider, or
\* not.
Verified(j) ==
    /\ At(j, "verify")
    /\ \/ Goto(j, "index") \/ Goto(j, "stamp") \/ End(j)
    /\ Quiet /\ UNCHANGED <<world, left, hist, crashes>>

\* A provider in the index, or one there is a lead for, is left alone...
LookInIndex(j) ==
    /\ At(j, "index")
    /\ Goto(j, IF known THEN "stamp" ELSE "lead")
    /\ Quiet /\ UNCHANGED <<world, left, hist, crashes>>

LookInLeads(j) ==
    /\ At(j, "lead")
    /\ Goto(j, IF lead = "none" THEN "put" ELSE "stamp")
    /\ Quiet /\ UNCHANGED <<world, left, hist, crashes>>

\* ... of any other a lead is made, whatever it has become by now.
MakeLead(j, ok) ==
    /\ At(j, "put")
    /\ PutLead("new", ok)
    /\ IF ok THEN Goto(j, "stamp") ELSE End(j)
    /\ hist' = [hist EXCEPT !.raced = @ \/ known \/ lead = "converted"]
    /\ UNCHANGED <<Curated, Spend, world, left, crashes>>

\* The peer's record is stamped, and made when it is no longer there.
Stamp(j, ok) ==
    /\ At(j, "stamp")
    /\ LET p == job[j].peer
       IN  PutPeer(p, IF peers[p] = "none" THEN "keyless" ELSE peers[p], ok)
    /\ End(j)
    /\ UNCHANGED <<Leads, Spend, world, left, hist, crashes>>

-----------------------------------------------------------------------------
(* pursueLead and resumeLeadAfterKX.                                       *)

\* Mutant: a converted lead can be pursued again.
setAnyLeadState(state, ok) ==
    IF lead = "none" THEN ok /\ UNCHANGED <<Leads, diskFaults>>
    ELSE PutLead(state, ok)

\* setLeadState: a converted lead keeps its state.
setLeadState(state, ok) ==
    IF lead = "none" THEN ok /\ UNCHANGED <<Leads, diskFaults>>
    ELSE PutLead(IF lead = "converted" THEN lead ELSE state, ok)

\* listing_invite is accepted...
Accepted(j) ==
    /\ At(j, "invite")
    /\ Goto(j, "invited")
    /\ Quiet /\ UNCHANGED <<world, left, hist, crashes>>

\* ... declined, which is noted at once...
Declined(j, ok) ==
    /\ At(j, "invite")
    /\ setLeadState("invited", ok)
    /\ Goto(j, "invited")
    /\ UNCHANGED <<Curated, Spend, world, left, hist, crashes>>

\* ... or not answered: a pursuit asks the peer for an introduction, one that
\* a key exchange resumed is parked again.
NotInvited(j) ==
    /\ At(j, "invite")
    /\ Goto(j, IF Is(j, "pursue") THEN "introduce" ELSE "park")
    /\ hist' = [hist EXCEPT !.gaveUp = @ \/ Is(j, "resume")]
    /\ Quiet /\ UNCHANGED <<world, left, crashes>>

Invited(j, ok) ==
    /\ At(j, "invited")
    /\ setLeadState("invited", ok)
    /\ End(j)
    /\ UNCHANGED <<Curated, Spend, world, left, hist, crashes>>

\* Introduce asks for a key exchange through the peer; there may be no
\* introducer.
Introduce(j) ==
    /\ At(j, "introduce")
    /\ \/ kx' = TRUE /\ Goto(j, "park")
       \/ UNCHANGED kx /\ End(j)
    /\ Quiet /\ UNCHANGED <<known, registrar, left, hist, crashes>>

Park(j, ok) ==
    /\ At(j, "park")
    /\ setLeadState("pursuing", ok)
    /\ End(j)
    /\ UNCHANGED <<Curated, Spend, world, left, hist, crashes>>

\* Mutant: the pursuit is not taken up again.
NotifyNobody(j) ==
    /\ kx /\ kx' = FALSE
    /\ UNCHANGED <<job, hist>>
    /\ Quiet /\ UNCHANGED <<known, registrar, left, crashes>>

\* NotifyKX: a pursuit that waits for the exchange goes on.
NotifyKX(j) ==
    /\ kx /\ kx' = FALSE
    /\ IF lead = "pursuing" THEN Begin(j, "resume", "invite") ELSE UNCHANGED job
    /\ hist' = [hist EXCEPT !.missed = @ \/ \E k \in Jobs : At(k, "park")]
    /\ Quiet /\ UNCHANGED <<known, registrar, left, crashes>>

-----------------------------------------------------------------------------
(* The provider, restarts.                                                 *)

\* handleRegister stores the registration...
Register ==
    /\ registrar = "idle"
    /\ known' = TRUE /\ registrar' = "convert"
    /\ Quiet /\ UNCHANGED <<kx, job, left, hist, crashes>>

\* ... and then converts the lead.
convertLead(ok) ==
    /\ registrar = "convert"
    /\ registrar' = "idle"
    /\ IF lead \in {"none", "converted"} THEN ok /\ UNCHANGED <<Leads, diskFaults>>
       ELSE PutLead("converted", ok)
    /\ UNCHANGED <<Curated, Spend, known, kx, job, left, hist, crashes>>

\* Its entry expires, or is rejected or taken down.
Delist ==
    /\ known /\ registrar = "idle"
    /\ known' = FALSE
    /\ Quiet /\ UNCHANGED <<registrar, kx, job, left, hist, crashes>>

Restart ==
    /\ crashes < MaxCrashes
    /\ crashes' = crashes + 1
    /\ lead' = leadFile /\ peers' = peersFile /\ spend' = spendFile
    /\ registrar' = "idle"
    /\ job' = [j \in Jobs |-> IF At(j, "new") THEN job[j]
                              ELSE Idle("done", job[j].peer)]
    /\ hist' = [hist EXCEPT !.torn = @ \/ registrar = "convert"]
    /\ UNCHANGED <<files, known, kx, left, diskFaults>>

-----------------------------------------------------------------------------
JobStep(j) ==
    \/ Verify(j) \/ Test(j) \/ Pursue(j)
    \/ Called(j) \/ Pay(j) \/ PayEnds(j) \/ PayFails(j)
    \/ Verified(j) \/ LookInIndex(j) \/ LookInLeads(j)
    \/ Accepted(j) \/ NotInvited(j) \/ Introduce(j)
    \/ \E ok \in BOOLEAN : \/ record(j, ok) \/ remove(j, ok)
                           \/ MakeLead(j, ok) \/ Stamp(j, ok)
                           \/ Declined(j, ok) \/ Invited(j, ok) \/ Park(j, ok)

Next ==
    \/ \E j \in Jobs : JobStep(j) \/ NotifyKX(j)
    \/ \E p \in Peers, ok \in BOOLEAN : AddPeer(p, ok) \/ RemovePeer(p, ok)
    \/ Register \/ (\E ok \in BOOLEAN : convertLead(ok)) \/ Delist
    \/ Restart

Spec == Init /\ [][Next]_vars

-----------------------------------------------------------------------------
(* Properties.                                                             *)

Sound == diskFaults = 0

\* No restart can have read what a failed write left in a file.
NothingLost == Sound \/ crashes = 0

\* Every value has its type, and as long as the disk works no store runs
\* ahead of its file (record, mutate, put).
FederationTypeOK ==
    /\ lead \in LeadStates /\ leadFile \in LeadStates
    /\ peers \in [Peers -> {"none", "trusted", "keyless"}]
    /\ \A j \in Jobs : job[j].kind \in Kinds /\ job[j].token \in 0..Cardinality(Jobs)
    /\ spend \in Seq(Jobs)
    /\ Sound => leadFile = lead /\ peersFile = peers /\ spendFile = spend

\* The spend journal on disk has as many entries as there are payments that
\* left or may have left, and it has each payment's own entry, but for one
\* payment for each write that failed (record goes on without its entry), and
\* except when two payments failed out of order: remove goes by position, and
\* the removal of an earlier entry moves the later ones.
SpendCoversMoney ==
    /\ Len(spendFile) + diskFaults >= Cardinality(left)
    /\ hist.shifted \/ Cardinality(left \ ToSet(spendFile)) <= diskFaults

\* A provider that has registered has no lead left to pursue, whatever
\* pursuits, introductions, verifications and failing writes there were beside
\* its registration, except when a crash came between the two or after a
\* failed write, or when a verification had looked it up before: its lead is
\* put without looking again.
RegisteredIsConverted ==
    known /\ registrar = "idle" /\ NothingLost =>
        lead \in {"none", "converted"} \/ hist.torn \/ hist.raced

\* A lead that waits for a key exchange is not forgotten: the exchange is
\* still to come or somebody goes on with it, except when the exchange was
\* over before the pursuit was parked, when the invite after it failed too,
\* or when a restart came in between.
PursuitNotForgotten ==
    lead = "pursuing" /\ crashes = 0 =>
        \/ kx \/ hist.missed \/ hist.gaveUp
        \/ \E j \in Jobs : Is(j, "resume") /\ job[j].pc \in {"invite", "invited"}
=============================================================================
