-------------------------- MODULE FederationProofs --------------------------
(***************************************************************************)
(* Leads and pursuits of the directory, for any number of goroutines,      *)
(* peers, failing writes and restarts.                                     *)
(***************************************************************************)
EXTENDS Federation, FiniteSetTheorems, TLAPS

\* While no write has failed, the leads are what leads.json holds (jsonStore).
Stored == /\ diskFaults \in Nat /\ crashes \in Nat
          /\ Sound => leadFile = lead

\* What the properties remember of the past.
HistType == hist \in [shifted : BOOLEAN, raced : BOOLEAN, torn : BOOLEAN,
                      missed : BOOLEAN, gaveUp : BOOLEAN]

RegType == registrar \in {"idle", "convert"}

\* A registered provider's lead is converted, and that survives a restart.
LeadInv == HistType /\ RegType /\ Stored /\ RegisteredIsConverted

\* A write can only add a failure, and without one it reaches the file.
LEMMA WriteEffect ==
    ASSUME diskFaults \in Nat, NEW ok \in BOOLEAN, Write(ok)
    PROVE  /\ diskFaults' \in Nat
           /\ diskFaults' = 0 => diskFaults = 0 /\ ok
BY DEF Write

\* What putting a lead leaves (jsonStore.put, jsonStore.mutate).
LEMMA PutLeadEffect ==
    ASSUME Stored, crashes' = crashes, NEW ok \in BOOLEAN, NEW state, PutLead(state, ok)
    PROVE  Stored' /\ lead' = state /\ (NothingLost' => NothingLost)
BY WriteEffect DEF PutLead, Stored, Sound, NothingLost

\* What a new state of the pursuit leaves of the lead (setLeadState).
LEMMA SetLeadStateEffect ==
    ASSUME Stored, crashes' = crashes, NEW ok \in BOOLEAN, NEW state, setLeadState(state, ok)
    PROVE  /\ Stored' /\ (NothingLost' => NothingLost)
           /\ lead \in {"none", "converted"} => lead' = lead
<1>1. CASE lead = "none"
  BY <1>1 DEF setLeadState, Leads, Stored, Sound, NothingLost
<1>2. CASE lead # "none"
  BY <1>2, PutLeadEffect DEF setLeadState
<1> QED BY <1>1, <1>2

\* The steps of one goroutine, one case per kind of step.
LEMMA LeadOfJob ==
    ASSUME LeadInv, NEW j \in Jobs, JobStep(j) PROVE LeadInv'
<1> USE DEF LeadInv, RegType, RegisteredIsConverted
<1>1. ASSUME Quiet, UNCHANGED <<known, registrar, crashes>>, HistType',
             hist'.torn = hist.torn, hist'.raced = hist.raced
      PROVE  LeadInv'
  BY <1>1 DEF Quiet, tables, files, Stored, Sound, NothingLost
<1>2. CASE \/ Verify(j) \/ Test(j) \/ Pursue(j)
           \/ Called(j) \/ Pay(j) \/ PayEnds(j) \/ PayFails(j)
           \/ Verified(j) \/ LookInIndex(j) \/ LookInLeads(j)
           \/ Accepted(j)
  BY <1>1, <1>2
     DEF HistType, RegType, Verify, Test, Pursue, Called, Pay, PayEnds, PayFails, Verified,
         LookInIndex, LookInLeads, Accepted, world
<1>3. CASE NotInvited(j)
  <2>1. HistType' /\ hist'.torn = hist.torn /\ hist'.raced = hist.raced
    <3> DEFINE b == hist.gaveUp \/ Is(j, "resume")
    <3>1. b \in BOOLEAN BY DEF HistType
    <3>2. hist' = [hist EXCEPT !.gaveUp = b] BY <1>3 DEF NotInvited
    <3> HIDE DEF b
    <3> QED BY <3>1, <3>2 DEF HistType
  <2> QED BY <1>1, <1>3, <2>1 DEF NotInvited, world
<1>3a. CASE Introduce(j)
  BY <1>1, <1>3a DEF HistType, RegType, Introduce
<1>4. ASSUME NEW ok \in BOOLEAN, record(j, ok) \/ Stamp(j, ok)
      PROVE  LeadInv'
  BY <1>4, WriteEffect
     DEF HistType, RegType, record, Stamp, PutSpend, PutPeer, Leads, Spend, world, Stored, Sound, NothingLost
<1>5. ASSUME NEW ok \in BOOLEAN, remove(j, ok) PROVE LeadInv'
  <2>1. Stored' /\ (NothingLost' => NothingLost) /\ lead' = lead
    BY <1>5, WriteEffect DEF remove, PutSpend, Leads, Spend, Stored, Sound, NothingLost
  <2>2. HistType' /\ hist'.torn = hist.torn /\ hist'.raced = hist.raced
    <3> DEFINE b == hist.shifted \/ \E k \in Pending : job[k].token > job[j].token
    <3>1. b \in BOOLEAN BY DEF HistType
    <3>2. hist' = [hist EXCEPT !.shifted = b] BY <1>5 DEF remove
    <3> HIDE DEF b
    <3> QED BY <3>1, <3>2 DEF HistType
  <2> QED BY <1>5, <2>1, <2>2 DEF remove, world
<1>5a. ASSUME NEW ok \in BOOLEAN, MakeLead(j, ok) PROVE LeadInv'
  <2>1. Stored' /\ lead' = "new" /\ (NothingLost' => NothingLost)
    BY <1>5a, PutLeadEffect DEF MakeLead
  <2> DEFINE b == hist.raced \/ known \/ lead = "converted"
  <2>2. hist' = [hist EXCEPT !.raced = b] BY <1>5a DEF MakeLead
  <2>3. b \in BOOLEAN BY DEF HistType
  <2>4. known => b
    OBVIOUS
  <2> HIDE DEF b
  <2>5. HistType' /\ hist'.raced = b BY <2>2, <2>3 DEF HistType
  <2>6. known' = known /\ registrar' = registrar BY <1>5a DEF MakeLead, world
  <2> QED BY <2>1, <2>4, <2>5, <2>6
<1>6. ASSUME NEW ok \in BOOLEAN, Declined(j, ok) \/ Invited(j, ok) \/ Park(j, ok)
      PROVE  LeadInv'
  BY <1>6, SetLeadStateEffect DEF HistType, RegType, Declined, Invited, Park, world
<1> QED
  BY <1>2, <1>3, <1>3a, <1>4, <1>5, <1>5a, <1>6 DEF JobStep

\* Every step keeps a registered provider's lead converted.
LEMMA LeadStep == LeadInv /\ [Next]_vars => LeadInv'
<1> SUFFICES ASSUME LeadInv, [Next]_vars PROVE LeadInv'
  OBVIOUS
<1> USE DEF LeadInv, RegType, RegisteredIsConverted
<1>1. ASSUME NEW j \in Jobs, NotifyKX(j) PROVE LeadInv'
  <2>1. HistType' /\ hist'.torn = hist.torn /\ hist'.raced = hist.raced
    <3> DEFINE b == hist.missed \/ \E k \in Jobs : At(k, "park")
    <3>1. b \in BOOLEAN BY DEF HistType
    <3>2. hist' = [hist EXCEPT !.missed = b] BY <1>1 DEF NotifyKX
    <3> HIDE DEF b
    <3> QED BY <3>1, <3>2 DEF HistType
  <2>2. Stored' /\ (NothingLost' => NothingLost) /\ UNCHANGED <<lead, known, registrar>>
    BY <1>1 DEF NotifyKX, Quiet, tables, files, Stored, Sound, NothingLost
  <2> QED BY <2>1, <2>2
<1>2. ASSUME NEW p \in Peers, NEW ok \in BOOLEAN, AddPeer(p, ok) \/ RemovePeer(p, ok)
      PROVE  LeadInv'
  BY <1>2, WriteEffect
     DEF HistType, RegType, AddPeer, RemovePeer, PutPeer, Leads, Spend, world, Stored, Sound, NothingLost
<1>3. CASE Register \/ Delist
  BY <1>3 DEF HistType, RegType, Register, Delist, Quiet, tables, files, Stored, Sound, NothingLost
<1>4. ASSUME NEW ok \in BOOLEAN, convertLead(ok) PROVE LeadInv'
  BY <1>4, PutLeadEffect DEF HistType, RegType, convertLead, Leads, Stored, Sound, NothingLost
<1>5. CASE Restart
  <2> DEFINE b == hist.torn \/ registrar = "convert"
  <2>1. hist' = [hist EXCEPT !.torn = b] BY <1>5 DEF Restart
  <2>2. b \in BOOLEAN BY DEF HistType
  <2>3. hist.torn => b
    OBVIOUS
  <2>4. registrar = "convert" => b
    OBVIOUS
  <2> HIDE DEF b
  <2>5. HistType' /\ hist'.torn = b /\ hist'.raced = hist.raced
    BY <2>1, <2>2 DEF HistType
  <2>6. Stored' /\ (NothingLost' => NothingLost /\ lead' = lead)
        /\ known' = known /\ registrar' = "idle"
    BY <1>5 DEF Restart, files, Stored, Sound, NothingLost
  <2>7. registrar # "idle" => registrar = "convert"
    BY DEF RegType
  <2> QED BY <2>3, <2>4, <2>5, <2>6, <2>7
<1>6. CASE UNCHANGED vars
  BY <1>6 DEF HistType, RegType, vars, tables, world, files, Stored, Sound, NothingLost
<1> QED
  BY <1>1, <1>2, <1>3, <1>4, <1>5, <1>6, LeadOfJob DEF Next

\* A provider that has registered has no lead left to pursue, but for a crash
\* before convertLead or a verification that had looked before it registered
\* (handleRegister, convertLead, setLeadState, runPeerVerification).
THEOREM RegisteredIsConvertedCorrect == Spec => []RegisteredIsConverted
<1>1. Init => LeadInv
  BY DEF Init, LeadInv, HistType, RegType, Stored, RegisteredIsConverted, Sound, NothingLost
<1>2. LeadInv => RegisteredIsConverted
  BY DEF LeadInv
<1> QED BY <1>1, <1>2, LeadStep, PTL DEF Spec

-----------------------------------------------------------------------------
(* Types.                                                                  *)

Pcs == {"new", "done", "call", "pay", "paying", "remove", "verify", "index", "lead", "put",
        "stamp", "invite", "invited", "introduce", "park"}
Job == [pc : Pcs, kind : Kinds, peer : Peers, token : 0..Cardinality(Jobs)]
JobType == job \in [Jobs -> Job]

\* Each store is of its type and, while no write has failed, what its file
\* holds (jsonStore).
LeadStore ==
    /\ lead \in LeadStates /\ leadFile \in LeadStates
    /\ Sound => leadFile = lead

PeerRecords == [Peers -> {"none", "trusted", "keyless"}]
PeerStore ==
    /\ peers \in PeerRecords /\ peersFile \in PeerRecords
    /\ Sound => peersFile = peers

\* A job that has not come to the payment yet.
Early(j) == job[j].pc \in {"new", "call"}

\* Each job has at most one entry, and none before it comes to the payment.
Single(s) ==
    /\ \A i, k \in 1..Len(s) : i # k => s[i] # s[k]
    /\ \A i \in 1..Len(s) : ~Early(s[i])

SpendStore ==
    /\ spend \in Seq(Jobs) /\ spendFile \in Seq(Jobs)
    /\ Single(spend) /\ Single(spendFile)
    /\ Sound => spendFile = spend

\* The payments that have left, or may still leave or be taken back.
AtStake == left \cup Pending

\* A journal s covers the payments at stake but for one for each failed write:
\* in number, and each with its own entry as long as none was moved.
Covers(s, stake, faults, moved) ==
    /\ Len(s) + faults >= Cardinality(stake)
    /\ ~moved => Cardinality(stake \ ToSet(s)) <= faults

\* What is behind SpendCoversMoney: the journal in memory, which a failed
\* write does not touch, and the one on disk, which a restart goes on with,
\* both cover what is at stake; and the token of a payment that may be taken
\* back points to its own entry as long as none was moved.
MoneySound ==
    /\ left \subseteq Jobs
    /\ \A j \in left : job[j].pc # "remove"
    /\ Covers(spend, AtStake, diskFaults, hist.shifted)
    /\ Covers(spendFile, AtStake, diskFaults, hist.shifted)
    /\ ~hist.shifted =>
        \A j \in Pending : job[j].token \in 1..Len(spend) /\ spend[job[j].token] = j

FedInv ==
    /\ diskFaults \in Nat /\ HistType /\ JobType
    /\ LeadStore /\ PeerStore /\ SpendStore /\ MoneySound

LEMMA JobsCounted == Cardinality(Jobs) \in Nat
BY FS_CardinalityType, FederationAssumption

\* The steps of a job.
LEMMA GotoEffect ==
    ASSUME JobType, NEW j \in Jobs, NEW pc \in Pcs, Goto(j, pc)
    PROVE  /\ JobType'
           /\ job'[j].pc = pc /\ job'[j].token = job[j].token /\ job'[j].kind = job[j].kind
           /\ \A k \in Jobs : k # j => job'[k] = job[k]
BY DEF Goto, JobType, Job

LEMMA EndEffect ==
    ASSUME JobType, NEW j \in Jobs, End(j)
    PROVE  /\ JobType'
           /\ job'[j].pc = "done" /\ job'[j].token = 0
           /\ \A k \in Jobs : k # j => job'[k] = job[k]
BY JobsCounted DEF End, Idle, JobType, Job, Pcs, Kinds

LEMMA BeginEffect ==
    ASSUME JobType, NEW j \in Jobs, NEW kind \in Kinds, NEW pc \in Pcs, Begin(j, kind, pc)
    PROVE  /\ JobType' /\ job[j].pc = "new"
           /\ job'[j].pc = pc /\ job'[j].token = job[j].token /\ job'[j].kind = kind
           /\ \A k \in Jobs : k # j => job'[k] = job[k]
<1>1. job' = [job EXCEPT ![j] = [@ EXCEPT !.kind = kind, !.pc = pc]] /\ job[j].pc = "new"
  BY DEF Begin, At
<1>2. job[j] \in Job BY DEF JobType
<1>3. /\ [job[j] EXCEPT !.kind = kind, !.pc = pc] \in Job
      /\ [job[j] EXCEPT !.kind = kind, !.pc = pc].pc = pc
      /\ [job[j] EXCEPT !.kind = kind, !.pc = pc].kind = kind
      /\ [job[j] EXCEPT !.kind = kind, !.pc = pc].token = job[j].token
  BY <1>2 DEF Job
<1> QED BY <1>1, <1>3 DEF JobType

\* Appending a job that has no entry yet; taking one entry out.
LEMMA AppendSingle ==
    ASSUME NEW s \in Seq(Jobs), NEW j \in Jobs
    PROVE  /\ Append(s, j) \in Seq(Jobs) /\ Len(Append(s, j)) = Len(s) + 1
           /\ Append(s, j)[Len(s) + 1] = j
           /\ \A i \in 1..Len(s) : Append(s, j)[i] = s[i]
OBVIOUS

LEMMA WithoutEffect ==
    ASSUME NEW s \in Seq(Jobs), NEW i \in 1..Len(s)
    PROVE  /\ Without(s, i) \in Seq(Jobs) /\ Len(Without(s, i)) = Len(s) - 1
           /\ \A k \in 1..(Len(s) - 1) : Without(s, i)[k] = IF k < i THEN s[k] ELSE s[k + 1]
<1> DEFINE a == SubSeq(s, 1, i - 1)
           b == SubSeq(s, i + 1, Len(s))
<1>1. Without(s, i) = a \o b
  <2>1. DOMAIN s = 1..Len(s)
    OBVIOUS
  <2> QED BY <2>1 DEF Without, RemoveAt
<1>2. /\ a \in Seq(Jobs) /\ Len(a) = i - 1 /\ \A k \in 1..(i - 1) : a[k] = s[k]
  OBVIOUS
<1>3. b \in Seq(Jobs) /\ Len(b) = Len(s) - i
  OBVIOUS
<1>4. \A k \in 1..(Len(s) - i) : b[k] = s[i + k]
  <2> SUFFICES ASSUME NEW k \in 1..(Len(s) - i) PROVE b[k] = s[i + k]
    OBVIOUS
  <2>1. b[k] = s[(i + 1) + k - 1]
    OBVIOUS
  <2>2. (i + 1) + k - 1 = i + k
    OBVIOUS
  <2> QED BY <2>1, <2>2
<1>5. Len(s) \in Nat /\ i \in Nat
  OBVIOUS
<1> HIDE DEF a, b
<1>6. a \o b \in Seq(Jobs) /\ Len(a \o b) = Len(a) + Len(b)
  BY <1>2, <1>3
<1>7. Len(a \o b) = Len(s) - 1
  BY <1>2, <1>3, <1>5, <1>6
<1>8. ASSUME NEW k \in 1..(Len(s) - 1)
      PROVE  (a \o b)[k] = IF k < i THEN s[k] ELSE s[k + 1]
  <2>1. (a \o b)[k] = IF k <= Len(a) THEN a[k] ELSE b[k - Len(a)]
    BY <1>2, <1>3, <1>5
  <2>2. CASE k < i BY <1>2, <1>5, <2>1, <2>2
  <2>3. CASE ~(k < i)
    <3>1. k - Len(a) \in 1..(Len(s) - i) /\ i + (k - Len(a)) = k + 1 /\ ~(k <= Len(a))
      BY <1>2, <1>5, <2>3
    <3>2. b[k - Len(a)] = s[i + (k - Len(a))] BY <1>4, <3>1
    <3> QED BY <2>1, <2>3, <3>1, <3>2
  <2> QED BY <2>2, <2>3
<1> QED BY <1>1, <1>6, <1>7, <1>8

\* A journal in which each job has one entry is no longer than there are jobs.
LEMMA SingleBounded ==
    ASSUME NEW s \in Seq(Jobs), \A i, k \in 1..Len(s) : i # k => s[i] # s[k]
    PROVE  Len(s) <= Cardinality(Jobs)
<1>1. s \in Injection(1..Len(s), Jobs) BY DEF Injection, IsInjective
<1>2. Cardinality(1..Len(s)) = Len(s) BY FS_Interval
<1> QED BY <1>1, <1>2, FS_Injection, FederationAssumption

LEMMA OneMore ==
    ASSUME NEW S, IsFiniteSet(S), NEW x
    PROVE  /\ Cardinality(S \cup {x}) <= Cardinality(S) + 1
           /\ Cardinality(S) \in Nat /\ Cardinality(S \cup {x}) \in Nat
<1>1. /\ IsFiniteSet(S \cup {x})
      /\ Cardinality(S \cup {x}) = IF x \in S THEN Cardinality(S) ELSE Cardinality(S) + 1
  BY FS_AddElement
<1>2. Cardinality(S) \in Nat BY FS_CardinalityType
<1> QED BY <1>1, <1>2

LEMMA OneLess ==
    ASSUME NEW S, IsFiniteSet(S), NEW x \in S
    PROVE  Cardinality(S \ {x}) = Cardinality(S) - 1
BY FS_RemoveElement

LEMMA FewerOf ==
    ASSUME NEW S, IsFiniteSet(S), NEW T, T \subseteq S
    PROVE  /\ IsFiniteSet(T) /\ Cardinality(T) \in Nat /\ Cardinality(S) \in Nat
           /\ Cardinality(T) <= Cardinality(S)
BY FS_Subset, FS_CardinalityType

\* What a journal covers it still covers when less is at stake, more writes
\* have failed or an entry has moved.
LEMMA CoversLess ==
    ASSUME NEW s \in Seq(Jobs), NEW stake, IsFiniteSet(stake), NEW less, less \subseteq stake,
           NEW f \in Nat, NEW g \in Nat, g >= f, NEW m, NEW n, m => n,
           Covers(s, stake, f, m)
    PROVE  Covers(s, less, g, n)
<1>1. /\ Cardinality(less) \in Nat /\ Cardinality(stake) \in Nat
      /\ Cardinality(less) <= Cardinality(stake)
  BY FewerOf
<1>2. /\ Cardinality(less \ ToSet(s)) \in Nat /\ Cardinality(stake \ ToSet(s)) \in Nat
      /\ Cardinality(less \ ToSet(s)) <= Cardinality(stake \ ToSet(s))
  <2>1. IsFiniteSet(stake \ ToSet(s)) BY FewerOf
  <2>2. less \ ToSet(s) \subseteq stake \ ToSet(s)
    OBVIOUS
  <2> QED BY <2>1, <2>2, FewerOf
<1>3. Len(s) \in Nat
  OBVIOUS
<1> QED BY <1>1, <1>2, <1>3 DEF Covers

\* One payment more at stake: its entry is appended, or one more write failed.
LEMMA CoversMore ==
    ASSUME NEW s \in Seq(Jobs), NEW stake, IsFiniteSet(stake), NEW j \in Jobs,
           NEW f \in Nat, NEW m, Covers(s, stake, f, m)
    PROVE  /\ Covers(Append(s, j), stake \cup {j}, f, m)
           /\ Covers(s, stake \cup {j}, f + 1, m)
<1>1. /\ Cardinality(stake \cup {j}) <= Cardinality(stake) + 1
      /\ Cardinality(stake) \in Nat /\ Cardinality(stake \cup {j}) \in Nat
  BY OneMore
<1>2. Len(s) \in Nat /\ Len(Append(s, j)) = Len(s) + 1
  OBVIOUS
<1>3. IsFiniteSet(stake \ ToSet(s)) BY FewerOf
<1>4. Cardinality((stake \cup {j}) \ ToSet(Append(s, j))) <= Cardinality(stake \ ToSet(s))
  <2>1. ToSet(Append(s, j)) = ToSet(s) \cup {j}
    <3>1. DOMAIN s = 1..Len(s) /\ DOMAIN Append(s, j) = 1..(Len(s) + 1)
      OBVIOUS
    <3>2. 1..(Len(s) + 1) = 1..Len(s) \cup {Len(s) + 1}
      BY <1>2
    <3> QED BY <3>1, <3>2, AppendSingle DEF ToSet
  <2>2. (stake \cup {j}) \ ToSet(Append(s, j)) \subseteq stake \ ToSet(s) BY <2>1
  <2> QED BY <1>3, <2>2, FewerOf
<1>5. /\ Cardinality((stake \cup {j}) \ ToSet(Append(s, j))) \in Nat
      /\ Cardinality(stake \ ToSet(s)) \in Nat
  <2>1. IsFiniteSet(stake \cup {j}) BY FS_AddElement
  <2> QED BY <1>3, <2>1, FewerOf, FS_CardinalityType
<1>6. /\ Cardinality((stake \cup {j}) \ ToSet(s)) <= Cardinality(stake \ ToSet(s)) + 1
      /\ Cardinality((stake \cup {j}) \ ToSet(s)) \in Nat
  <2>1. /\ Cardinality((stake \ ToSet(s)) \cup {j}) <= Cardinality(stake \ ToSet(s)) + 1
        /\ Cardinality((stake \ ToSet(s)) \cup {j}) \in Nat
    BY <1>3, OneMore
  <2>2. IsFiniteSet((stake \ ToSet(s)) \cup {j}) BY <1>3, FS_AddElement
  <2>3. (stake \cup {j}) \ ToSet(s) \subseteq (stake \ ToSet(s)) \cup {j}
    OBVIOUS
  <2>4. /\ Cardinality((stake \cup {j}) \ ToSet(s)) \in Nat
        /\ Cardinality((stake \cup {j}) \ ToSet(s)) <= Cardinality((stake \ ToSet(s)) \cup {j})
    BY <2>2, <2>3, FewerOf
  <2> QED BY <1>5, <2>1, <2>4
<1> QED BY <1>1, <1>2, <1>4, <1>5, <1>6 DEF Covers

\* A payment taken back goes with an entry, its own unless some moved.
LEMMA CoversTaken ==
    ASSUME NEW s \in Seq(Jobs), NEW stake, IsFiniteSet(stake), NEW j \in stake,
           NEW i \in 1..Len(s), NEW f \in Nat, NEW m, ~m => s[i] = j,
           Covers(s, stake, f, m)
    PROVE  Covers(Without(s, i), stake \ {j}, f, m)
<1>1. Cardinality(stake \ {j}) = Cardinality(stake) - 1 /\ Cardinality(stake) \in Nat
  BY OneLess, FS_CardinalityType
<1>2. Len(s) \in Nat /\ i \in Nat
  OBVIOUS
<1>3. /\ Without(s, i) \in Seq(Jobs) /\ Len(Without(s, i)) = Len(s) - 1
      /\ \A k \in 1..(Len(s) - 1) : Without(s, i)[k] = IF k < i THEN s[k] ELSE s[k + 1]
  BY WithoutEffect
<1>4. ASSUME ~m PROVE Cardinality((stake \ {j}) \ ToSet(Without(s, i))) <= f
  <2> DEFINE w == Without(s, i)
  <2>1. DOMAIN w = 1..(Len(s) - 1) /\ DOMAIN s = 1..Len(s)
    BY <1>3
  <2> HIDE DEF w
  <2>2. ASSUME NEW x \in ToSet(s), x # j PROVE x \in ToSet(w)
    <3>1. PICK k \in 1..Len(s) : s[k] = x BY <2>1 DEF ToSet
    <3>2. k # i BY <1>4, <2>2, <3>1
    <3>3. CASE k < i
      <4>1. k \in 1..(Len(s) - 1) BY <1>2, <3>3
      <4>2. w[k] = s[k] BY <1>3, <3>3, <4>1 DEF w
      <4> QED BY <2>1, <3>1, <4>1, <4>2 DEF ToSet
    <3>4. CASE k > i
      <4>1. k - 1 \in 1..(Len(s) - 1) /\ ~(k - 1 < i) /\ (k - 1) + 1 = k BY <1>2, <3>4
      <4>2. w[k - 1] = s[k] BY <1>3, <4>1 DEF w
      <4> QED BY <2>1, <3>1, <4>1, <4>2 DEF ToSet
    <3> QED BY <1>2, <3>2, <3>3, <3>4
  <2>3. (stake \ {j}) \ ToSet(w) \subseteq stake \ ToSet(s) BY <2>2
  <2>4. IsFiniteSet(stake \ ToSet(s)) BY FewerOf
  <2>5. /\ Cardinality((stake \ {j}) \ ToSet(w)) <= Cardinality(stake \ ToSet(s))
        /\ Cardinality((stake \ {j}) \ ToSet(w)) \in Nat /\ Cardinality(stake \ ToSet(s)) \in Nat
    BY <2>3, <2>4, FewerOf
  <2>6. Cardinality(stake \ ToSet(s)) <= f BY <1>4 DEF Covers
  <2> QED BY <2>5, <2>6 DEF w
<1>5. Len(Without(s, i)) + f >= Cardinality(stake \ {j})
  BY <1>1, <1>2, <1>3 DEF Covers
<1> QED BY <1>4, <1>5 DEF Covers

\* Failures of writes are counted only.
FaultsGrow == diskFaults' \in Nat /\ diskFaults' >= diskFaults /\ (Sound' => Sound)

LEMMA WriteGrows ==
    ASSUME diskFaults \in Nat, NEW ok \in BOOLEAN, Write(ok)
    PROVE  FaultsGrow /\ (Sound' => ok) /\ (~ok => diskFaults' = diskFaults + 1)
BY DEF Write, FaultsGrow, Sound

LEMMA LeadKept ==
    ASSUME LeadStore, FaultsGrow, UNCHANGED Leads PROVE LeadStore'
BY DEF LeadStore, FaultsGrow, Leads

LEMMA LeadPut ==
    ASSUME LeadStore, diskFaults \in Nat, NEW ok \in BOOLEAN, NEW state \in LeadStates,
           PutLead(state, ok)
    PROVE  LeadStore' /\ FaultsGrow /\ lead' = state
BY WriteGrows DEF LeadStore, PutLead, FaultsGrow

LEMMA LeadSet ==
    ASSUME LeadStore, diskFaults \in Nat, NEW ok \in BOOLEAN, NEW state \in LeadStates,
           setLeadState(state, ok)
    PROVE  /\ LeadStore' /\ FaultsGrow
           /\ lead' = IF lead \in {"none", "converted"} THEN lead ELSE state
<1>1. CASE lead = "none"
  BY <1>1 DEF setLeadState, LeadStore, Leads, FaultsGrow, Sound
<1>2. CASE lead # "none"
  <2>1. PutLead(IF lead = "converted" THEN lead ELSE state, ok)
    BY <1>2 DEF setLeadState
  <2>2. (IF lead = "converted" THEN lead ELSE state) \in LeadStates
    BY DEF LeadStore
  <2> QED BY <1>2, <2>1, <2>2, LeadPut
<1> QED BY <1>1, <1>2

LEMMA PeerKept ==
    ASSUME PeerStore, FaultsGrow, UNCHANGED Curated PROVE PeerStore'
BY DEF PeerStore, FaultsGrow, Curated

LEMMA PeerPut ==
    ASSUME PeerStore, diskFaults \in Nat, NEW ok \in BOOLEAN, NEW p \in Peers,
           NEW r \in {"none", "trusted", "keyless"}, PutPeer(p, r, ok)
    PROVE  PeerStore' /\ FaultsGrow
BY WriteGrows DEF PeerStore, PeerRecords, PutPeer, FaultsGrow

\* A step that starts no payment and ends none without its entry.
Eased ==
    \A k \in Jobs :
        /\ Early(k)' => Early(k)
        /\ (k \in Pending)' => k \in Pending /\ job'[k].token = job[k].token
        /\ job'[k].pc = "remove" => job[k].pc = "remove"

LEMMA EasedByOne ==
    ASSUME NEW j \in Jobs, \A k \in Jobs : k # j => job'[k] = job[k],
           \/ job'[j].pc \notin {"new", "call", "pay", "paying", "remove"}
           \/ job[j].pc = "new" /\ job'[j].pc \in Pcs \ {"pay", "paying", "remove"}
    PROVE  Eased
BY DEF Eased, Early, Pending

LEMMA StakeFinite == FedInv => IsFiniteSet(AtStake)
BY FS_Subset, FederationAssumption DEF FedInv, MoneySound, Pending, AtStake

\* Such a step keeps the journal sound.
LEMMA Calm ==
    ASSUME FedInv, FaultsGrow, HistType', hist'.shifted = hist.shifted,
           JobType', Eased, LeadStore', PeerStore', UNCHANGED <<spend, spendFile, left>>
    PROVE  FedInv'
<1>1. SpendStore'
  <2>1. ASSUME NEW s \in Seq(Jobs), Single(s)
        PROVE  /\ \A i, k \in 1..Len(s) : i # k => s[i] # s[k]
               /\ \A i \in 1..Len(s) : ~Early(s[i])'
    BY <2>1 DEF Single, Eased
  <2> QED BY <2>1 DEF FedInv, SpendStore, Single, FaultsGrow
<1>2. MoneySound'
  <2>1. Pending' \subseteq Pending /\ \A k \in Pending' : job'[k].token = job[k].token
    BY DEF Eased, Pending
  <2>2. AtStake' \subseteq AtStake BY <2>1 DEF AtStake
  <2>3. ASSUME NEW s \in Seq(Jobs), Covers(s, AtStake, diskFaults, hist.shifted)
        PROVE  Covers(s, AtStake', diskFaults', hist'.shifted)
    <3>1. IsFiniteSet(AtStake) BY StakeFinite
    <3> QED BY <2>2, <2>3, <3>1, CoversLess DEF FedInv, FaultsGrow
  <2>4. left' \subseteq Jobs /\ \A j \in left' : job'[j].pc # "remove"
    BY DEF FedInv, MoneySound, Eased
  <2>5. /\ Covers(spend', AtStake', diskFaults', hist'.shifted)
        /\ Covers(spendFile', AtStake', diskFaults', hist'.shifted)
    BY <2>3 DEF FedInv, MoneySound, SpendStore
  <2>6. ~hist'.shifted =>
          \A j \in Pending' : job'[j].token \in 1..Len(spend') /\ spend'[job'[j].token] = j
    BY <2>1 DEF FedInv, MoneySound
  <2> QED BY <2>4, <2>5, <2>6 DEF MoneySound
<1> QED BY <1>1, <1>2 DEF FedInv, FaultsGrow

\* A step that touches no store.
LEMMA QuietEffect ==
    ASSUME FedInv, Quiet
    PROVE  FaultsGrow /\ LeadStore' /\ PeerStore' /\ UNCHANGED <<spend, spendFile>>
<1>1. FaultsGrow /\ UNCHANGED <<Leads, Curated, spend, spendFile>>
  BY DEF FedInv, Quiet, tables, files, Leads, Curated, FaultsGrow, Sound
<1> QED BY <1>1, LeadKept, PeerKept DEF FedInv

\* The steps of one goroutine that have no part in a payment.
LEMMA CalmOfJob ==
    ASSUME FedInv, NEW j \in Jobs,
           \/ Verify(j) \/ Test(j) \/ Pursue(j) \/ Called(j) \/ PayEnds(j)
           \/ Verified(j) \/ LookInIndex(j) \/ LookInLeads(j)
           \/ Accepted(j) \/ NotInvited(j) \/ Introduce(j)
           \/ \E ok \in BOOLEAN : \/ MakeLead(j, ok) \/ Stamp(j, ok)
                                  \/ Declined(j, ok) \/ Invited(j, ok) \/ Park(j, ok)
    PROVE  FedInv'
<1> DEFINE Elsewhere == Pcs \ {"new", "call", "pay", "paying", "remove"}
<1>1. ASSUME NEW pc \in Elsewhere, Goto(j, pc) PROVE JobType' /\ Eased
  BY <1>1, GotoEffect, EasedByOne DEF FedInv
<1>2. ASSUME End(j) PROVE JobType' /\ Eased
  BY <1>2, EndEffect, EasedByOne DEF FedInv
<1>3. ASSUME NEW kind \in Kinds, NEW pc \in {"call", "invite"}, Begin(j, kind, pc)
      PROVE  JobType' /\ Eased
  <2>1. pc \in Pcs /\ pc \notin {"pay", "paying", "remove"} BY DEF Pcs
  <2> QED BY <1>3, <2>1, BeginEffect, EasedByOne DEF FedInv
<1>4. ASSUME Quiet, UNCHANGED <<left, hist>>, JobType', Eased PROVE FedInv'
  BY <1>4, QuietEffect, Calm DEF FedInv, HistType
<1>5. /\ "verify" \in Elsewhere /\ "index" \in Elsewhere /\ "stamp" \in Elsewhere
      /\ "lead" \in Elsewhere /\ "put" \in Elsewhere /\ "invited" \in Elsewhere
      /\ "introduce" \in Elsewhere /\ "park" \in Elsewhere
  BY DEF Pcs
<1> HIDE DEF Elsewhere
<1>6. CASE Verify(j)
  <2>1. (IF peers[job[j].peer] = "trusted" THEN "verify" ELSE "test") \in Kinds
    BY DEF Kinds
  <2> QED BY <1>3, <1>4, <1>6, <2>1 DEF Verify
<1>7. CASE Test(j) \/ Pursue(j)
  BY <1>3, <1>4, <1>7 DEF Test, Pursue, Kinds
<1>8. CASE Called(j) \/ PayEnds(j) \/ Verified(j) \/ Accepted(j)
  BY <1>1, <1>2, <1>4, <1>5, <1>8 DEF Called, PayEnds, Verified, Accepted
<1>9. CASE LookInIndex(j) \/ LookInLeads(j)
  <2>1. PICK pc \in {"stamp", "lead", "put"} : Goto(j, pc) /\ Quiet /\ UNCHANGED <<left, hist>>
    BY <1>9 DEF LookInIndex, LookInLeads
  <2> QED BY <1>1, <1>4, <1>5, <2>1
<1>10. CASE NotInvited(j)
  <2> DEFINE b == hist.gaveUp \/ Is(j, "resume")
  <2>1. b \in BOOLEAN BY DEF FedInv, HistType
  <2>2. hist' = [hist EXCEPT !.gaveUp = b] BY <1>10 DEF NotInvited
  <2> HIDE DEF b
  <2>3. HistType' /\ hist'.shifted = hist.shifted BY <2>1, <2>2 DEF FedInv, HistType
  <2>4. JobType' /\ Eased BY <1>1, <1>5, <1>10 DEF NotInvited
  <2>5. Quiet /\ left' = left BY <1>10 DEF NotInvited
  <2> QED BY <2>3, <2>4, <2>5, QuietEffect, Calm
<1>11. CASE Introduce(j)
  BY <1>1, <1>2, <1>4, <1>5, <1>11 DEF Introduce
<1>12. ASSUME NEW ok \in BOOLEAN, MakeLead(j, ok) PROVE FedInv'
  <2> DEFINE b == hist.raced \/ known \/ lead = "converted"
  <2>1. b \in BOOLEAN BY DEF FedInv, HistType
  <2>2. hist' = [hist EXCEPT !.raced = b] BY <1>12 DEF MakeLead
  <2> HIDE DEF b
  <2>3. HistType' /\ hist'.shifted = hist.shifted BY <2>1, <2>2 DEF FedInv, HistType
  <2>4. JobType' /\ Eased BY <1>1, <1>2, <1>5, <1>12 DEF MakeLead
  <2>5. LeadStore' /\ FaultsGrow
    BY <1>12, LeadPut DEF FedInv, MakeLead, LeadStates
  <2>6. PeerStore' /\ UNCHANGED <<spend, spendFile, left>>
    BY <1>12, <2>5, PeerKept DEF FedInv, MakeLead, Spend
  <2> QED BY <2>3, <2>4, <2>5, <2>6, Calm
<1>13. ASSUME NEW ok \in BOOLEAN, Stamp(j, ok) PROVE FedInv'
  <2> DEFINE p == job[j].peer
             r == IF peers[p] = "none" THEN "keyless" ELSE peers[p]
  <2>1. p \in Peers BY DEF FedInv, JobType, Job
  <2>2. r \in {"none", "trusted", "keyless"} BY <2>1 DEF FedInv, PeerStore, PeerRecords
  <2>3. PutPeer(p, r, ok) BY <1>13 DEF Stamp
  <2> HIDE DEF p, r
  <2>4. PeerStore' /\ FaultsGrow BY <2>1, <2>2, <2>3, PeerPut DEF FedInv
  <2>5. LeadStore' /\ UNCHANGED <<spend, spendFile, left, hist>>
    BY <1>13, <2>4, LeadKept DEF FedInv, Stamp, Spend
  <2>6. JobType' /\ Eased BY <1>2, <1>13 DEF Stamp
  <2> QED BY <2>4, <2>5, <2>6, Calm DEF FedInv, HistType
<1>14. ASSUME NEW ok \in BOOLEAN, Declined(j, ok) \/ Invited(j, ok) \/ Park(j, ok)
       PROVE  FedInv'
  <2>1. JobType' /\ Eased
    BY <1>1, <1>2, <1>5, <1>14 DEF Declined, Invited, Park
  <2>2. LeadStore' /\ FaultsGrow
    BY <1>14, LeadSet DEF FedInv, Declined, Invited, Park, LeadStates
  <2>3. PeerStore' /\ UNCHANGED <<spend, spendFile, left, hist>>
    BY <1>14, <2>2, PeerKept DEF FedInv, Declined, Invited, Park, Spend
  <2> QED BY <2>1, <2>2, <2>3, Calm DEF FedInv, HistType
<1> QED BY <1>6, <1>7, <1>8, <1>9, <1>10, <1>11, <1>12, <1>13, <1>14

\* The entry of a payment comes before the payment (spendJournal.record).
LEMMA RecordKeeps ==
    ASSUME FedInv, NEW j \in Jobs, NEW ok \in BOOLEAN, record(j, ok)
    PROVE  FedInv'
<1> DEFINE n == Len(spend) + 1
<1> USE DEF FedInv
<1>1. /\ At(j, "call") /\ PutSpend(Append(spend, j), ok)
      /\ job' = [job EXCEPT ![j].pc = "pay", ![j].token = n]
      /\ UNCHANGED <<Leads, Curated, left, hist>>
  BY DEF record
<1>2. /\ spend' \in Seq(Jobs) /\ Len(spend') = n /\ spend'[n] = j
      /\ \A i \in 1..Len(spend) : spend'[i] = spend[i]
  BY <1>1, AppendSingle DEF PutSpend, SpendStore
<1>3. FaultsGrow /\ (Sound' => ok) /\ (~ok => diskFaults' = diskFaults + 1)
  BY <1>1, WriteGrows DEF PutSpend
<1>4. Early(j) /\ n \in Nat /\ 1..n = 1..Len(spend) \cup {n}
  BY <1>1 DEF Early, At, SpendStore
<1>5. \A i, k \in 1..n : i # k => spend'[i] # spend'[k]
  BY <1>2, <1>4 DEF SpendStore, Single
<1>6. n <= Cardinality(Jobs) BY <1>2, <1>5, SingleBounded
<1>7. JobType' /\ job'[j].pc = "pay" /\ job'[j].token = n
      /\ \A k \in Jobs : k # j => job'[k] = job[k]
  <2>1. job[j] \in Job BY DEF JobType
  <2>2. n \in 0..Cardinality(Jobs) BY <1>4, <1>6, JobsCounted
  <2> DEFINE m == n
  <2>3. job' = [job EXCEPT ![j] = [@ EXCEPT !.pc = "pay", !.token = m]] BY <1>1
  <2> HIDE DEF n
  <2>4. /\ [job[j] EXCEPT !.pc = "pay", !.token = n] \in Job
        /\ [job[j] EXCEPT !.pc = "pay", !.token = n].pc = "pay"
        /\ [job[j] EXCEPT !.pc = "pay", !.token = n].token = n
    BY <2>1, <2>2 DEF Job, Pcs
  <2> QED BY <2>3, <2>4 DEF JobType
<1> HIDE DEF n
<1>8. \A k \in Jobs : Early(k)' => Early(k) /\ k # j
  BY <1>7 DEF Early
<1>9. SpendStore'
  <2>1. Single(spend)'
    <3>1. ASSUME NEW i \in 1..n PROVE job'[spend'[i]].pc \notin {"new", "call"}
      <4>1. CASE i = n BY <1>2, <1>7, <4>1
      <4>2. CASE i \in 1..Len(spend)
        <5>1. spend[i] \in Jobs /\ ~Early(spend[i]) BY <4>2 DEF SpendStore, Single
        <5>2. spend'[i] = spend[i] BY <1>2, <4>2
        <5> QED BY <1>8, <5>1, <5>2 DEF Early
      <4> QED BY <1>4, <4>1, <4>2
    <3> QED BY <1>2, <1>5, <3>1 DEF Single, Early
  <2>2. spendFile' = IF ok THEN spend' ELSE spendFile
    BY <1>1 DEF PutSpend
  <2>3. Single(spendFile)'
    <3>1. CASE ok BY <2>1, <2>2, <3>1 DEF Single
    <3>2. CASE ~ok
      <4>1. \A i \in 1..Len(spendFile) : spendFile[i] \in Jobs BY DEF SpendStore
      <4> QED BY <1>8, <2>2, <3>2, <4>1 DEF Single, SpendStore
    <3> QED BY <3>1, <3>2
  <2> QED BY <1>2, <1>3, <2>1, <2>2, <2>3 DEF SpendStore
<1>10. MoneySound'
  <2>1. Pending' = Pending \cup {j} BY <1>7 DEF Pending
  <2>2. left' = left BY <1>1
  <2>3. AtStake' = AtStake \cup {j} /\ IsFiniteSet(AtStake)
    BY <2>1, <2>2, StakeFinite DEF AtStake
  <2>4. hist'.shifted = hist.shifted BY <1>1
  <2>5. Covers(spend', AtStake', diskFaults', hist'.shifted)
    <3>1. spend' = Append(spend, j) BY <1>1 DEF PutSpend
    <3>2. Covers(Append(spend, j), AtStake \cup {j}, diskFaults, hist.shifted)
      BY <2>3, CoversMore DEF SpendStore, MoneySound
    <3>3. spend' \in Seq(Jobs) /\ IsFiniteSet(AtStake') BY <1>2, <2>3, FS_AddElement
    <3>4. Covers(spend', AtStake', diskFaults, hist.shifted) BY <2>3, <3>1, <3>2
    <3>5. diskFaults \in Nat /\ diskFaults' \in Nat /\ diskFaults' >= diskFaults
          /\ AtStake' \subseteq AtStake'
      BY <1>3 DEF FaultsGrow
    <3> HIDE DEF FedInv
    <3> QED BY <2>4, <3>3, <3>4, <3>5, CoversLess
  <2>6. Covers(spendFile', AtStake', diskFaults', hist'.shifted)
    <3>1. CASE ok
      <4>1. spendFile' = spend' BY <1>1, <3>1 DEF PutSpend
      <4> QED BY <2>5, <4>1
    <3>2. CASE ~ok
      <4>1. spendFile' = spendFile /\ diskFaults' = diskFaults + 1
        BY <1>1, <1>3, <3>2 DEF PutSpend
      <4>2. Covers(spendFile, AtStake \cup {j}, diskFaults + 1, hist.shifted)
        BY <2>3, CoversMore DEF SpendStore, MoneySound
      <4> QED BY <2>3, <2>4, <4>1, <4>2
    <3> QED BY <3>1, <3>2
  <2>7. left' \subseteq Jobs /\ \A k \in left' : job'[k].pc # "remove"
    BY <1>7, <2>2 DEF MoneySound
  <2>8. ASSUME ~hist'.shifted, NEW k \in Pending'
        PROVE  job'[k].token \in 1..n /\ spend'[job'[k].token] = k
    <3>1. \A x \in Pending : job[x].token \in 1..Len(spend) /\ spend[job[x].token] = x
      BY <2>4, <2>8 DEF MoneySound
    <3>2. \A i \in 1..Len(spend) : i \in 1..n BY <1>4
    <3>3. n \in 1..n BY <1>4
    <3>4. CASE k = j BY <1>2, <1>7, <3>3, <3>4
    <3>5. CASE k # j
      <4>1. k \in Jobs /\ k \in Pending BY <2>1, <3>5 DEF Pending
      <4> QED BY <1>2, <1>7, <3>1, <3>2, <3>5, <4>1
    <3> QED BY <3>4, <3>5
  <2> QED BY <1>2, <2>5, <2>6, <2>7, <2>8 DEF MoneySound
<1> QED BY <1>1, <1>3, <1>7, <1>9, <1>10, LeadKept, PeerKept DEF FaultsGrow, HistType

\* Payer.Pay begins and ends: the money leaves or comes back, the entry stays.
LEMMA PayKeeps ==
    ASSUME FedInv, NEW j \in Jobs, Pay(j) \/ PayFails(j) PROVE FedInv'
<1> USE DEF FedInv
<1>1. /\ FaultsGrow /\ LeadStore' /\ PeerStore' /\ UNCHANGED <<spend, spendFile, hist>>
      /\ Sound' = Sound
  BY QuietEffect DEF Pay, PayFails, Quiet, Sound
<1>2. JobType' /\ job'[j].token = job[j].token /\ \A k \in Jobs : k # j => job'[k] = job[k]
  BY GotoEffect DEF Pay, PayFails, Pcs
<1>3. \/ job[j].pc = "pay" /\ job'[j].pc = "paying" /\ left' = left \cup {j}
      \/ job[j].pc = "paying" /\ job'[j].pc = "remove" /\ left' = left \ {j}
  BY GotoEffect DEF Pay, PayFails, Pcs, At
<1>4. \A k \in Jobs : Early(k)' <=> Early(k)
  BY <1>2, <1>3 DEF Early
<1>5. SpendStore'
  <2>1. ASSUME NEW s \in Seq(Jobs), Single(s)
        PROVE  /\ \A i, k \in 1..Len(s) : i # k => s[i] # s[k]
               /\ \A i \in 1..Len(s) : ~Early(s[i])'
    BY <1>4, <2>1 DEF Single
  <2> QED BY <1>1, <2>1 DEF SpendStore, Single
<1>6. MoneySound'
  <2>1. Pending' = Pending /\ j \in Pending BY <1>2, <1>3 DEF Pending
  <2>2. AtStake' \subseteq AtStake /\ IsFiniteSet(AtStake)
    BY <1>3, <2>1, StakeFinite DEF AtStake
  <2>3. ASSUME NEW s \in Seq(Jobs), Covers(s, AtStake, diskFaults, hist.shifted)
        PROVE  Covers(s, AtStake', diskFaults', hist'.shifted)
    BY <1>1, <2>2, <2>3, CoversLess DEF FaultsGrow
  <2>4. /\ Covers(spend', AtStake', diskFaults', hist'.shifted)
        /\ Covers(spendFile', AtStake', diskFaults', hist'.shifted)
    BY <1>1, <2>3 DEF MoneySound, SpendStore
  <2>6. left' \subseteq Jobs /\ \A k \in left' : job'[k].pc # "remove"
    BY <1>2, <1>3 DEF MoneySound
  <2>7. ASSUME ~hist'.shifted
        PROVE  \A k \in Pending' : job'[k].token \in 1..Len(spend') /\ spend'[job'[k].token] = k
    <3>1. \A k \in Pending : job[k].token \in 1..Len(spend) /\ spend[job[k].token] = k
      BY <1>1, <2>7 DEF MoneySound
    <3>2. \A k \in Pending : job'[k].token = job[k].token BY <1>2 DEF Pending
    <3> QED BY <1>1, <2>1, <3>1, <3>2
  <2> QED BY <2>4, <2>6, <2>7 DEF MoneySound
<1> QED BY <1>1, <1>2, <1>5, <1>6 DEF FaultsGrow, HistType

\* A payment that failed for good takes an entry out, its own unless an
\* earlier one went before (spendJournal.remove).
LEMMA RemoveKeeps ==
    ASSUME FedInv, NEW j \in Jobs, NEW ok \in BOOLEAN, remove(j, ok) PROVE FedInv'
<1> USE DEF FedInv
<1> DEFINE i == job[j].token
           b == hist.shifted \/ \E k \in Pending : job[k].token > i
<1>1. /\ At(j, "remove") /\ End(j)
      /\ IF i \in DOMAIN spend THEN PutSpend(Without(spend, i), ok)
         ELSE ok /\ UNCHANGED <<Spend, diskFaults>>
      /\ hist' = [hist EXCEPT !.shifted = b]
      /\ UNCHANGED <<Leads, Curated, left>>
  BY DEF remove
<1>2. i \in Nat BY JobsCounted DEF JobType, Job
<1>3. b \in BOOLEAN BY DEF HistType
<1>4. DOMAIN spend = 1..Len(spend) /\ Len(spend) \in Nat BY DEF SpendStore
<1>5. JobType' /\ job'[j].pc = "done" /\ \A k \in Jobs : k # j => job'[k] = job[k]
  BY <1>1, EndEffect
<1>6. HistType' /\ hist'.shifted = b
  <2> HIDE DEF b
  <2> QED BY <1>1, <1>3 DEF HistType
<1>7. \A k \in Jobs : Early(k)' => Early(k)
  BY <1>5 DEF Early
<1>8. ASSUME i \in 1..Len(spend)
      PROVE  /\ PutSpend(Without(spend, i), ok)
             /\ spend' \in Seq(Jobs) /\ Len(spend') = Len(spend) - 1
             /\ \A k \in 1..(Len(spend) - 1) :
                    spend'[k] = IF k < i THEN spend[k] ELSE spend[k + 1]
  <2>1. PutSpend(Without(spend, i), ok) BY <1>1, <1>4, <1>8
  <2>2. spend' = Without(spend, i) BY <2>1 DEF PutSpend
  <2>3. spend \in Seq(Jobs) BY DEF SpendStore
  <2> QED BY <1>8, <2>1, <2>2, <2>3, WithoutEffect
<1>8a. ASSUME i \notin 1..Len(spend)
       PROVE  ok /\ UNCHANGED <<spend, spendFile, diskFaults>>
  BY <1>1, <1>4, <1>8a DEF Spend
<1>9. FaultsGrow /\ (Sound' => ok)
  <2>1. CASE i \in 1..Len(spend) BY <1>8, <2>1, WriteGrows DEF PutSpend
  <2>2. CASE i \notin 1..Len(spend) BY <1>8a, <2>2 DEF FaultsGrow, Sound
  <2> QED BY <2>1, <2>2
<1>10. SpendStore'
  <2>1. spend' \in Seq(Jobs) BY <1>8, <1>8a DEF SpendStore
  <2>2. /\ \A m, k \in 1..Len(spend') : m # k => spend'[m] # spend'[k]
        /\ \A k \in 1..Len(spend') : ~Early(spend'[k])
    <3>1. CASE i \in 1..Len(spend)
      <4> DEFINE at(k) == IF k < i THEN k ELSE k + 1
      <4>1. ASSUME NEW k \in 1..Len(spend')
            PROVE  k \in Nat /\ at(k) \in 1..Len(spend) /\ spend'[k] = spend[at(k)]
        <5>1. k \in 1..(Len(spend) - 1) BY <1>8, <3>1
        <5>2. spend'[k] = IF k < i THEN spend[k] ELSE spend[k + 1] BY <1>8, <3>1, <5>1
        <5> HIDE DEF i
        <5> QED BY <1>2, <1>4, <5>1, <5>2
      <4>2. \A m, k \in Nat : m # k => at(m) # at(k)
        BY <1>2
      <4> HIDE DEF i, at
      <4> QED BY <4>1, <4>2 DEF SpendStore, Single
    <3>2. CASE i \notin 1..Len(spend) BY <1>8a, <3>2 DEF SpendStore, Single
    <3> QED BY <3>1, <3>2
  <2>3. Single(spend)'
    <3>1. \A k \in 1..Len(spend') : spend'[k] \in Jobs BY <2>1
    <3> QED BY <1>7, <2>2, <3>1 DEF Single, Early
  <2>4. \/ ok /\ i \in 1..Len(spend) /\ spendFile' = spend'
        \/ spendFile' = spendFile /\ (i \notin 1..Len(spend) => spend' = spend)
    BY <1>8, <1>8a DEF PutSpend
  <2>5. spendFile' \in Seq(Jobs) /\ Single(spendFile)'
    <3>1. CASE spendFile' = spend' BY <2>1, <2>3, <3>1 DEF Single
    <3>2. CASE spendFile' = spendFile
      <4>1. \A k \in 1..Len(spendFile) : spendFile[k] \in Jobs BY DEF SpendStore
      <4> QED BY <1>7, <3>2, <4>1 DEF Single, SpendStore
    <3> QED BY <2>4, <3>1, <3>2
  <2>6. Sound' => spendFile' = spend'
    BY <1>8, <1>8a, <1>9 DEF PutSpend, SpendStore, FaultsGrow
  <2> QED BY <2>1, <2>3, <2>5, <2>6 DEF SpendStore
<1>11. MoneySound'
  <2>1. Pending' = Pending \ {j} /\ j \in Pending /\ job[j].pc = "remove"
    BY <1>1, <1>5 DEF Pending, At
  <2>2. left' = left /\ j \notin left BY <1>1, <2>1 DEF MoneySound
  <2>3. AtStake' = AtStake \ {j} /\ j \in AtStake /\ IsFiniteSet(AtStake)
    BY <2>1, <2>2, StakeFinite DEF AtStake
  <2>4. IsFiniteSet(AtStake') /\ (hist.shifted => hist'.shifted)
    BY <1>6, <2>3, FewerOf
  <2>5. ASSUME NEW s \in Seq(Jobs), Covers(s, AtStake, diskFaults, hist.shifted)
        PROVE  Covers(s, AtStake', diskFaults', hist'.shifted)
    <3>1. AtStake' \subseteq AtStake BY <2>3
    <3> HIDE DEF b
    <3> QED BY <1>9, <2>3, <2>4, <2>5, <3>1, CoversLess DEF FaultsGrow
  <2>6. /\ Covers(spend', AtStake', diskFaults', hist'.shifted)
        /\ Covers(spendFile', AtStake', diskFaults', hist'.shifted)
    <3>1. CASE i \in 1..Len(spend)
      <4>1. spend' = Without(spend, i) /\ (spendFile' = spend' \/ spendFile' = spendFile)
        BY <1>8, <3>1 DEF PutSpend
      <4>2. ~hist'.shifted => spend[i] = j BY <1>6, <2>1 DEF MoneySound
      <4>3. Covers(spend, AtStake, diskFaults, hist'.shifted)
        <5>1. spend \in Seq(Jobs) BY DEF SpendStore
        <5>2. Covers(spend, AtStake, diskFaults, hist.shifted) BY DEF MoneySound
        <5>3. diskFaults >= diskFaults /\ AtStake \subseteq AtStake
          OBVIOUS
        <5> HIDE DEF b, FedInv
        <5> QED BY <2>3, <2>4, <5>1, <5>2, <5>3, CoversLess DEF FedInv
      <4>4. Covers(Without(spend, i), AtStake \ {j}, diskFaults, hist'.shifted)
        BY <2>3, <3>1, <4>2, <4>3, CoversTaken DEF SpendStore
      <4>5. Covers(spend', AtStake', diskFaults', hist'.shifted)
        <5>1. spend' \in Seq(Jobs) /\ AtStake' \subseteq AtStake' BY <1>10 DEF SpendStore
        <5> QED BY <1>9, <2>3, <2>4, <4>1, <4>4, <5>1, CoversLess DEF FaultsGrow
      <4>6. Covers(spendFile, AtStake', diskFaults', hist'.shifted)
        BY <2>5 DEF MoneySound, SpendStore
      <4> QED BY <4>1, <4>5, <4>6
    <3>2. CASE i \notin 1..Len(spend)
      BY <1>8a, <2>5, <3>2 DEF MoneySound, SpendStore
    <3> QED BY <3>1, <3>2
  <2>7. left' \subseteq Jobs /\ \A k \in left' : job'[k].pc # "remove"
    BY <1>5, <2>2 DEF MoneySound
  <2>8. ASSUME ~hist'.shifted
        PROVE  \A k \in Pending' : job'[k].token \in 1..Len(spend') /\ spend'[job'[k].token] = k
    <3>1. ~hist.shifted /\ \A k \in Pending : ~(job[k].token > i) BY <1>6, <2>8
    <3>2. \A k \in Pending : job[k].token \in 1..Len(spend) /\ spend[job[k].token] = k
      BY <3>1 DEF MoneySound
    <3>3. i \in 1..Len(spend) /\ spend[i] = j BY <2>1, <3>2
    <3>3a. /\ Len(spend') = Len(spend) - 1
           /\ \A k \in 1..(Len(spend) - 1) :
                    spend'[k] = IF k < i THEN spend[k] ELSE spend[k + 1]
      BY <1>8, <3>3
    <3> HIDE DEF i
    <3>4. ASSUME NEW k \in Pending' PROVE job'[k].token \in 1..Len(spend') /\ spend'[job'[k].token] = k
      <4>1. k \in Pending /\ k # j /\ job'[k] = job[k] BY <1>5, <2>1 DEF Pending
      <4>2. job[k].token \in 1..Len(spend) /\ spend[job[k].token] = k BY <3>2, <4>1
      <4>3. job[k].token < i BY <1>2, <3>1, <3>3, <4>1, <4>2
      <4>4. job[k].token \in 1..Len(spend') BY <1>2, <1>4, <3>3, <3>3a, <4>2, <4>3
      <4>5. spend'[job[k].token] = spend[job[k].token] BY <3>3a, <4>3, <4>4
      <4> QED BY <4>1, <4>2, <4>4, <4>5
    <3> QED BY <3>4
  <2> QED BY <2>6, <2>7, <2>8 DEF MoneySound
<1> QED BY <1>1, <1>5, <1>6, <1>9, <1>10, <1>11, LeadKept, PeerKept DEF FaultsGrow

\* The steps of the goroutines and of the world keep the journal sound.
LEMMA FedStep == FedInv /\ [Next]_vars => FedInv'
<1> SUFFICES ASSUME FedInv, [Next]_vars PROVE FedInv'
  OBVIOUS
<1> USE DEF FedInv
<1>1. ASSUME NEW j \in Jobs, JobStep(j) PROVE FedInv'
  <2>1. CASE Pay(j) \/ PayFails(j) BY <2>1, PayKeeps
  <2>2. ASSUME NEW ok \in BOOLEAN, record(j, ok) PROVE FedInv' BY <2>2, RecordKeeps
  <2>3. ASSUME NEW ok \in BOOLEAN, remove(j, ok) PROVE FedInv' BY <2>3, RemoveKeeps
  <2> HIDE DEF FedInv
  <2> QED BY <1>1, <2>1, <2>2, <2>3, CalmOfJob DEF JobStep
<1>2. ASSUME UNCHANGED job PROVE JobType' /\ Eased
  BY <1>2 DEF JobType, Eased, Early, Pending
<1>3. ASSUME Quiet, UNCHANGED <<job, left, hist>> PROVE FedInv'
  BY <1>2, <1>3, QuietEffect, Calm DEF HistType
<1>4. ASSUME NEW j \in Jobs, NotifyKX(j) PROVE FedInv'
  <2> DEFINE b == hist.missed \/ \E k \in Jobs : At(k, "park")
  <2>1. b \in BOOLEAN BY DEF HistType
  <2>2. hist' = [hist EXCEPT !.missed = b] BY <1>4 DEF NotifyKX
  <2> HIDE DEF b
  <2>3. HistType' /\ hist'.shifted = hist.shifted BY <2>1, <2>2 DEF HistType
  <2>4. JobType' /\ Eased
    <3>1. CASE lead = "pursuing"
      <4>1. Begin(j, "resume", "invite") BY <1>4, <3>1 DEF NotifyKX
      <4> QED BY <4>1, BeginEffect, EasedByOne DEF Kinds, Pcs
    <3>2. CASE lead # "pursuing" BY <1>2, <1>4, <3>2 DEF NotifyKX
    <3> QED BY <3>1, <3>2
  <2>5. Quiet /\ left' = left BY <1>4 DEF NotifyKX
  <2> QED BY <2>3, <2>4, <2>5, QuietEffect, Calm
<1>5. ASSUME NEW p \in Peers, NEW ok \in BOOLEAN, AddPeer(p, ok) \/ RemovePeer(p, ok)
      PROVE  FedInv'
  <2>1. PeerStore' /\ FaultsGrow BY <1>5, PeerPut DEF AddPeer, RemovePeer
  <2>2. LeadStore' /\ UNCHANGED <<spend, spendFile, job, left, hist>>
    BY <1>5, <2>1, LeadKept DEF AddPeer, RemovePeer, Spend
  <2> QED BY <1>2, <2>1, <2>2, Calm DEF HistType
<1>6. CASE Register \/ Delist
  BY <1>3, <1>6 DEF Register, Delist
<1>7. ASSUME NEW ok \in BOOLEAN, convertLead(ok) PROVE FedInv'
  <2>1. UNCHANGED <<Curated, spend, spendFile, job, left, hist>>
    BY <1>7 DEF convertLead, Spend
  <2>2. LeadStore' /\ FaultsGrow
    <3>1. CASE UNCHANGED <<Leads, diskFaults>>
      BY <3>1, LeadKept DEF FaultsGrow, Sound
    <3>2. CASE PutLead("converted", ok) BY <3>2, LeadPut DEF LeadStates
    <3> QED BY <1>7, <3>1, <3>2 DEF convertLead
  <2>3. PeerStore' BY <2>1, <2>2, PeerKept
  <2> QED BY <1>2, <2>1, <2>2, <2>3, Calm DEF HistType
<1>8. CASE Restart
  <2> DEFINE b == hist.torn \/ registrar = "convert"
  <2>1. b \in BOOLEAN BY DEF HistType
  <2>2. hist' = [hist EXCEPT !.torn = b] BY <1>8 DEF Restart
  <2> HIDE DEF b
  <2>3. HistType' /\ hist'.shifted = hist.shifted BY <2>1, <2>2 DEF HistType
  <2>4. /\ lead' = leadFile /\ peers' = peersFile /\ spend' = spendFile
        /\ UNCHANGED <<leadFile, peersFile, spendFile, left, diskFaults>>
        /\ job' = [k \in Jobs |-> IF At(k, "new") THEN job[k] ELSE Idle("done", job[k].peer)]
    BY <1>8 DEF Restart, files
  <2>5. JobType' BY <2>4, JobsCounted DEF JobType, Job, Idle, Pcs, Kinds
  <2>6. \A k \in Jobs : (job'[k] = job[k] /\ job[k].pc = "new") \/ job'[k].pc = "done"
    BY <2>4 DEF At, Idle
  <2>7. Eased BY <2>6 DEF Eased, Early, Pending
  <2>8. LeadStore' /\ PeerStore' /\ FaultsGrow
    BY <2>4 DEF LeadStore, PeerStore, FaultsGrow, Sound
  <2>9. SpendStore'
    <3>1. \A k \in 1..Len(spendFile) : spendFile[k] \in Jobs BY DEF SpendStore
    <3>2. Single(spendFile)' BY <2>4, <2>7, <3>1 DEF SpendStore, Single, Eased
    <3>3. Single(spend)' BY <2>4, <3>2 DEF Single
    <3> QED BY <2>4, <3>2, <3>3 DEF SpendStore, Sound
  <2>10. MoneySound'
    <3>1. Pending' = {} BY <2>6 DEF Pending
    <3>2. AtStake' \subseteq AtStake /\ IsFiniteSet(AtStake)
      BY <2>4, <3>1, StakeFinite DEF AtStake
    <3>3. Covers(spendFile, AtStake', diskFaults', hist'.shifted)
      BY <2>3, <2>8, <3>2, CoversLess DEF MoneySound, SpendStore, FaultsGrow
    <3>7. left' \subseteq Jobs /\ \A k \in left' : job'[k].pc # "remove"
      BY <2>4, <2>6 DEF MoneySound
    <3> QED BY <2>4, <3>1, <3>3, <3>7 DEF MoneySound
  <2> QED BY <2>3, <2>4, <2>5, <2>8, <2>9, <2>10 DEF FaultsGrow
<1>9. CASE UNCHANGED vars
  BY <1>3, <1>9 DEF vars, tables, files, Quiet
<1> HIDE DEF FedInv
<1> QED BY <1>1, <1>4, <1>5, <1>6, <1>7, <1>8, <1>9 DEF Next

LEMMA FedInit == Init => FedInv
<1> SUFFICES ASSUME Init PROVE FedInv
  OBVIOUS
<1>1. HistType /\ diskFaults \in Nat BY DEF Init, HistType
<1>2. JobType /\ Pending = {}
  BY JobsCounted DEF Init, JobType, Job, Idle, Pcs, Kinds, Pending
<1>3. LeadStore /\ PeerStore
  BY DEF Init, LeadStore, PeerStore, PeerRecords, LeadStates
<1>4. SpendStore BY DEF Init, SpendStore, Single
<1>5. MoneySound
  <2>1. left = {} /\ spend = <<>> /\ spendFile = <<>> /\ diskFaults = 0 BY DEF Init
  <2>2. AtStake = {} /\ AtStake \ ToSet(spend) = {} BY <1>2, <2>1 DEF AtStake
  <2>3. Cardinality(AtStake) = 0 /\ Cardinality(AtStake \ ToSet(spend)) = 0
    BY <2>2, FS_EmptySet
  <2>4. Covers(spend, AtStake, diskFaults, hist.shifted) BY <2>1, <2>3 DEF Covers
  <2> QED BY <1>2, <2>1, <2>4 DEF MoneySound
<1> QED BY <1>1, <1>2, <1>3, <1>4, <1>5 DEF FedInv

\* Every value has its type, a goroutine's token included, and while no write
\* has failed no store runs ahead of its file (jsonStore, spendJournal).
THEOREM FederationTypeCorrect == Spec => []FederationTypeOK
<1>1. FedInv => FederationTypeOK
  BY DEF FedInv, FederationTypeOK, LeadStore, PeerStore, PeerRecords, SpendStore, JobType, Job
<1> QED BY <1>1, FedInit, FedStep, PTL DEF Spec

\* The spend journal on disk covers the money that has left but for one
\* payment for each failed write, entry by entry unless two payments failed
\* out of order, across restarts (record, remove, paidCall).
THEOREM SpendCoversMoneyCorrect == Spec => []SpendCoversMoney
<1>1. FedInv => SpendCoversMoney
  <2> SUFFICES ASSUME FedInv PROVE SpendCoversMoney
    OBVIOUS
  <2>1. Covers(spendFile, AtStake, diskFaults, hist.shifted) /\ spendFile \in Seq(Jobs)
    BY DEF FedInv, MoneySound, SpendStore
  <2>2. diskFaults \in Nat /\ diskFaults >= diskFaults BY DEF FedInv
  <2>3. IsFiniteSet(AtStake) /\ left \subseteq AtStake BY StakeFinite DEF AtStake
  <2>4. Covers(spendFile, left, diskFaults, hist.shifted)
    BY <2>1, <2>2, <2>3, CoversLess
  <2> QED BY <2>4 DEF Covers, SpendCoversMoney
<1> QED BY <1>1, FedInit, FedStep, PTL DEF Spec

-----------------------------------------------------------------------------
(* Pursuits.                                                               *)

Excused == kx \/ hist.missed \/ hist.gaveUp
Parking(j) == job[j].pc = "park"
Resuming(j) == job[j].kind = "resume" /\ job[j].pc \in {"invite", "invited"}
Inviting(j) == job[j].pc = "invite" => job[j].kind \in {"pursue", "resume"}

\* A pursuit that is about to be parked still has its exchange to come, and
\* so has a parked one that nobody goes on with.
PursuitSound ==
    /\ crashes \in Nat
    /\ \A j \in Jobs : Inviting(j) /\ (Parking(j) => Excused \/ crashes # 0)
    /\ lead = "pursuing" /\ crashes = 0 => Excused \/ \E j \in Jobs : Resuming(j)

PursuitInv == FedInv /\ PursuitSound

Steady(k) == (Parking(k)' => Parking(k)) /\ (Inviting(k) => Inviting(k)')

\* Steps that park nobody, stop nobody and forget nothing.
LEMMA PursuitKept ==
    ASSUME PursuitSound, crashes' = crashes,
           lead' = lead \/ lead' # "pursuing", Excused => Excused',
           \A k \in Jobs : Steady(k),
           \/ \A k \in Jobs : Resuming(k) => Resuming(k)'
           \/ lead' # "pursuing" \/ Excused'
    PROVE  PursuitSound'
BY DEF PursuitSound, Steady

\* The steps of one goroutine.
LEMMA PursuitOfJob ==
    ASSUME PursuitInv, NEW j \in Jobs, JobStep(j) PROVE PursuitSound'
<1> USE DEF PursuitInv
<1>1. ASSUME Quiet PROVE lead' = lead
  BY <1>1 DEF Quiet, tables
<1>2. ASSUME NEW pc \in Pcs \ {"park", "invite"}, Goto(j, pc),
             \/ job[j].kind # "resume" \/ job[j].pc \notin {"invite", "invited"}
             \/ job[j].pc = "invite" /\ pc = "invited"
      PROVE  \A k \in Jobs : Steady(k) /\ (Resuming(k) => Resuming(k)')
  BY <1>2, GotoEffect DEF FedInv, Parking, Inviting, Steady, Resuming
<1>3. ASSUME End(j)
      PROVE  \A k \in Jobs : /\ Steady(k)
                             /\ Resuming(k) => Resuming(k)' \/ job[j].pc \in {"invite", "invited"}
  BY <1>3, EndEffect DEF FedInv, Parking, Inviting, Steady, Resuming
<1>4. ASSUME NEW kind \in Kinds, NEW pc \in {"call", "invite"}, Begin(j, kind, pc),
             pc = "call" \/ kind \in {"pursue", "resume"}
      PROVE  \A k \in Jobs : Steady(k) /\ (Resuming(k) => Resuming(k)')
  <2>1. pc \in Pcs /\ pc # "park" BY DEF Pcs
  <2> QED BY <1>4, <2>1, BeginEffect DEF FedInv, Parking, Inviting, Steady, Resuming
<1>5. CASE Verify(j)
  <2>1. (IF peers[job[j].peer] = "trusted" THEN "verify" ELSE "test") \in Kinds
    BY DEF Kinds
  <2> QED BY <1>1, <1>4, <1>5, <2>1, PursuitKept DEF Verify, world, Excused
<1>6. CASE Test(j) \/ Pursue(j)
  BY <1>1, <1>4, <1>6, PursuitKept DEF Test, Pursue, Kinds, world, Excused
<1>7. CASE \/ Called(j) \/ Pay(j) \/ PayEnds(j) \/ PayFails(j)
           \/ Verified(j) \/ LookInIndex(j) \/ LookInLeads(j)
  <2>1. Quiet /\ UNCHANGED <<kx, hist, crashes>>
    BY <1>7 DEF Called, Pay, PayEnds, PayFails, Verified, LookInIndex, LookInLeads, world
  <2>2. job[j].pc \notin {"invite", "invited"}
    BY <1>7 DEF Called, Pay, PayEnds, PayFails, Verified, LookInIndex, LookInLeads, At
  <2>3. End(j) \/ \E pc \in Pcs \ {"park", "invite"} : Goto(j, pc)
    BY <1>7 DEF Called, Pay, PayEnds, PayFails, Verified, LookInIndex, LookInLeads, Pcs
  <2>4. \A k \in Jobs : Steady(k) /\ (Resuming(k) => Resuming(k)')
    <3>1. CASE End(j) BY <1>3, <2>2, <3>1
    <3>2. ASSUME NEW pc \in Pcs \ {"park", "invite"}, Goto(j, pc)
          PROVE  \A k \in Jobs : Steady(k) /\ (Resuming(k) => Resuming(k)')
      BY <1>2, <2>2, <3>2
    <3> QED BY <2>3, <3>1, <3>2
  <2> QED BY <1>1, <2>1, <2>4, PursuitKept DEF Excused
<1>8. CASE Accepted(j)
  BY <1>1, <1>2, <1>8, PursuitKept DEF Accepted, At, world, Excused, Pcs
<1>9. CASE NotInvited(j)
  <2> DEFINE b == hist.gaveUp \/ Is(j, "resume")
             pc == IF Is(j, "pursue") THEN "introduce" ELSE "park"
  <2>1. b \in BOOLEAN BY DEF FedInv, HistType
  <2>2. hist' = [hist EXCEPT !.gaveUp = b] BY <1>9 DEF NotInvited
  <2> HIDE DEF b
  <2>3. hist'.missed = hist.missed /\ hist'.gaveUp = b
    BY <2>1, <2>2 DEF FedInv, HistType
  <2> USE DEF b
  <2>4. At(j, "invite") /\ Quiet /\ UNCHANGED <<kx, crashes>> /\ Goto(j, pc)
    BY <1>9 DEF NotInvited, world
  <2>5. /\ job'[j].pc = pc /\ job'[j].kind = job[j].kind
        /\ \A k \in Jobs : k # j => job'[k] = job[k]
    BY <2>4, GotoEffect DEF FedInv, Pcs
  <2>6. CASE Is(j, "resume")
    <3>1. Excused' BY <2>3, <2>6 DEF Excused
    <3>2. \A k \in Jobs : Inviting(k)'
      <4>1. pc # "invite"
        OBVIOUS
      <4> HIDE DEF pc
      <4> QED BY <2>5, <4>1 DEF PursuitSound, Inviting
    <3> QED BY <1>1, <2>4, <3>1, <3>2 DEF PursuitSound
  <2>7. CASE ~Is(j, "resume")
    <3>1. pc = "introduce"
      BY <2>4, <2>7 DEF At, Is, Inviting, PursuitSound
    <3>2. \A k \in Jobs : Steady(k) /\ (Resuming(k) => Resuming(k)')
      BY <2>5, <2>7, <3>1 DEF Parking, Inviting, Steady, Resuming, Is
    <3> QED BY <1>1, <2>3, <2>4, <3>2, PursuitKept DEF Excused
  <2> QED BY <2>6, <2>7
<1>10. CASE Introduce(j)
  <2>1. Quiet /\ UNCHANGED <<hist, crashes>> /\ ~Resuming(j)
    BY <1>10 DEF Introduce, Resuming, At
  <2>2. CASE kx' = TRUE /\ Goto(j, "park")
    <3>1. \A k \in Jobs : (Resuming(k) => Resuming(k)') /\ (Inviting(k) => Inviting(k)')
      BY <2>1, <2>2, GotoEffect DEF FedInv, Resuming, Inviting, Pcs
    <3> QED BY <1>1, <2>1, <2>2, <3>1 DEF PursuitSound, Excused
  <2>3. CASE UNCHANGED kx /\ End(j)
    <3>1. job[j].pc = "introduce" BY <1>10 DEF Introduce, At
    <3> QED BY <1>1, <1>3, <2>1, <2>3, <3>1, PursuitKept DEF Excused
  <2> QED BY <1>10, <2>2, <2>3 DEF Introduce
<1>11. ASSUME NEW ok \in BOOLEAN, record(j, ok) PROVE PursuitSound'
  <2>1. UNCHANGED <<lead, kx, hist, crashes>> /\ job[j].pc = "call"
    BY <1>11 DEF record, Leads, world, At
  <2>2. job' = [job EXCEPT ![j] = [@ EXCEPT !.pc = "pay", !.token = Len(spend) + 1]]
    BY <1>11 DEF record
  <2>3. job[j] \in Job BY DEF FedInv, JobType
  <2>4. [job[j] EXCEPT !.pc = "pay", !.token = Len(spend) + 1].pc = "pay"
    BY <2>3 DEF Job
  <2>5. job'[j].pc = "pay" /\ \A k \in Jobs : k # j => job'[k] = job[k]
    BY <2>2, <2>4 DEF FedInv, JobType
  <2>6. \A k \in Jobs : Steady(k) /\ (Resuming(k) => Resuming(k)')
    BY <2>1, <2>5 DEF Parking, Inviting, Steady, Resuming
  <2> QED BY <2>1, <2>6, PursuitKept DEF Excused
<1>12. ASSUME NEW ok \in BOOLEAN, remove(j, ok) PROVE PursuitSound'
  <2> DEFINE b == hist.shifted \/ \E k \in Pending : job[k].token > job[j].token
  <2>1. b \in BOOLEAN BY DEF FedInv, HistType
  <2>2. hist' = [hist EXCEPT !.shifted = b] BY <1>12 DEF remove
  <2> HIDE DEF b
  <2>3. hist'.missed = hist.missed /\ hist'.gaveUp = hist.gaveUp
    BY <2>1, <2>2 DEF FedInv, HistType
  <2>4. UNCHANGED <<lead, kx, crashes>> /\ End(j) /\ job[j].pc = "remove"
    BY <1>12 DEF remove, Leads, world, At
  <2> QED BY <1>3, <2>3, <2>4, PursuitKept DEF Excused
<1>13. ASSUME NEW ok \in BOOLEAN, MakeLead(j, ok) PROVE PursuitSound'
  <2> DEFINE b == hist.raced \/ known \/ lead = "converted"
  <2>1. b \in BOOLEAN BY DEF FedInv, HistType
  <2>2. hist' = [hist EXCEPT !.raced = b] BY <1>13 DEF MakeLead
  <2> HIDE DEF b
  <2>3. hist'.missed = hist.missed /\ hist'.gaveUp = hist.gaveUp
    BY <2>1, <2>2 DEF FedInv, HistType
  <2>4. lead' = "new" /\ UNCHANGED <<kx, crashes>> /\ job[j].pc = "put"
    BY <1>13 DEF MakeLead, PutLead, world, At
  <2>5. \A k \in Jobs : Steady(k)
    <3>1. CASE End(j) BY <1>3, <3>1
    <3>2. CASE Goto(j, "stamp")
      <4>1. "stamp" \in Pcs \ {"park", "invite"} /\ job[j].pc \notin {"invite", "invited"}
        BY <2>4 DEF Pcs
      <4> QED BY <1>2, <3>2, <4>1
    <3> QED BY <1>13, <3>1, <3>2 DEF MakeLead
  <2> QED BY <2>3, <2>4, <2>5, PursuitKept DEF Excused
<1>14. ASSUME NEW ok \in BOOLEAN, Stamp(j, ok) PROVE PursuitSound'
  <2>1. UNCHANGED <<lead, kx, hist, crashes>> /\ End(j) /\ job[j].pc = "stamp"
    BY <1>14 DEF Stamp, Leads, world, At
  <2> QED BY <1>3, <2>1, PursuitKept DEF Excused
<1>15. ASSUME NEW ok \in BOOLEAN, Declined(j, ok) PROVE PursuitSound'
  <2>1. UNCHANGED <<kx, hist, crashes>> /\ Goto(j, "invited")
        /\ lead' # "pursuing" /\ job[j].pc = "invite"
    BY <1>15, LeadSet DEF Declined, world, FedInv, At, LeadStates
  <2>2. \A k \in Jobs : Steady(k) BY <1>2, <2>1 DEF Pcs
  <2> QED BY <2>1, <2>2, PursuitKept DEF Excused
<1>16. ASSUME NEW ok \in BOOLEAN, Invited(j, ok) PROVE PursuitSound'
  <2>1. UNCHANGED <<kx, hist, crashes>> /\ End(j) /\ lead' # "pursuing"
    BY <1>16, LeadSet DEF Invited, world, FedInv, LeadStates
  <2> QED BY <1>3, <2>1, PursuitKept DEF Excused
<1>17. ASSUME NEW ok \in BOOLEAN, Park(j, ok) PROVE PursuitSound'
  <2>1. UNCHANGED <<kx, hist, crashes>> /\ End(j) /\ Parking(j)
    BY <1>17, LeadSet DEF Park, world, FedInv, At, LeadStates, Parking
  <2>2. \A k \in Jobs : Steady(k) BY <1>3, <2>1
  <2> QED BY <2>1, <2>2 DEF PursuitSound, Excused, Steady
<1> QED
  BY <1>5, <1>6, <1>7, <1>8, <1>9, <1>10, <1>11, <1>12, <1>13, <1>14, <1>15, <1>16, <1>17
     DEF JobStep


\* Every step keeps a lead that waits from being forgotten.
LEMMA PursuitStep == PursuitInv /\ [Next]_vars => PursuitInv'
<1> SUFFICES ASSUME PursuitInv, [Next]_vars PROVE PursuitSound'
  BY FedStep DEF PursuitInv
<1> USE DEF PursuitInv
<1>1. ASSUME NEW j \in Jobs, JobStep(j) PROVE PursuitSound'
  BY <1>1, PursuitOfJob
<1>2. ASSUME UNCHANGED job
      PROVE  \A k \in Jobs : Steady(k) /\ (Resuming(k) => Resuming(k)')
  BY <1>2 DEF Steady, Parking, Inviting, Resuming
<1>3. ASSUME NEW j \in Jobs, NotifyKX(j) PROVE PursuitSound'
  <2> DEFINE b == hist.missed \/ \E k \in Jobs : Parking(k)
  <2>1. b \in BOOLEAN BY DEF FedInv, HistType
  <2>2. hist' = [hist EXCEPT !.missed = b] BY <1>3 DEF NotifyKX, At, Parking
  <2> HIDE DEF b
  <2>3. hist'.missed = b /\ hist'.gaveUp = hist.gaveUp
    BY <2>1, <2>2 DEF FedInv, HistType
  <2>4. UNCHANGED <<lead, crashes>>
    BY <1>3 DEF NotifyKX, Quiet, tables
  <2>5. ASSUME NEW k \in Jobs, Parking(k) PROVE Excused'
    BY <2>3, <2>5 DEF b, Excused
  <2>6. CASE lead = "pursuing"
    <3>1. /\ job'[j].pc = "invite" /\ job'[j].kind = "resume"
          /\ \A k \in Jobs : k # j => job'[k] = job[k]
      BY <1>3, <2>6, BeginEffect DEF NotifyKX, FedInv, Kinds, Pcs
    <3>2. Resuming(j)' BY <3>1 DEF Resuming
    <3>3. \A k \in Jobs : Inviting(k)' /\ (Parking(k)' => Parking(k))
      BY <3>1 DEF PursuitSound, Inviting, Parking
    <3> QED BY <2>4, <2>5, <3>2, <3>3 DEF PursuitSound
  <2>7. CASE lead # "pursuing"
    <3>1. UNCHANGED job BY <1>3, <2>7 DEF NotifyKX
    <3>2. \A k \in Jobs : Inviting(k)' /\ (Parking(k)' => Parking(k))
      BY <3>1 DEF PursuitSound, Inviting, Parking
    <3> QED BY <2>4, <2>5, <2>7, <3>2 DEF PursuitSound
  <2> QED BY <2>6, <2>7
<1>4. ASSUME NEW p \in Peers, NEW ok \in BOOLEAN, AddPeer(p, ok) \/ RemovePeer(p, ok)
      PROVE  PursuitSound'
  <2>1. UNCHANGED <<lead, kx, job, hist, crashes>>
    BY <1>4 DEF AddPeer, RemovePeer, Leads, world
  <2> QED BY <1>2, <2>1, PursuitKept DEF Excused
<1>5. CASE Register \/ Delist
  BY <1>2, <1>5, PursuitKept DEF Register, Delist, Quiet, tables, Excused
<1>6. ASSUME NEW ok \in BOOLEAN, convertLead(ok) PROVE PursuitSound'
  <2>1. UNCHANGED <<kx, job, hist, crashes>> BY <1>6 DEF convertLead
  <2>2. (lead' = lead \/ lead' = "converted")
    BY <1>6 DEF convertLead, PutLead, Leads
  <2> QED BY <1>2, <2>1, <2>2, PursuitKept DEF Excused
<1>7. CASE Restart
  <2>1. crashes' \in Nat /\ crashes' # 0 BY <1>7 DEF Restart, PursuitSound
  <2>2. job' = [k \in Jobs |-> IF At(k, "new") THEN job[k] ELSE Idle("done", job[k].peer)]
    BY <1>7 DEF Restart
  <2>3. \A k \in Jobs : Inviting(k)' /\ ~Parking(k)'
    BY <2>2 DEF Inviting, Parking, At, Idle
  <2> QED BY <2>1, <2>3 DEF PursuitSound
<1>8. CASE UNCHANGED vars
  BY <1>2, <1>8, PursuitKept DEF vars, tables, world, Excused
<1> QED BY <1>1, <1>3, <1>4, <1>5, <1>6, <1>7, <1>8 DEF Next

\* A lead that waits for a key exchange is not forgotten: the exchange is still
\* to come or somebody goes on with it, with the exceptions the property names
\* (pursueLead, NotifyKX, resumeLeadAfterKX, setLeadState).
THEOREM PursuitNotForgottenCorrect == Spec => []PursuitNotForgotten
<1>1. Init => PursuitInv
  <2> SUFFICES ASSUME Init PROVE PursuitSound
    BY FedInit DEF PursuitInv
  <2> QED BY DEF Init, PursuitSound, Inviting, Parking, Idle
<1>2. PursuitInv => PursuitNotForgotten
  BY DEF PursuitInv, PursuitSound, PursuitNotForgotten, Excused, Resuming, Is
<1> QED BY <1>1, <1>2, PursuitStep, PTL DEF Spec
==============================================================================
