-------------------------- MODULE RegistrantProofs --------------------------
(***************************************************************************)
(* Proofs about Registrant for any number of registrations, directories,   *)
(* amounts, failing writes and restarts: the history on disk covers the    *)
(* money that may have left, and the monthly cap holds unless two          *)
(* registrations were decided on the same total.                           *)
(***************************************************************************)
EXTENDS Registrant, SumTheorems, SequenceTheorems

\* Whose payment is in the history: it may have left, or is about to leave.
Holders == left \cup {j \in Jobs : At(j, "pay")}

\* Each of them has an entry on disk of its own, of its time and amount
\* (Register records before it pays).
EntriesInv ==
    \E own \in [Holders -> DOMAIN fundFile] :
        /\ IsInjective(own)
        /\ \A j \in Holders : /\ fundFile[own[j]].ts = job[j].ts
                              /\ fundFile[own[j]].atoms = job[j].atoms

\* The month's total is within the cap, and stays so with what an approved
\* registration is about to record, if the history is the one it was checked
\* against (allowFund).
WithinCap ==
    MaxAtomsPerMonth > 0 /\ ~raced =>
        /\ totalSince(now - Month) <= MaxAtomsPerMonth
        /\ \A j \in Jobs : At(j, "record") =>
              /\ seen[j] <= Len(entries)
              /\ (seen[j] = Len(entries)
                    => totalSince(now - Month) + job[j].atoms <= MaxAtomsPerMonth)

\* The inductive invariant.
RegistrantInv == RegistrantTypeOK /\ EntriesInv /\ WithinCap

(***************************************************************************)
(* Sums over a history.                                                    *)
(***************************************************************************)

LEMMA Bounds ==
    /\ Amounts \subseteq Nat
    /\ MaxAtomsPerRequest \in Nat /\ MaxAtomsPerMonth \in Nat /\ Month \in Nat
    /\ MaxTime \in Nat /\ MaxDiskFaults \in Nat /\ MaxCrashes \in Nat
BY RegistrantAssumption

\* The amounts and times of a history are numbers.
LEMMA EntryType ==
    /\ \A e \in Entry : e.atoms \in Nat /\ e.ts \in Nat
    /\ \A h \in Seq(Entry) : \A i \in DOMAIN h : h[i] \in Entry
<1>1. \A e \in Entry : e.atoms \in Nat
  BY Bounds DEF Entry
<1>3. \A e \in Entry : e.ts \in Nat
  BY Bounds DEF Entry
<1>2. \A h \in Seq(Entry) : \A i \in DOMAIN h : h[i] \in Entry
  BY ElementOfSeq
<1> QED BY <1>1, <1>2, <1>3

\* What a prefix of a history is.
LEMMA PrefixOf ==
    ASSUME NEW S, NEW t \in Seq(S), NEW s, IsPrefix(s, t), s \in Seq(S)
    PROVE  /\ Len(s) \in Nat /\ Len(t) \in Nat /\ Len(s) <= Len(t)
           /\ DOMAIN s = 1..Len(s) /\ DOMAIN t = 1..Len(t)
           /\ \A i \in DOMAIN s : s[i] = t[i]
<1>1. /\ Len(s) \in Nat /\ Len(t) \in Nat /\ Len(s) <= Len(t)
      /\ DOMAIN s = 1..Len(s) /\ DOMAIN t = 1..Len(t)
  BY LenProperties DEF IsPrefix
<1>2. SubSeq(s, 1, Len(s)) = SubSeq(t, 1, Len(s))
  BY DEF IsPrefix
<1>3. \A i \in DOMAIN s : SubSeq(s, 1, Len(s))[i] = s[i]
  BY <1>1, SubSeqProperties
<1>4. \A i \in DOMAIN s : SubSeq(t, 1, Len(s))[i] = t[i]
  BY <1>1, SubSeqProperties
<1> QED BY <1>1, <1>2, <1>3, <1>4

\* The total of some positions of a history is a number, no less than that of
\* fewer positions, in a history that agrees on these.
LEMMA AtomsMonotone ==
    ASSUME NEW h \in Seq(Entry), NEW I \in SUBSET DOMAIN h,
           NEW g \in Seq(Entry), NEW J \in SUBSET DOMAIN g,
           I \subseteq J, \A i \in I : h[i].atoms = g[i].atoms
    PROVE  /\ AtomsAt(h, I) \in Nat /\ AtomsAt(g, J) \in Nat
           /\ AtomsAt(h, I) <= AtomsAt(g, J)
<1> DEFINE f == [i \in DOMAIN h |-> h[i].atoms]
           k == [i \in DOMAIN g |-> g[i].atoms]
<1>1. /\ DOMAIN h = 1..Len(h) /\ Len(h) \in Nat
      /\ DOMAIN g = 1..Len(g) /\ Len(g) \in Nat
  BY LenProperties
<1>2. IsFiniteSet(DOMAIN h) /\ IsFiniteSet(DOMAIN g)
  BY <1>1, FS_Interval
<1>3. IsFiniteSet(I) /\ IsFiniteSet(J)
  BY <1>2, FS_Subset
<1>4. (\A i \in I : f[i] \in Nat) /\ \A i \in J : k[i] \in Nat
  <2>1. (\A i \in DOMAIN h : h[i] \in Entry) /\ \A i \in DOMAIN g : g[i] \in Entry
    BY EntryType
  <2>2. \A e \in Entry : e.atoms \in Nat
    BY EntryType
  <2>3. \A i \in DOMAIN h : f[i] \in Nat
    BY <2>1, <2>2
  <2>4. \A i \in DOMAIN g : k[i] \in Nat
    BY <2>1, <2>2
  <2> HIDE DEF f, k
  <2> QED BY <2>3, <2>4
<1>5. (\A i \in I : f[i] \in Int) /\ \A i \in I : f[i] = k[i]
  BY <1>4
<1> HIDE DEF f, k
<1>6. SumFunctionOnSet(f, I) \in Nat /\ SumFunctionOnSet(k, J) \in Nat
  BY <1>3, <1>4, SumNat
<1>7. SumFunctionOnSet(f, I) = SumFunctionOnSet(k, I)
  BY <1>3, <1>5, SumSame
<1>8. SumFunctionOnSet(k, I) <= SumFunctionOnSet(k, J)
  BY <1>3, <1>4, SumSubset
<1> QED BY <1>6, <1>7, <1>8 DEF AtomsAt, f, k

\* Appending an entry adds at most its amount to the total.
LEMMA AtomsAppend ==
    ASSUME NEW h \in Seq(Entry), NEW e \in Entry, NEW I \in SUBSET DOMAIN h
    PROVE  AtomsAt(Append(h, e), I \cup {Len(h) + 1}) = AtomsAt(h, I) + e.atoms
<1> DEFINE g == Append(h, e)
           n == Len(h) + 1
           f == [i \in DOMAIN g |-> g[i].atoms]
           k == [i \in DOMAIN h |-> h[i].atoms]
<1>1. /\ DOMAIN h = 1..Len(h) /\ Len(h) \in Nat
      /\ g \in Seq(Entry) /\ Len(g) = n /\ DOMAIN g = 1..n
      /\ g[n] = e /\ \A i \in DOMAIN h : g[i] = h[i]
  BY AppendProperties, LenProperties
<1> HIDE DEF g
<1>2. IsFiniteSet(I) /\ n \notin I /\ I \cup {n} \subseteq DOMAIN g
  <2>1. IsFiniteSet(DOMAIN h)
    BY <1>1, FS_Interval
  <2> QED BY <1>1, <2>1, FS_Subset
<1>3. /\ \A i \in I \cup {n} : f[i] \in Int
      /\ \A i \in I : f[i] = k[i]
      /\ f[n] = e.atoms
  <2>1. \A i \in DOMAIN g : g[i] \in Entry
    BY <1>1, EntryType
  <2>2. \A i \in DOMAIN g : f[i] \in Int
    BY <2>1, EntryType
  <2>3. f[n] = e.atoms
    BY <1>1
  <2>4. \A i \in I : f[i] = k[i]
    BY <1>1, <1>2
  <2> HIDE DEF f, n, k
  <2> QED BY <2>2, <2>3, <2>4, <1>2
<1> HIDE DEF f, n, k
<1>4. SumFunctionOnSet(f, I \cup {n}) = SumFunctionOnSet(f, I) + f[n]
  BY <1>2, <1>3, SumAdd
<1>5. SumFunctionOnSet(f, I) = SumFunctionOnSet(k, I)
  BY <1>2, <1>3, SumSame
<1> QED BY <1>3, <1>4, <1>5 DEF AtomsAt, f, g, n, k

(***************************************************************************)
(* Type correctness.                                                       *)
(***************************************************************************)

\* A history that is written is a prefix of itself, and of itself with an entry
\* more.
LEMMA PrefixAppend ==
    ASSUME NEW s, NEW h \in Seq(Entry), s \in Seq(Entry), IsPrefix(s, h),
           NEW e \in Entry
    PROVE  /\ IsPrefix(h, h) /\ IsPrefix(s, Append(h, e))
           /\ Append(h, e) \in Seq(Entry)
           /\ Len(Append(h, e)) = Len(h) + 1
<1> DEFINE g == Append(h, e)
<1>1. /\ g \in Seq(Entry) /\ Len(g) = Len(h) + 1
      /\ \A i \in 1..Len(h) : g[i] = h[i]
  BY AppendProperties, LenProperties
<1>2. /\ Len(s) \in Nat /\ Len(h) \in Nat /\ Len(s) <= Len(h)
      /\ DOMAIN s = 1..Len(s)
      /\ \A i \in DOMAIN s : s[i] = h[i]
  BY PrefixOf
<1> HIDE DEF g
<1>3. SubSeq(s, 1, Len(s)) = SubSeq(g, 1, Len(s))
  <2>1. /\ SubSeq(s, 1, Len(s)) \in Seq(Entry)
        /\ Len(SubSeq(s, 1, Len(s))) = Len(s)
        /\ \A i \in 1..Len(s) : SubSeq(s, 1, Len(s))[i] = s[i]
    BY <1>2, SubSeqProperties
  <2>2. /\ SubSeq(g, 1, Len(s)) \in Seq(Entry)
        /\ Len(SubSeq(g, 1, Len(s))) = Len(s)
        /\ \A i \in 1..Len(s) : SubSeq(g, 1, Len(s))[i] = g[i]
    BY <1>1, <1>2, SubSeqProperties
  <2>3. \A i \in 1..Len(s) : s[i] = g[i]
    BY <1>1, <1>2
  <2> QED BY <2>1, <2>2, <2>3, <1>2, SeqEqual
<1>4. IsPrefix(s, g)
  BY <1>1, <1>2, <1>3 DEF IsPrefix
<1> QED BY <1>1, <1>2, <1>4 DEF IsPrefix, g

LEMMA RegistrantTypeInit == Init => RegistrantTypeOK
<1> SUFFICES ASSUME Init PROVE RegistrantTypeOK
  OBVIOUS
<1>1. entries = <<>> /\ fundFile = <<>> /\ now = 0 /\ left = {}
  BY DEF Init
<1>2. /\ entries \in Seq(Entry) /\ fundFile \in Seq(Entry)
      /\ IsPrefix(fundFile, entries) /\ \A i \in DOMAIN entries : entries[i].ts <= now
  BY <1>1 DEF IsPrefix
<1>3. job \in [Jobs -> JobState]
  BY <1>1 DEF Init, JobState
<1>4. seen \in [Jobs -> Nat] /\ raced \in BOOLEAN
  BY DEF Init
<1>5. now \in 0..MaxTime /\ diskFaults \in 0..MaxDiskFaults /\ crashes \in 0..MaxCrashes
  <2>1. now = 0 /\ diskFaults = 0 /\ crashes = 0
    BY DEF Init
  <2> QED BY <2>1, Bounds
<1>6. \A j \in Jobs : ~ (At(j, "invoiced") \/ At(j, "record"))
  BY DEF Init, At
<1> QED BY <1>1, <1>2, <1>3, <1>4, <1>5, <1>6 DEF RegistrantTypeOK

\* What becomes of the jobs when one gets another state.
LEMMA JobChanges ==
    ASSUME RegistrantTypeOK, NEW j \in Jobs, NEW b \in JobState,
           now' = now, job' = [job EXCEPT ![j] = b]
    PROVE  /\ job' \in [Jobs -> JobState'] /\ job'[j] = b
           /\ \A i \in Jobs \ {j} : job'[i] = job[i]
<1>1. job \in [Jobs -> JobState] /\ JobState' = JobState
  BY DEF RegistrantTypeOK, JobState
<1> QED BY <1>1

\* A job that goes on keeps what it remembers.
LEMMA JobMoves ==
    ASSUME RegistrantTypeOK, NEW j \in Jobs, NEW p,
           p \in {"new", "dial", "invoiced", "record", "pay", "paying", "done"},
           now' = now, job' = [job EXCEPT ![j].pc = p]
    PROVE  /\ job' \in [Jobs -> JobState']
           /\ job'[j].pc = p /\ job'[j].ts = job[j].ts /\ job'[j].atoms = job[j].atoms
           /\ \A i \in Jobs \ {j} : job'[i] = job[i]
<1> DEFINE b == [job[j] EXCEPT !.pc = p]
<1>1. /\ b \in JobState
      /\ b.pc = p /\ b.ts = job[j].ts /\ b.atoms = job[j].atoms
  BY DEF RegistrantTypeOK, JobState
<1>2. job' = [job EXCEPT ![j] = b]
  OBVIOUS
<1> HIDE DEF b
<1> QED BY <1>1, <1>2, JobChanges

\* A job that is told what it owes.
LEMMA JobInvoiced ==
    ASSUME RegistrantTypeOK, NEW j \in Jobs, NEW a \in Nat,
           now' = now, job' = [job EXCEPT ![j].pc = "invoiced", ![j].atoms = a]
    PROVE  /\ job' \in [Jobs -> JobState']
           /\ job'[j].pc = "invoiced" /\ job'[j].atoms = a
           /\ \A i \in Jobs \ {j} : job'[i] = job[i]
<1> DEFINE b == [[job[j] EXCEPT !.pc = "invoiced"] EXCEPT !.atoms = a]
<1>1. b \in JobState /\ b.pc = "invoiced" /\ b.atoms = a
  BY DEF RegistrantTypeOK, JobState
<1>2. job' = [job EXCEPT ![j] = b]
  BY DEF RegistrantTypeOK
<1> HIDE DEF b
<1> QED BY <1>1, <1>2, JobChanges

\* A job that records its payment.
LEMMA JobRecords ==
    ASSUME RegistrantTypeOK, NEW j \in Jobs, NEW p \in {"pay", "done"},
           now' = now, now \in Nat, job' = [job EXCEPT ![j].ts = now, ![j].pc = p]
    PROVE  /\ job' \in [Jobs -> JobState']
           /\ job'[j].pc = p /\ job'[j].ts = now /\ job'[j].atoms = job[j].atoms
           /\ \A i \in Jobs \ {j} : job'[i] = job[i]
<1> DEFINE b == [[job[j] EXCEPT !.ts = now] EXCEPT !.pc = p]
<1>1. /\ b \in JobState
      /\ b.pc = p /\ b.ts = now /\ b.atoms = job[j].atoms
  <2>1. job[j] \in JobState /\ now \in 0..now
    BY DEF RegistrantTypeOK
  <2> QED BY <2>1 DEF JobState
<1>2. job' = [job EXCEPT ![j] = b]
  BY DEF RegistrantTypeOK
<1> HIDE DEF b
<1> QED BY <1>1, <1>2, JobChanges

\* The types of what a job remembers.
LEMMA JobTyped ==
    ASSUME RegistrantTypeOK, NEW j \in Jobs
    PROVE  job[j].atoms \in Nat /\ job[j].ts \in 0..now
BY DEF RegistrantTypeOK, JobState

LEMMA RegistrantTypeNext == RegistrantTypeOK /\ [Next]_vars => RegistrantTypeOK'
<1> SUFFICES ASSUME RegistrantTypeOK, [Next]_vars PROVE RegistrantTypeOK'
  OBVIOUS
<1>0. now \in Nat /\ MaxTime \in Nat
  BY Bounds DEF RegistrantTypeOK
<1>1. ASSUME NEW j \in Jobs, NEW p,
             p \in {"new", "dial", "invoiced", "record", "pay", "paying", "done"},
             job' \in [Jobs -> JobState'], job'[j].pc = p,
             p \in {"invoiced", "record"} => job'[j].atoms \in Amounts \ {0},
             \A i \in Jobs \ {j} : job'[i] = job[i],
             UNCHANGED <<entries, fundFile, raced, now, diskFaults, crashes>>,
             seen' \in [Jobs -> Nat],
             left' \subseteq left \cup {j},
             j \in left' => p \in {"paying", "done"}
      PROVE  RegistrantTypeOK'
  <2>1. left' \subseteq {i \in Jobs : job'[i].pc \in {"paying", "done"}}
    BY <1>1 DEF RegistrantTypeOK
  <2>2. \A i \in Jobs : At(i, "invoiced")' \/ At(i, "record")'
                        => job'[i].atoms \in Amounts \ {0}
    BY <1>1 DEF RegistrantTypeOK, At
  <2> QED BY <2>1, <2>2, <1>1 DEF RegistrantTypeOK, Entry
<1>2. ASSUME NEW j \in Jobs,
             \/ Register(j) \/ (\E estimate \in Amounts : listing_invite(j, estimate))
             \/ NothingOwed(j) \/ Decline(j) \/ PayEnds(j)
      PROVE  RegistrantTypeOK'
  <2>1. PICK p \in {"dial", "done"} :
            job' = [job EXCEPT ![j].pc = p] /\ (p = "done" \/ At(j, "new"))
    BY <1>2 DEF Register, listing_invite, NothingOwed, Decline, PayEnds, Goto
  <2>2. UNCHANGED <<entries, fundFile, left, seen, raced, now, diskFaults, crashes>>
    BY <1>2 DEF Register, listing_invite, NothingOwed, Decline, PayEnds, Keep
  <2>3. seen' \in [Jobs -> Nat]
    BY <2>2 DEF RegistrantTypeOK
  <2>4. j \in left' => p \in {"paying", "done"}
    BY <2>1, <2>2 DEF RegistrantTypeOK, At
  <2>5. /\ job' \in [Jobs -> JobState'] /\ job'[j].pc = p
        /\ \A i \in Jobs \ {j} : job'[i] = job[i]
    <3> QED BY <2>1, <2>2, JobMoves
  <2> QED BY <2>1, <2>2, <2>3, <2>4, <2>5, <1>1
<1>3. ASSUME NEW j \in Jobs, NEW shortfall \in Amounts, Invoiced(j, shortfall)
      PROVE  RegistrantTypeOK'
  <2>1. /\ job' = [job EXCEPT ![j].pc = "invoiced", ![j].atoms = shortfall]
        /\ Keep /\ now' = now /\ job[j].ts \in 0..now /\ shortfall \in Nat \ {0}
    BY <1>3, JobTyped, Bounds DEF Invoiced, Keep
  <2>2. seen' \in [Jobs -> Nat] /\ j \notin left'
    BY <1>3 DEF RegistrantTypeOK, Invoiced, Keep, At
  <2>3. /\ job' \in [Jobs -> JobState'] /\ job'[j].pc = "invoiced"
        /\ job'[j].atoms = shortfall
        /\ \A i \in Jobs \ {j} : job'[i] = job[i]
    <3> QED BY <2>1, JobInvoiced
  <2> QED BY <1>3, <2>1, <2>2, <2>3, <1>1 DEF Keep
<1>4. ASSUME NEW j \in Jobs, Allow(j) \/ Pay(j) \/ PayFailed(j)
      PROVE  RegistrantTypeOK'
  <2>1. PICK p \in {"record", "paying", "done"} : job' = [job EXCEPT ![j].pc = p]
    BY <1>4 DEF Allow, Pay, PayFailed, Goto
  <2>2. seen' \in [Jobs -> Nat]
    BY <1>4, LenProperties DEF RegistrantTypeOK, Allow, Pay, PayFailed
  <2>3. UNCHANGED <<entries, fundFile, raced, now, diskFaults, crashes>>
    BY <1>4 DEF Allow, Pay, PayFailed
  <2>4. /\ job' \in [Jobs -> JobState'] /\ job'[j].pc = p
        /\ job'[j].atoms = job[j].atoms
        /\ \A i \in Jobs \ {j} : job'[i] = job[i]
    <3> QED BY <2>1, <2>3, JobMoves
  <2>5. left' \subseteq left \cup {j} /\ (j \in left' => job'[j].pc \in {"paying", "done"})
    <3>1. CASE Allow(j)
      BY <3>1, <2>4 DEF Allow, At, RegistrantTypeOK
    <3>2. CASE Pay(j)
      BY <3>2, <2>4 DEF Pay, Goto, RegistrantTypeOK
    <3>3. CASE PayFailed(j)
      BY <3>3 DEF PayFailed
    <3> QED BY <1>4, <3>1, <3>2, <3>3
  <2>6. p = "record" => job'[j].atoms \in Amounts \ {0}
    <3>1. CASE Allow(j)
      BY <3>1, <2>4 DEF Allow, At, RegistrantTypeOK
    <3>2. CASE Pay(j) \/ PayFailed(j)
      <4>1. job' = [job EXCEPT ![j].pc = "paying"] \/ job' = [job EXCEPT ![j].pc = "done"]
        BY <3>2 DEF Pay, PayFailed, Goto
      <4>2. job'[j].pc # "record"
        BY <4>1 DEF RegistrantTypeOK, JobState
      <4> QED BY <4>2, <2>4
    <3> QED BY <1>4, <3>1, <3>2
  <2> QED BY <2>1, <2>2, <2>3, <2>4, <2>5, <2>6, <1>1
<1>5. ASSUME NEW j \in Jobs, NEW ok \in BOOLEAN, record(j, ok)
      PROVE  RegistrantTypeOK'
  <2> DEFINE e == [ts |-> now, dir |-> DirOf[j], atoms |-> job[j].atoms]
             p == IF ok THEN "pay" ELSE "done"
  <2>1. e \in Entry /\ e.ts = now
    BY <1>5 DEF record, RegistrantTypeOK, Entry
  <2>2. entries' = Append(entries, e)
    BY <1>5 DEF record, AppendEntry
  <2> HIDE DEF e
  <2>3. /\ entries' \in Seq(Entry) /\ fundFile' \in Seq(Entry)
        /\ IsPrefix(fundFile', entries')
    <3>1. /\ entries \in Seq(Entry) /\ fundFile \in Seq(Entry)
          /\ IsPrefix(fundFile, entries)
      BY DEF RegistrantTypeOK
    <3>2. /\ entries' \in Seq(Entry) /\ IsPrefix(fundFile, entries')
      BY <3>1, <2>1, <2>2, PrefixAppend
    <3>3. IsPrefix(entries', entries')
      BY <3>2, LenProperties DEF IsPrefix
    <3>4. fundFile' = entries' \/ fundFile' = fundFile
      BY <1>5 DEF record
    <3> QED BY <3>1, <3>2, <3>3, <3>4
  <2>4. \A i \in DOMAIN entries' : entries'[i].ts <= now
    <3>1. /\ DOMAIN entries' = 1..(Len(entries) + 1) /\ Len(entries) \in Nat
          /\ DOMAIN entries = 1..Len(entries)
          /\ entries'[Len(entries) + 1] = e
          /\ \A i \in 1..Len(entries) : entries'[i] = entries[i]
      BY <2>1, <2>2, AppendProperties, LenProperties DEF RegistrantTypeOK
    <3>2. \A i \in 1..Len(entries) : entries[i].ts <= now
      BY <3>1 DEF RegistrantTypeOK
    <3>3. \A i \in DOMAIN entries' : i \in 1..Len(entries) \/ i = Len(entries) + 1
      BY <3>1
    <3> QED BY <3>1, <3>2, <3>3, <2>1, <1>0
  <2>5. /\ job' \in [Jobs -> JobState'] /\ job'[j].pc = p
        /\ \A i \in Jobs \ {j} : job'[i] = job[i]
    <3>1. p \in {"pay", "done"}
      OBVIOUS
    <3>2. job' = [job EXCEPT ![j].ts = now, ![j].pc = p] /\ now' = now
      BY <1>5 DEF record
    <3> HIDE DEF p
    <3> QED BY <1>0, <3>1, <3>2, JobRecords
  <2>6. left' \subseteq {i \in Jobs : job'[i].pc \in {"paying", "done"}}
    BY <1>5, <2>5 DEF record, RegistrantTypeOK, At
  <2>7. raced' \in BOOLEAN /\ seen' = seen /\ now' = now /\ crashes' = crashes
    BY <1>5 DEF record, RegistrantTypeOK
  <2>8. diskFaults' \in 0..MaxDiskFaults
    BY <1>5, Bounds DEF record, RegistrantTypeOK
  <2>9. \A i \in Jobs : At(i, "invoiced")' \/ At(i, "record")'
                        => job'[i].atoms \in Amounts \ {0}
    BY <2>5 DEF RegistrantTypeOK, At
  <2> QED BY <2>3, <2>4, <2>5, <2>6, <2>7, <2>8, <2>9 DEF RegistrantTypeOK
<1>6. CASE Restart
  <2>1. job' \in [Jobs -> JobState']
    BY <1>6 DEF Restart, RegistrantTypeOK, JobState
  <2>2. left' \subseteq {i \in Jobs : job'[i].pc \in {"paying", "done"}}
    BY <1>6 DEF Restart, RegistrantTypeOK, At
  <2>3. /\ entries' = fundFile /\ fundFile' = fundFile
        /\ UNCHANGED <<seen, raced, now, diskFaults>>
    BY <1>6 DEF Restart
  <2>4. crashes' \in 0..MaxCrashes
    BY <1>6, Bounds DEF Restart, RegistrantTypeOK
  <2>5. \A i \in DOMAIN fundFile : fundFile[i].ts <= now
    BY PrefixOf DEF RegistrantTypeOK
  <2>6. IsPrefix(fundFile, fundFile)
    BY LenProperties DEF IsPrefix, RegistrantTypeOK
  <2>7. \A i \in Jobs : At(i, "invoiced")' \/ At(i, "record")'
                        => job'[i].atoms \in Amounts \ {0}
    BY <1>6 DEF Restart, RegistrantTypeOK, At
  <2> QED BY <2>1, <2>2, <2>3, <2>4, <2>5, <2>6, <2>7 DEF RegistrantTypeOK
<1>7. CASE Tick
  <2>1. /\ now' = now + 1 /\ now < MaxTime
        /\ UNCHANGED <<entries, fundFile, job, left, seen, raced, diskFaults, crashes>>
    BY <1>7 DEF Tick
  <2>2. now' \in 0..MaxTime
    BY <2>1, <1>0
  <2>3. job' \in [Jobs -> JobState']
    BY <2>1, <1>0 DEF RegistrantTypeOK, JobState
  <2>4. \A i \in DOMAIN entries : entries[i].ts <= now'
    <3>1. \A i \in DOMAIN entries : entries[i].ts \in Nat /\ entries[i].ts <= now
      BY EntryType DEF RegistrantTypeOK
    <3> QED BY <3>1, <2>1, <1>0
  <2> QED BY <2>1, <2>2, <2>3, <2>4 DEF RegistrantTypeOK, At
<1>8. CASE UNCHANGED vars
  <2>1. JobState' = JobState
    BY <1>8 DEF vars, JobState
  <2> QED BY <2>1, <1>8 DEF vars, RegistrantTypeOK, At
<1> QED BY <1>2, <1>3, <1>4, <1>5, <1>6, <1>7, <1>8 DEF Next, JobStep

(***************************************************************************)
(* Every payment has its entry on disk.                                    *)
(***************************************************************************)

\* A step that writes no entry and lets no job begin to pay.
LEMMA EntriesKept ==
    ASSUME EntriesInv, Holders' \subseteq Holders, fundFile' = fundFile,
           \A j \in Holders' : /\ job'[j].ts = job[j].ts
                               /\ job'[j].atoms = job[j].atoms
    PROVE  EntriesInv'
<1>1. PICK own \in [Holders -> DOMAIN fundFile] :
          /\ IsInjective(own)
          /\ \A j \in Holders : /\ fundFile[own[j]].ts = job[j].ts
                                /\ fundFile[own[j]].atoms = job[j].atoms
  BY DEF EntriesInv
<1> DEFINE new == [j \in Holders' |-> own[j]]
<1>2. new \in [Holders' -> DOMAIN fundFile'] /\ IsInjective(new)
  BY <1>1 DEF IsInjective
<1>3. \A j \in Holders' : /\ fundFile'[new[j]].ts = job'[j].ts
                          /\ fundFile'[new[j]].atoms = job'[j].atoms
  BY <1>1
<1> HIDE DEF new
<1> QED BY <1>2, <1>3 DEF EntriesInv

\* A job that records its payment in the file gets the newest entry.
LEMMA EntriesRecord ==
    ASSUME RegistrantTypeOK, EntriesInv, NEW j \in Jobs, record(j, TRUE)
    PROVE  EntriesInv'
<1> DEFINE e == [ts |-> now, dir |-> DirOf[j], atoms |-> job[j].atoms]
           n == Len(entries) + 1
<1>0. now \in Nat
  BY Bounds DEF RegistrantTypeOK
<1>1. e \in Entry
  BY <1>0, Bounds DEF record, RegistrantTypeOK, Entry
<1>2. fundFile' = Append(entries, e)
  BY DEF record, AppendEntry
<1>3. e.ts = now /\ e.atoms = job[j].atoms
  OBVIOUS
<1> HIDE DEF e
<1>4. /\ DOMAIN fundFile' = 1..n /\ fundFile'[n] = e
      /\ \A i \in DOMAIN fundFile : i \in 1..n /\ i # n /\ fundFile'[i] = fundFile[i]
  <2>1. /\ Len(fundFile) \in Nat /\ Len(entries) \in Nat /\ Len(fundFile) <= Len(entries)
        /\ DOMAIN fundFile = 1..Len(fundFile) /\ DOMAIN entries = 1..Len(entries)
        /\ \A i \in DOMAIN fundFile : fundFile[i] = entries[i]
    BY PrefixOf DEF RegistrantTypeOK
  <2>2. /\ DOMAIN fundFile' = 1..n /\ fundFile'[n] = e
        /\ \A i \in 1..Len(entries) : fundFile'[i] = entries[i]
    BY <1>1, <1>2, AppendProperties, LenProperties DEF RegistrantTypeOK
  <2> QED BY <2>1, <2>2
<1>5. /\ job'[j].pc = "pay" /\ job'[j].ts = now /\ job'[j].atoms = job[j].atoms
      /\ \A i \in Jobs \ {j} : job'[i] = job[i]
  <2>1. job' = [job EXCEPT ![j].ts = now, ![j].pc = "pay"] /\ now' = now
    BY DEF record
  <2> QED BY <2>1, <1>0, JobRecords
<1>6. Holders' \subseteq Holders \cup {j} /\ j \notin Holders /\ Holders \subseteq Jobs
  <2>1. job[j].pc = "record" /\ left' = left /\ left \subseteq Jobs /\ j \notin left
    BY DEF record, At, RegistrantTypeOK
  <2> QED BY <2>1, <1>5 DEF Holders, At
<1>7. PICK own \in [Holders -> DOMAIN fundFile] :
          /\ IsInjective(own)
          /\ \A i \in Holders : /\ fundFile[own[i]].ts = job[i].ts
                                /\ fundFile[own[i]].atoms = job[i].atoms
  BY DEF EntriesInv
<1> HIDE DEF n
<1> DEFINE new == [i \in Holders' |-> IF i = j THEN n ELSE own[i]]
<1>8. new \in [Holders' -> DOMAIN fundFile']
  <2>1. ASSUME NEW i \in Holders' PROVE (IF i = j THEN n ELSE own[i]) \in DOMAIN fundFile'
    <3>1. n \in 1..n
      BY LenProperties DEF n, RegistrantTypeOK
    <3> QED BY <3>1, <1>4, <1>6, <1>7
  <2> QED BY <2>1
<1>9. IsInjective(new)
  BY <1>4, <1>6, <1>7 DEF IsInjective
<1>10. \A i \in Holders' : /\ fundFile'[new[i]].ts = job'[i].ts
                           /\ fundFile'[new[i]].atoms = job'[i].atoms
  <2> SUFFICES ASSUME NEW i \in Holders'
               PROVE  /\ fundFile'[new[i]].ts = job'[i].ts
                      /\ fundFile'[new[i]].atoms = job'[i].atoms
    OBVIOUS
  <2>1. CASE i = j
    BY <2>1, <1>3, <1>4, <1>5
  <2>2. CASE i # j
    BY <2>2, <1>4, <1>5, <1>6, <1>7
  <2> QED BY <2>1, <2>2
<1> HIDE DEF new
<1> QED BY <1>8, <1>9, <1>10 DEF EntriesInv

LEMMA EntriesNext == RegistrantTypeOK /\ EntriesInv /\ [Next]_vars => EntriesInv'
<1> SUFFICES ASSUME RegistrantTypeOK, EntriesInv, [Next]_vars PROVE EntriesInv'
  OBVIOUS
<1>1. ASSUME NEW j \in Jobs, NEW p,
             p \in {"new", "dial", "invoiced", "record", "pay", "paying", "done"},
             job' = [job EXCEPT ![j].pc = p], now' = now, fundFile' = fundFile,
             left' \subseteq Holders, p = "pay" => j \in Holders
      PROVE  EntriesInv'
  <2>1. \A i \in Jobs : /\ job'[i].ts = job[i].ts /\ job'[i].atoms = job[i].atoms
                        /\ (job'[i].pc = "pay" => job[i].pc = "pay" \/ i \in Holders)
    BY <1>1, JobMoves
  <2>2. Holders' \subseteq Holders /\ Holders \subseteq Jobs
    BY <1>1, <2>1 DEF Holders, At, RegistrantTypeOK
  <2> QED BY <2>1, <2>2, <1>1, EntriesKept
<1>2. ASSUME NEW j \in Jobs,
             \/ Register(j) \/ (\E estimate \in Amounts : listing_invite(j, estimate))
             \/ NothingOwed(j) \/ Decline(j) \/ Allow(j) \/ PayEnds(j) \/ PayFailed(j)
             \/ Pay(j)
      PROVE  EntriesInv'
  <2>1. PICK p \in {"dial", "record", "paying", "done"} : job' = [job EXCEPT ![j].pc = p]
    BY <1>2 DEF Register, listing_invite, NothingOwed, Decline, Allow, PayEnds, PayFailed,
                Pay, Goto
  <2>2. now' = now /\ fundFile' = fundFile
    BY <1>2 DEF Register, listing_invite, NothingOwed, Decline, Allow, PayEnds, PayFailed,
                Pay, Keep
  <2>3. left' \subseteq Holders
    BY <1>2 DEF Register, listing_invite, NothingOwed, Decline, Allow, PayEnds, PayFailed,
                Pay, Keep, Holders
  <2> QED BY <2>1, <2>2, <2>3, <1>1
<1>3. ASSUME NEW j \in Jobs, NEW shortfall \in Amounts, Invoiced(j, shortfall)
      PROVE  EntriesInv'
  <2>1. /\ job'[j].pc = "invoiced" /\ \A i \in Jobs \ {j} : job'[i] = job[i]
    <3>1. /\ shortfall \in Nat /\ now' = now
          /\ job' = [job EXCEPT ![j].pc = "invoiced", ![j].atoms = shortfall]
      BY <1>3, Bounds DEF Invoiced, Keep
    <3> QED BY <3>1, JobInvoiced
  <2>2. left' = left /\ j \notin left /\ fundFile' = fundFile /\ left \subseteq Jobs
    BY <1>3 DEF Invoiced, Keep, RegistrantTypeOK, At
  <2>3. Holders' \subseteq Holders /\ j \notin Holders' /\ Holders' \subseteq Jobs
    BY <2>1, <2>2 DEF Holders, At
  <2> QED BY <2>1, <2>2, <2>3, EntriesKept
<1>4. ASSUME NEW j \in Jobs, record(j, FALSE) PROVE EntriesInv'
  <2>1. job' = [job EXCEPT ![j].ts = now, ![j].pc = "done"] /\ now' = now /\ now \in Nat
    BY <1>4, Bounds DEF record, RegistrantTypeOK
  <2>2. job'[j].pc = "done" /\ \A i \in Jobs \ {j} : job'[i] = job[i]
    BY <2>1, JobRecords
  <2>3. left' = left /\ j \notin left /\ fundFile' = fundFile /\ left \subseteq Jobs
    BY <1>4 DEF record, RegistrantTypeOK, At
  <2>4. Holders' \subseteq Holders /\ j \notin Holders' /\ Holders' \subseteq Jobs
    BY <2>2, <2>3 DEF Holders, At
  <2> QED BY <2>2, <2>3, <2>4, EntriesKept
<1>5. ASSUME NEW j \in Jobs, NEW ok \in BOOLEAN, record(j, ok) PROVE EntriesInv'
  BY <1>4, <1>5, EntriesRecord
<1>6. CASE Restart
  <2>1. /\ left' = left /\ fundFile' = fundFile
        /\ \A i \in Jobs : /\ job'[i].ts = job[i].ts /\ job'[i].atoms = job[i].atoms
                           /\ job'[i].pc # "pay"
    BY <1>6 DEF Restart, RegistrantTypeOK, JobState, At
  <2>2. Holders' \subseteq Holders /\ Holders \subseteq Jobs
    BY <2>1 DEF Holders, At, RegistrantTypeOK
  <2> QED BY <2>1, <2>2, EntriesKept
<1>7. CASE Tick \/ UNCHANGED vars
  <2>1. UNCHANGED <<job, left, fundFile>>
    BY <1>7 DEF Tick, vars
  <2>2. Holders' = Holders
    BY <2>1 DEF Holders, At
  <2> QED BY <2>1, <2>2, EntriesKept
<1> QED BY <1>2, <1>3, <1>5, <1>6, <1>7 DEF Next, JobStep

LEMMA EntriesInit == Init => EntriesInv
<1> SUFFICES ASSUME Init PROVE EntriesInv
  OBVIOUS
<1>1. Holders = {}
  BY DEF Init, Holders, At
<1> DEFINE own == [j \in Holders |-> j]
<1>2. own \in [Holders -> DOMAIN fundFile] /\ IsInjective(own)
  BY <1>1 DEF IsInjective
<1> HIDE DEF own
<1> QED BY <1>1, <1>2 DEF EntriesInv

\* From the entries to the money, and both are numbers.
LEMMA EntriesCover ==
    ASSUME RegistrantTypeOK, EntriesInv, NEW since \in Int
    PROVE  /\ AtomsAt(fundFile, {i \in DOMAIN fundFile : fundFile[i].ts >= since}) \in Nat
           /\ LeftSince(since) \in Nat
           /\ AtomsAt(fundFile, {i \in DOMAIN fundFile : fundFile[i].ts >= since})
                >= LeftSince(since)
<1>1. PICK own \in [Holders -> DOMAIN fundFile] :
          /\ IsInjective(own)
          /\ \A j \in Holders : /\ fundFile[own[j]].ts = job[j].ts
                                /\ fundFile[own[j]].atoms = job[j].atoms
  BY DEF EntriesInv
<1> DEFINE S == {j \in left : job[j].ts >= since}
           T == {i \in DOMAIN fundFile : fundFile[i].ts >= since}
           f == [j \in Jobs |-> job[j].atoms]
           g == [i \in DOMAIN fundFile |-> fundFile[i].atoms]
           into == [j \in S |-> own[j]]
<1>2. left \subseteq Jobs /\ left \subseteq Holders
  BY DEF RegistrantTypeOK, Holders
<1>3. IsFiniteSet(S)
  BY <1>2, RegistrantAssumption, FS_Subset
<1>4. IsFiniteSet(T)
  <2>1. DOMAIN fundFile = 1..Len(fundFile) /\ Len(fundFile) \in Nat
    BY LenProperties DEF RegistrantTypeOK
  <2>2. IsFiniteSet(DOMAIN fundFile)
    BY <2>1, FS_Interval
  <2> QED BY <2>2, FS_Subset
<1>5. \A j \in S : f[j] \in Nat
  BY <1>2, JobTyped
<1>6. \A i \in T : g[i] \in Nat
  <2>1. \A i \in DOMAIN fundFile : fundFile[i] \in Entry
    BY EntryType DEF RegistrantTypeOK
  <2> QED BY <2>1, EntryType
<1>7. into \in [S -> T]
  <2>1. \A j \in S : own[j] \in T
    BY <1>1, <1>2
  <2> HIDE DEF S, T
  <2> QED BY <2>1
<1>8. \A x, y \in S : into[x] = into[y] => x = y
  BY <1>1, <1>2 DEF IsInjective
<1>9. \A j \in S : f[j] <= g[into[j]]
  <2> SUFFICES ASSUME NEW j \in S PROVE f[j] <= g[into[j]]
    OBVIOUS
  <2>1. f[j] = g[into[j]]
    BY <1>1, <1>2
  <2>2. f[j] \in Nat
    BY <1>5
  <2> HIDE DEF f, g, into
  <2> QED BY <2>1, <2>2
<1>10. SumFunctionOnSet(f, S) <= SumFunctionOnSet(g, T)
  <2> HIDE DEF S, T, f, g, into
  <2> QED BY <1>3, <1>4, <1>5, <1>6, <1>7, <1>8, <1>9, SumInjects
<1>11. SumFunctionOnSet(f, S) \in Nat /\ SumFunctionOnSet(g, T) \in Nat
  <2> HIDE DEF S, T, f, g
  <2> QED BY <1>3, <1>4, <1>5, <1>6, SumNat
<1>12. SumFunctionOnSet(g, T) = AtomsAt(fundFile, T) /\ SumFunctionOnSet(f, S) = LeftSince(since)
  BY DEF AtomsAt, LeftSince
<1> HIDE DEF S, T, f, g
<1>13. /\ AtomsAt(fundFile, T) >= LeftSince(since)
       /\ AtomsAt(fundFile, T) \in Nat /\ LeftSince(since) \in Nat
  BY <1>10, <1>11, <1>12
<1> QED BY <1>13 DEF T

(***************************************************************************)
(* The cap.                                                                *)
(***************************************************************************)

\* The positions of a history in the window.
Inside(h, since) == {i \in DOMAIN h : h[i].ts >= since}

\* The total is a number that shrinks with the window.
LEMMA TotalShrinks ==
    ASSUME NEW h \in Seq(Entry), NEW g \in Seq(Entry), NEW a \in Int, NEW b \in Int,
           a <= b, DOMAIN h \subseteq DOMAIN g, \A i \in DOMAIN h : h[i] = g[i]
    PROVE  /\ AtomsAt(h, Inside(h, b)) \in Nat /\ AtomsAt(g, Inside(g, a)) \in Nat
           /\ AtomsAt(h, Inside(h, b)) <= AtomsAt(g, Inside(g, a))
<1>1. \A i \in DOMAIN h : h[i].ts \in Nat
  BY EntryType
<1>2. Inside(h, b) \subseteq Inside(g, a)
  BY <1>1 DEF Inside
<1>3. Inside(h, b) \in SUBSET DOMAIN h /\ Inside(g, a) \in SUBSET DOMAIN g
  BY DEF Inside
<1>4. \A i \in Inside(h, b) : h[i].atoms = g[i].atoms
  BY DEF Inside
<1> QED BY <1>2, <1>3, <1>4, AtomsMonotone

LEMMA TotalIs == \A since : totalSince(since) = AtomsAt(entries, Inside(entries, since))
BY DEF totalSince, InWindow, Inside

LEMMA TotalIsNext ==
    (totalSince(now - Month))' = AtomsAt(entries', Inside(entries', now' - Month))
BY DEF totalSince, InWindow, Inside, AtomsAt

\* A step that adds no entry, approves nothing, and lets time pass at most.
LEMMA CapKept ==
    ASSUME RegistrantTypeOK, RegistrantTypeOK', WithinCap,
           entries' = entries \/ entries' = fundFile, now' >= now, raced' = raced,
           \A j \in Jobs : At(j, "record")' =>
              /\ At(j, "record") /\ job'[j].atoms = job[j].atoms /\ seen'[j] = seen[j]
              /\ entries' = entries
    PROVE  WithinCap'
<1> SUFFICES ASSUME MaxAtomsPerMonth > 0, ~ raced PROVE
        /\ totalSince(now - Month)' <= MaxAtomsPerMonth
        /\ \A j \in Jobs : At(j, "record")' =>
              /\ seen'[j] <= Len(entries')
              /\ (seen'[j] = Len(entries')
                    => totalSince(now - Month)' + job'[j].atoms <= MaxAtomsPerMonth)
  BY DEF WithinCap
<1> DEFINE before == totalSince(now - Month)
           after == totalSince(now - Month)'
<1>1. before \in Nat /\ after \in Nat /\ after <= before
  <2>1. /\ entries \in Seq(Entry) /\ entries' \in Seq(Entry)
        /\ DOMAIN entries' \subseteq DOMAIN entries
        /\ \A i \in DOMAIN entries' : entries'[i] = entries[i]
    <3>1. /\ entries \in Seq(Entry) /\ fundFile \in Seq(Entry)
          /\ IsPrefix(fundFile, entries)
      BY DEF RegistrantTypeOK
    <3>2. /\ DOMAIN fundFile \subseteq DOMAIN entries
          /\ \A i \in DOMAIN fundFile : fundFile[i] = entries[i]
      BY <3>1, PrefixOf
    <3> QED BY <3>1, <3>2
  <2>2. now \in Nat /\ now' \in Nat /\ Month \in Nat
    BY Bounds DEF RegistrantTypeOK
  <2>3. now - Month \in Int /\ now' - Month \in Int /\ now - Month <= now' - Month
    <3>1. \A x, y, m \in Nat : y >= x => /\ x - m \in Int /\ y - m \in Int
                                        /\ x - m <= y - m
      OBVIOUS
    <3> QED BY <2>2, <3>1
  <2> QED BY <2>1, <2>3, TotalShrinks, TotalIs, TotalIsNext
<1> HIDE DEF before, after
<1>2. before <= MaxAtomsPerMonth
  BY DEF WithinCap, before
<1>3. after <= MaxAtomsPerMonth
  BY <1>1, <1>2, Bounds
<1>4. ASSUME NEW j \in Jobs, At(j, "record")'
      PROVE  /\ seen'[j] <= Len(entries')
             /\ (seen'[j] = Len(entries') => after + job'[j].atoms <= MaxAtomsPerMonth)
  <2>1. /\ At(j, "record") /\ job'[j].atoms = job[j].atoms /\ seen'[j] = seen[j]
        /\ entries' = entries
    BY <1>4
  <2>2. /\ seen[j] <= Len(entries)
        /\ (seen[j] = Len(entries) => before + job[j].atoms <= MaxAtomsPerMonth)
    BY <2>1 DEF WithinCap, before
  <2>3. job[j].atoms \in Nat
    BY JobTyped
  <2> QED BY <2>1, <2>2, <2>3, <1>1, Bounds
<1> QED BY <1>3, <1>4 DEF after

\* The newest entry adds its amount to the total.
LEMMA CapRecord ==
    ASSUME RegistrantTypeOK, WithinCap, NEW j \in Jobs, NEW ok \in BOOLEAN, record(j, ok)
    PROVE  WithinCap'
<1> SUFFICES ASSUME MaxAtomsPerMonth > 0, ~ raced' PROVE
        /\ totalSince(now - Month)' <= MaxAtomsPerMonth
        /\ \A i \in Jobs : At(i, "record")' =>
              /\ seen'[i] <= Len(entries')
              /\ (seen'[i] = Len(entries')
                    => totalSince(now - Month)' + job'[i].atoms <= MaxAtomsPerMonth)
  BY DEF WithinCap
<1> DEFINE e == [ts |-> now, dir |-> DirOf[j], atoms |-> job[j].atoms]
           I == Inside(entries, now - Month)
<1>0. now \in Nat /\ Month \in Nat
  BY Bounds DEF RegistrantTypeOK
<1>1. e \in Entry
  BY <1>0, Bounds DEF record, RegistrantTypeOK, Entry
<1>2. entries' = Append(entries, e) /\ now' = now
  BY DEF record, AppendEntry
<1>3. e.ts = now /\ e.atoms = job[j].atoms
  OBVIOUS
<1> HIDE DEF e
<1>4. /\ Len(entries) \in Nat /\ DOMAIN entries = 1..Len(entries)
      /\ Len(entries') = Len(entries) + 1 /\ DOMAIN entries' = 1..(Len(entries) + 1)
      /\ entries'[Len(entries) + 1] = e
      /\ \A i \in DOMAIN entries : entries'[i] = entries[i]
  BY <1>1, <1>2, AppendProperties, LenProperties DEF RegistrantTypeOK
<1>5. Inside(entries', now' - Month) = I \cup {Len(entries) + 1}
  <2>1. now >= now - Month
    BY <1>0
  <2>2. \A i \in DOMAIN entries' : i \in DOMAIN entries \/ i = Len(entries) + 1
    BY <1>4
  <2>3. DOMAIN entries \subseteq DOMAIN entries' /\ Len(entries) + 1 \in DOMAIN entries'
    BY <1>4
  <2> QED BY <1>2, <1>3, <1>4, <2>1, <2>2, <2>3 DEF Inside
<1>6. I \in SUBSET DOMAIN entries
  BY DEF Inside
<1>7. totalSince(now - Month)' = totalSince(now - Month) + job[j].atoms
  <2>1. AtomsAt(Append(entries, e), I \cup {Len(entries) + 1})
          = AtomsAt(entries, I) + e.atoms
    <3>1. entries \in Seq(Entry)
      BY DEF RegistrantTypeOK
    <3> HIDE DEF I
    <3> QED BY <3>1, <1>1, <1>6, AtomsAppend
  <2>2. totalSince(now - Month) = AtomsAt(entries, I)
    BY TotalIs
  <2> HIDE DEF I
  <2> QED BY <2>1, <2>2, <1>2, <1>3, <1>5, TotalIsNext
<1>8. ~ raced /\ At(j, "record") /\ Len(entries) = seen[j]
  BY DEF record
<1>9. totalSince(now - Month) + job[j].atoms <= MaxAtomsPerMonth
  BY <1>8 DEF WithinCap
<1>10. ASSUME NEW i \in Jobs, At(i, "record")'
       PROVE  seen'[i] < Len(entries')
  <2>1. job'[j].pc # "record" /\ \A k \in Jobs \ {j} : job'[k] = job[k]
    <3> DEFINE p == IF ok THEN "pay" ELSE "done"
    <3>1. job' = [job EXCEPT ![j].ts = now, ![j].pc = p] /\ p \in {"pay", "done"}
      BY DEF record
    <3> HIDE DEF p
    <3> QED BY <3>1, <1>0, <1>2, JobRecords
  <2>2. i # j /\ At(i, "record")
    BY <2>1, <1>10 DEF At
  <2>3. seen[i] <= Len(entries) /\ seen' = seen /\ seen[i] \in Nat
    BY <2>2, <1>8 DEF WithinCap, record, RegistrantTypeOK
  <2> QED BY <2>3, <1>4
<1>11. ASSUME NEW i \in Jobs, At(i, "record")'
       PROVE  seen'[i] <= Len(entries') /\ seen'[i] # Len(entries')
  <2>1. seen'[i] \in Nat
    BY DEF record, RegistrantTypeOK
  <2> QED BY <2>1, <1>4, <1>10, <1>11
<1> QED BY <1>7, <1>9, <1>11

LEMMA CapNext ==
    RegistrantTypeOK /\ RegistrantTypeOK' /\ WithinCap /\ [Next]_vars => WithinCap'
<1> SUFFICES ASSUME RegistrantTypeOK, RegistrantTypeOK', WithinCap, [Next]_vars
             PROVE  WithinCap'
  OBVIOUS
<1>0. now \in Nat /\ MaxTime \in Nat
  BY Bounds DEF RegistrantTypeOK
<1>1. ASSUME NEW j \in Jobs, job'[j].pc # "record",
             \A i \in Jobs \ {j} : job'[i] = job[i],
             UNCHANGED <<entries, seen, raced, now>>
      PROVE  WithinCap'
  <2>1. \A i \in Jobs : At(i, "record")' => At(i, "record") /\ job'[i] = job[i]
    BY <1>1 DEF At
  <2>2. now' >= now
    BY <1>0, <1>1
  <2> QED BY <2>1, <2>2, <1>1, CapKept
<1>2. ASSUME NEW j \in Jobs,
             \/ Register(j) \/ (\E estimate \in Amounts : listing_invite(j, estimate))
             \/ NothingOwed(j) \/ Decline(j) \/ Pay(j) \/ PayEnds(j) \/ PayFailed(j)
      PROVE  WithinCap'
  <2>1. PICK p \in {"dial", "paying", "done"} : job' = [job EXCEPT ![j].pc = p]
    BY <1>2 DEF Register, listing_invite, NothingOwed, Decline, PayEnds, PayFailed, Pay, Goto
  <2>2. UNCHANGED <<entries, seen, raced, now>>
    BY <1>2 DEF Register, listing_invite, NothingOwed, Decline, PayEnds, PayFailed, Pay, Keep
  <2>3. job'[j].pc = p /\ \A i \in Jobs \ {j} : job'[i] = job[i]
    BY <2>1, <2>2, JobMoves
  <2> QED BY <2>1, <2>2, <2>3, <1>1
<1>3. ASSUME NEW j \in Jobs, NEW shortfall \in Amounts, Invoiced(j, shortfall)
      PROVE  WithinCap'
  <2>1. /\ shortfall \in Nat /\ UNCHANGED <<entries, seen, raced, now>>
        /\ job' = [job EXCEPT ![j].pc = "invoiced", ![j].atoms = shortfall]
    BY <1>3, Bounds DEF Invoiced, Keep
  <2>2. job'[j].pc = "invoiced" /\ \A i \in Jobs \ {j} : job'[i] = job[i]
    BY <2>1, JobInvoiced
  <2> QED BY <2>1, <2>2, <1>1
<1>4. ASSUME NEW j \in Jobs, Allow(j) PROVE WithinCap'
  <2>1. /\ job' = [job EXCEPT ![j].pc = "record"]
        /\ seen' = [seen EXCEPT ![j] = Len(entries)]
        /\ UNCHANGED <<entries, raced, now>>
    BY <1>4 DEF Allow, Goto
  <2>2. /\ job'[j].atoms = job[j].atoms /\ \A i \in Jobs \ {j} : job'[i] = job[i]
    BY <2>1, JobMoves
  <2>3. MaxAtomsPerMonth > 0 => totalSince(now - Month) + job[j].atoms <= MaxAtomsPerMonth
    <3>1. MaxAtomsPerMonth = 0
          \/ totalSince(now - Month) + job[j].atoms <= MaxAtomsPerMonth
      BY <1>4 DEF Allow, allowFund
    <3> QED BY <3>1, Bounds
  <2>4. totalSince(now - Month)' = totalSince(now - Month)
    BY <2>1, TotalIs, TotalIsNext
  <2>5. /\ seen'[j] = Len(entries) /\ Len(entries) \in Nat
        /\ \A i \in Jobs \ {j} : seen'[i] = seen[i]
    BY <2>1, LenProperties DEF RegistrantTypeOK
  <2> SUFFICES ASSUME MaxAtomsPerMonth > 0, ~ raced PROVE
        /\ totalSince(now - Month) <= MaxAtomsPerMonth
        /\ \A i \in Jobs : At(i, "record")' =>
              /\ seen'[i] <= Len(entries)
              /\ (seen'[i] = Len(entries)
                    => totalSince(now - Month) + job'[i].atoms <= MaxAtomsPerMonth)
    BY <2>1, <2>4 DEF WithinCap
  <2>6. totalSince(now - Month) <= MaxAtomsPerMonth
    BY DEF WithinCap
  <2>7. ASSUME NEW i \in Jobs, At(i, "record")'
        PROVE  /\ seen'[i] <= Len(entries)
               /\ (seen'[i] = Len(entries)
                     => totalSince(now - Month) + job'[i].atoms <= MaxAtomsPerMonth)
    <3>1. CASE i = j
      BY <3>1, <2>2, <2>3, <2>5
    <3>2. CASE i # j
      <4>1. At(i, "record") /\ job'[i] = job[i] /\ seen'[i] = seen[i]
        BY <3>2, <2>2, <2>5, <2>7 DEF At
      <4> QED BY <4>1 DEF WithinCap
    <3> QED BY <3>1, <3>2
  <2> QED BY <2>6, <2>7
<1>5. ASSUME NEW j \in Jobs, NEW ok \in BOOLEAN, record(j, ok) PROVE WithinCap'
  BY <1>5, CapRecord
<1>6. CASE Restart
  <2>1. /\ entries' = fundFile /\ now' = now /\ raced' = raced
        /\ \A i \in Jobs : job'[i].pc # "record"
    BY <1>6 DEF Restart, RegistrantTypeOK, JobState, At
  <2>2. now' >= now
    BY <2>1, <1>0
  <2>3. \A i \in Jobs : ~ At(i, "record")'
    BY <2>1 DEF At
  <2> QED BY <2>1, <2>2, <2>3, CapKept
<1>7. CASE Tick \/ UNCHANGED vars
  <2>1. UNCHANGED <<entries, job, seen, raced>> /\ now' >= now
    BY <1>7, <1>0 DEF Tick, vars
  <2> QED BY <2>1, CapKept DEF At
<1> QED BY <1>2, <1>3, <1>4, <1>5, <1>6, <1>7 DEF Next, JobStep

LEMMA CapInit == Init => WithinCap
<1> SUFFICES ASSUME Init PROVE WithinCap
  OBVIOUS
<1>1. entries = <<>> /\ \A j \in Jobs : ~ At(j, "record")
  BY DEF Init, At
<1>2. Inside(entries, now - Month) = {}
  BY <1>1 DEF Inside
<1>3. totalSince(now - Month) = 0
  BY <1>2, TotalIs, SumEmpty DEF AtomsAt
<1> QED BY <1>1, <1>3, Bounds DEF WithinCap

\* What left in the month is in the history, and the history is within the cap.
LEMMA CapHolds == RegistrantTypeOK /\ EntriesInv /\ WithinCap => MonthlyCapUnlessRaced
<1> SUFFICES ASSUME RegistrantTypeOK, EntriesInv, WithinCap, MaxAtomsPerMonth > 0, ~ raced
             PROVE  LeftSince(now - Month) <= MaxAtomsPerMonth
  BY DEF MonthlyCapUnlessRaced
<1> DEFINE since == now - Month
<1>1. since \in Int /\ since <= since
  BY Bounds DEF RegistrantTypeOK
<1> HIDE DEF since
<1>2. /\ AtomsAt(fundFile, Inside(fundFile, since)) \in Nat /\ LeftSince(since) \in Nat
      /\ LeftSince(since) <= AtomsAt(fundFile, Inside(fundFile, since))
  BY <1>1, EntriesCover DEF Inside
<1>3. /\ AtomsAt(entries, Inside(entries, since)) \in Nat
      /\ AtomsAt(fundFile, Inside(fundFile, since))
           <= AtomsAt(entries, Inside(entries, since))
  <2>1. /\ entries \in Seq(Entry) /\ fundFile \in Seq(Entry)
        /\ IsPrefix(fundFile, entries)
    BY DEF RegistrantTypeOK
  <2>2. /\ DOMAIN fundFile \subseteq DOMAIN entries
        /\ \A i \in DOMAIN fundFile : fundFile[i] = entries[i]
    BY <2>1, PrefixOf
  <2> QED BY <2>1, <2>2, <1>1, TotalShrinks
<1>4. AtomsAt(entries, Inside(entries, since)) <= MaxAtomsPerMonth
  BY TotalIs DEF WithinCap, since
<1>5. LeftSince(since) <= MaxAtomsPerMonth
  BY <1>2, <1>3, <1>4, Bounds
<1> QED BY <1>5 DEF since

-----------------------------------------------------------------------------
(***************************************************************************)
(* The theorems.                                                           *)
(***************************************************************************)

\* Memory, file, jobs and payments stay in the invariant: what is paid has its
\* entry on disk, what is recorded was within the cap.
THEOREM RegistrantInvCorrect == Spec => []RegistrantInv
<1>1. Init => RegistrantInv
  BY RegistrantTypeInit, EntriesInit, CapInit DEF RegistrantInv
<1>2. RegistrantInv /\ [Next]_vars => RegistrantInv'
  BY RegistrantTypeNext, EntriesNext, CapNext DEF RegistrantInv
<1> QED BY <1>1, <1>2, PTL DEF Spec

\* Values have their types, and the file of the fund history lacks at most the
\* newest entries of memory (fundHistory.record).
THEOREM RegistrantTypeCorrect == Spec => []RegistrantTypeOK
<1>1. RegistrantInv => RegistrantTypeOK
  BY DEF RegistrantInv
<1> QED BY <1>1, RegistrantInvCorrect, PTL

\* The history on disk covers what may have left, in every window (Register
\* records before it pays).
THEOREM HistoryCoversMoneyCorrect == Spec => []HistoryCoversMoney
<1>1. RegistrantInv => HistoryCoversMoney
  <2> SUFFICES ASSUME RegistrantInv, NEW since \in 0..now
               PROVE  AtomsAt(fundFile, {i \in DOMAIN fundFile : fundFile[i].ts >= since})
                        >= LeftSince(since)
    BY DEF HistoryCoversMoney
  <2> QED BY EntriesCover DEF RegistrantInv
<1> QED BY <1>1, RegistrantInvCorrect, PTL

\* The monthly cap of allowFund holds, unless an entry was added between the
\* check and the record of a registration.
THEOREM MonthlyCapUnlessRacedCorrect == Spec => []MonthlyCapUnlessRaced
<1>1. RegistrantInv => MonthlyCapUnlessRaced
  BY CapHolds DEF RegistrantInv
<1> QED BY <1>1, RegistrantInvCorrect, PTL
=============================================================================
