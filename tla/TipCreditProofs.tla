--------------------------- MODULE TipCreditProofs ---------------------------
(***************************************************************************)
(* The tip loop, proved for any number of tips, peers, lost connections,   *)
(* crashes and failing writes, in both hosts: what is acknowledged has     *)
(* been credited for good, and what a crash repeats is bounded.            *)
(***************************************************************************)
EXTENDS TipCredit, SumTheorems, SequenceTheorems

-----------------------------------------------------------------------------
(* The inductive invariant.                                                *)

\* Every tip the loop has to do with was received by the daemon.
TipsArrived ==
    /\ host \in {"bot", "directory"}
    /\ unacked \subseteq 1..arrived
    /\ Range(tipChan) \subseteq 1..arrived
    /\ step # "idle" => tip \in 1..arrived
    /\ Range(seqs) \subseteq 1..arrived
    /\ Range(tipsFile) \subseteq 1..arrived

\* A tip is only credited for a peer that earns.
CreditsEarn == step = "credit" => Payer[tip] \in Earning

\* Tips that are past their credit: acknowledged, in the journal or its file,
\* or about to be recorded or acknowledged.
Past == {t \in 1..arrived : \/ t \notin unacked
                            \/ t \in Range(seqs) \/ t \in Range(tipsFile)
                            \/ step \in {"record", "ack"} /\ tip = t}

PastOf(p) == {t \in Past : Payer[t] = p}

AtomsOf == [t \in TipIds |-> Atoms(t)]

\* How many tips' credits may be lost for good: the bot does not acknowledge
\* a tip its ledger could not store, the directory does.
Losses == IF host = "bot" THEN 0 ELSE diskFaults

\* The ledger file covers the tips past their credit but the lost ones, and
\* memory is never behind the file.
Covered(lost) ==
    \A p \in Earning : /\ ledgerFile[p] >= SumFunctionOnSet(AtomsOf, PastOf(p) \ lost)
                       /\ balances[p] >= ledgerFile[p]

PastIsStored ==
    \E lost \in SUBSET (1..arrived) : Cardinality(lost) <= Losses /\ Covered(lost)

\* The entries of a journal are of different tips.
NoRepeats(s) == IsFiniteSet(Range(s)) /\ Cardinality(Range(s)) = Len(s)

\* As long as the journal has room, it forgets nothing that is in its file,
\* and the loop knows what is in it.
JournalComplete ==
    /\ NoRepeats(seqs) /\ NoRepeats(tipsFile)
    /\ Range(tipsFile) \subseteq Range(seqs)
    /\ step = "credit" => ~Seen(tip) /\ ~already
    /\ step = "record" => (already <=> Seen(tip))

\* A tip whose record is on disk or about to be made.
Journalled(t) == t \in Range(tipsFile) \/ (step = "record" /\ ~already /\ tip = t)

\* How often a tip was credited besides the credit its record stands for.
Surplus(t) ==
    IF Journalled(t) /\ credits[t] > 0 THEN credits[t] - 1 ELSE credits[t]

Surpluses == [t \in TipIds |-> Surplus(t)]

SurplusBounded == SumFunctionOnSet(Surpluses, TipIds) <= crashes + diskFaults

Roomy == arrived <= Keep

TipInv ==
    /\ TipTypeOK
    /\ TipsArrived
    /\ CreditsEarn
    /\ PastIsStored
    /\ Roomy => JournalComplete /\ SurplusBounded

-----------------------------------------------------------------------------
(* Operators of the model.                                                 *)

LEMMA AtomsNat == \A t \in TipIds : Atoms(t) \in Nat
BY TipAssumption DEF Atoms

LEMMA RangeAppend ==
    ASSUME NEW S, NEW s \in Seq(S), NEW x
    PROVE  Range(Append(s, x)) = Range(s) \cup {x}
<1>1. DOMAIN Append(s, x) = 1..Len(s) + 1 /\ DOMAIN s = 1..Len(s) /\ Len(s) \in Nat
  OBVIOUS
<1>2. Append(s, x)[Len(s) + 1] = x
  OBVIOUS
<1>3. \A i \in 1..Len(s) : Append(s, x)[i] = s[i]
  OBVIOUS
<1>4. 1..Len(s) + 1 = (1..Len(s)) \cup {Len(s) + 1}
  BY <1>1
<1> QED BY <1>1, <1>2, <1>3, <1>4 DEF Range

LEMMA RangeHeadTail ==
    ASSUME NEW S, NEW s \in Seq(S), s # <<>>
    PROVE  /\ Head(s) \in Range(s) /\ Head(s) \in S
           /\ Tail(s) \in Seq(S) /\ Len(Tail(s)) <= Len(s)
           /\ Range(Tail(s)) \subseteq Range(s)
<1>1. DOMAIN s = 1..Len(s) /\ Len(s) \in Nat \ {0}
  BY EmptySeq
<1>2. Head(s) = s[1] /\ 1 \in DOMAIN s
  BY <1>1
<1>3. Tail(s) \in Seq(S) /\ Len(Tail(s)) = Len(s) - 1
  BY HeadTailProperties
<1>4. \A i \in 1..Len(s) - 1 : Tail(s)[i] = s[i + 1] /\ i + 1 \in DOMAIN s
  BY <1>1, HeadTailProperties
<1>5. DOMAIN Tail(s) = 1..Len(s) - 1
  BY <1>3
<1> QED BY <1>1, <1>2, <1>3, <1>4, <1>5 DEF Range

\* Newest keeps at most Keep of the entries, all of them when they fit.
LEMMA NewestKeeps ==
    ASSUME NEW s \in Seq(TipIds)
    PROVE  /\ Newest(s) \in Seq(TipIds) /\ Len(Newest(s)) <= Keep
           /\ Range(Newest(s)) \subseteq Range(s)
           /\ Len(s) <= Keep => Newest(s) = s
<1>1. Keep \in Nat \ {0} /\ Len(s) \in Nat /\ DOMAIN s = 1..Len(s)
  BY TipAssumption
<1>2. CASE Len(s) <= Keep
  BY <1>1, <1>2 DEF Newest
<1>3. CASE Len(s) > Keep
  <2> DEFINE a == Len(s) - Keep + 1
  <2>1. a \in 1..Len(s) + 1 /\ Newest(s) = SubSeq(s, a, Len(s))
    BY <1>1, <1>3 DEF Newest
  <2>2. /\ Newest(s) \in Seq(TipIds)
        /\ Len(Newest(s)) = Keep
        /\ \A i \in 1..Keep : Newest(s)[i] = s[a + i - 1]
    BY <1>1, <1>3, <2>1
  <2>3. Range(Newest(s)) \subseteq Range(s)
    <3>1. DOMAIN Newest(s) = 1..Keep
      BY <2>2
    <3>2. \A i \in 1..Keep : a + i - 1 \in 1..Len(s)
      BY <1>1, <1>3
    <3>3. \A i \in 1..Keep : Newest(s)[i] \in Range(s)
      <4> TAKE i \in 1..Keep
      <4>1. Newest(s)[i] = s[a + i - 1] /\ a + i - 1 \in DOMAIN s
        BY <1>1, <2>2, <3>2
      <4> HIDE DEF a
      <4> QED BY <4>1 DEF Range
    <3> QED BY <3>1, <3>3 DEF Range
  <2> QED BY <1>1, <1>3, <2>2, <2>3
<1> QED BY <1>1, <1>2, <1>3

-----------------------------------------------------------------------------
(* Types.                                                                  *)

LEMMA TypeInit == Init => TipTypeOK /\ TipsArrived
<1> SUFFICES ASSUME Init PROVE TipTypeOK /\ TipsArrived
  OBVIOUS
<1>1. LedgerTypeOK
  BY LedgerAssumption DEF Init, LedgerTypeOK
<1>2. Range(<<>>) = {}
  BY DEF Range
<1>3. NumTips \in Nat /\ Keep \in Nat /\ ChanCap \in Nat /\ MaxDrops \in Nat /\ MaxCrashes \in Nat
  BY TipAssumption
<1>4. <<>> \in Seq(TipIds) /\ Len(<<>>) = 0
  OBVIOUS
<1>5. TipTypeOK
  <2>1. connected \in BOOLEAN /\ already \in BOOLEAN
    BY DEF Init
  <2>2. credits \in [TipIds -> Nat]
    BY DEF Init
  <2>3. /\ arrived \in 0..NumTips /\ tip \in 0..NumTips
        /\ drops \in 0..MaxDrops /\ crashes \in 0..MaxCrashes
    BY <1>3 DEF Init
  <2>4. Len(tipChan) <= ChanCap /\ Len(seqs) <= Keep /\ Len(tipsFile) <= Keep
    BY <1>3, <1>4 DEF Init
  <2>5. tipChan \in Seq(TipIds) /\ seqs \in Seq(TipIds) /\ tipsFile \in Seq(TipIds)
    BY <1>4 DEF Init
  <2>6. unacked \subseteq TipIds /\ streamed \subseteq TipIds /\ missed \subseteq TipIds
        /\ step \in {"idle", "credit", "record", "ack"}
    BY DEF Init
  <2> QED BY <1>1, <2>1, <2>2, <2>3, <2>4, <2>5, <2>6 DEF TipTypeOK
<1>6. TipsArrived
  BY <1>2 DEF Init, TipsArrived
<1> QED BY <1>5, <1>6

\* What Credit and Record do to the ledger's variables.
LEMMA CreditEffect ==
    ASSUME NEW t \in TipIds, NEW ok \in BOOLEAN, LedgerTypeOK,
           Credit(Payer[t], Atoms(t), ok)
    PROVE  /\ LedgerTypeOK'
           /\ diskFaults' >= diskFaults
           /\ ~ok => diskFaults' > diskFaults /\ ledgerFile' = ledgerFile
           /\ \A p \in Peers : balances'[p] = balances[p] + (IF p = Payer[t] THEN Atoms(t) ELSE 0)
           /\ ledgerFile' = balances' \/ ledgerFile' = ledgerFile
           /\ ok => ledgerFile' = balances' \/ (Atoms(t) = 0 /\ ledgerFile' = ledgerFile)
<1>1. Atoms(t) \in Nat /\ Payer[t] \in Peers
  BY AtomsNat, TipAssumption
<1>2. CASE Atoms(t) <= 0
  BY <1>1, <1>2 DEF Credit, LedgerTypeOK, ledgerVars
<1>3. CASE ~(Atoms(t) <= 0)
  <2>1. balances' = [balances EXCEPT ![Payer[t]] = @ + Atoms(t)]
        /\ ledgerFile' = (IF ok THEN balances' ELSE ledgerFile) /\ Write(ok)
    BY <1>3 DEF Credit, persistLocked
  <2>2. diskFaults' \in 0..MaxDiskFaults /\ diskFaults' >= diskFaults
        /\ (~ok => diskFaults' > diskFaults)
    BY <2>1, LedgerAssumption DEF Write, LedgerTypeOK
  <2>3. balances \in [Peers -> Nat]
    BY DEF LedgerTypeOK
  <2>4. balances' \in [Peers -> Nat]
        /\ \A p \in Peers : balances'[p] = balances[p] + (IF p = Payer[t] THEN Atoms(t) ELSE 0)
    BY <1>1, <2>1, <2>3
  <2> QED BY <2>1, <2>2, <2>4 DEF LedgerTypeOK
<1> QED BY <1>2, <1>3

LEMMA RecordEffect ==
    ASSUME NEW t \in TipIds, NEW ok \in BOOLEAN, TipTypeOK, Record(t, ok)
    PROVE  /\ LedgerTypeOK' /\ UNCHANGED <<balances, ledgerFile>>
           /\ diskFaults' >= diskFaults
           /\ ~ok => diskFaults' > diskFaults
           /\ seqs' \in Seq(TipIds) /\ Len(seqs') <= Keep
           /\ seqs' = IF Seen(t) THEN seqs ELSE Newest(Append(seqs, t))
           /\ Range(seqs') \subseteq Range(seqs) \cup {t}
           /\ tipsFile' = seqs' \/ tipsFile' = tipsFile
           /\ ok /\ ~Seen(t) => tipsFile' = seqs'
           /\ Seen(t) => tipsFile' = tipsFile
<1>0. seqs \in Seq(TipIds) /\ Len(seqs) <= Keep /\ LedgerTypeOK
  BY DEF TipTypeOK
<1>1. CASE Seen(t)
  BY <1>0, <1>1 DEF Record, seenVars, ledgerVars, LedgerTypeOK
<1>2. CASE ~Seen(t)
  <2>1. Append(seqs, t) \in Seq(TipIds)
    BY <1>0
  <2>2. Range(Append(seqs, t)) = Range(seqs) \cup {t}
    BY <1>0, RangeAppend
  <2>3. /\ seqs' = Newest(Append(seqs, t))
        /\ tipsFile' = IF ok THEN seqs' ELSE tipsFile
        /\ Write(ok) /\ UNCHANGED <<balances, ledgerFile>>
    BY <1>2 DEF Record
  <2>4. LedgerTypeOK' /\ diskFaults' >= diskFaults /\ (~ok => diskFaults' > diskFaults)
    BY <1>0, <2>3, LedgerAssumption DEF Write, LedgerTypeOK
  <2>5. seqs' \in Seq(TipIds) /\ Len(seqs') <= Keep /\ Range(seqs') \subseteq Range(seqs) \cup {t}
    BY <2>1, <2>2, <2>3, NewestKeeps
  <2> QED BY <1>2, <2>3, <2>4, <2>5
<1> QED BY <1>1, <1>2

\* Every step keeps the types, and works on tips the daemon received.
LEMMA TypeStep == TipTypeOK /\ TipsArrived /\ [Next]_vars => TipTypeOK' /\ TipsArrived'
<1> SUFFICES ASSUME TipTypeOK, TipsArrived, [Next]_vars
             PROVE  TipTypeOK' /\ TipsArrived'
  OBVIOUS
<1> USE DEF relayVars, loopVars, seenVars
<1>1. CASE UNCHANGED vars
  BY <1>1 DEF vars, ledgerVars, TipTypeOK, TipsArrived, LedgerTypeOK
<1>2. CASE TipArrives /\ UNCHANGED host
  <2>1. LedgerTypeOK'
    BY <1>2 DEF TipArrives, ledgerVars, TipTypeOK, LedgerTypeOK
  <2>2. arrived \in Nat /\ NumTips \in Nat /\ arrived' = arrived + 1 /\ arrived' \in TipIds
        /\ arrived' \in 0..NumTips /\ 1..arrived \subseteq 1..arrived'
    BY <1>2, TipAssumption DEF TipArrives, TipTypeOK, TipIds
  <2>3. unacked' = unacked \cup {arrived'}
    BY <1>2 DEF TipArrives
  <2>4. UNCHANGED <<connected, streamed, tipChan, step, tip, already, seqs,
                    tipsFile, drops, crashes, credits, host, missed>>
    BY <1>2 DEF TipArrives
  <2>5. TipTypeOK'
    BY <2>1, <2>2, <2>3, <2>4 DEF TipTypeOK
  <2>6. arrived' \in 1..arrived'
    BY <2>2
  <2> HIDE DEF relayVars
  <2>7. TipsArrived'
    BY <2>2, <2>3, <2>4, <2>6 DEF TipsArrived
  <2> QED BY <2>5, <2>7
<1>3. CASE Stream /\ UNCHANGED host
  <2>1. LedgerTypeOK'
    BY <1>3 DEF Stream, ledgerVars, TipTypeOK, LedgerTypeOK
  <2>2. PICK t \in unacked \ streamed :
            tipChan' = Append(tipChan, t) /\ streamed' = streamed \cup {t}
    BY <1>3 DEF Stream
  <2>3. Len(tipChan) < ChanCap
    BY <1>3 DEF Stream
  <2>4. t \in TipIds /\ tipChan \in Seq(TipIds)
    BY DEF TipTypeOK
  <2>5. tipChan' \in Seq(TipIds) /\ Len(tipChan') <= ChanCap
    BY <2>2, <2>3, <2>4, TipAssumption
  <2>6. Range(tipChan') = Range(tipChan) \cup {t}
    BY <2>2, <2>4, RangeAppend
  <2>7. UNCHANGED <<arrived, unacked, connected, drops, step, tip, already, seqs,
                    tipsFile, crashes, credits, host, missed>>
    BY <1>3 DEF Stream
  <2> QED BY <2>1, <2>2, <2>4, <2>5, <2>6, <2>7 DEF TipTypeOK, TipsArrived
<1>4. CASE Disconnect /\ UNCHANGED host
  <2>1. drops' \in 0..MaxDrops
    BY <1>4, TipAssumption DEF Disconnect, TipTypeOK
  <2>3. connected' \in BOOLEAN
    BY <1>4 DEF Disconnect
  <2>2. UNCHANGED <<balances, ledgerFile, diskFaults, arrived, unacked, streamed, tipChan,
                    step, tip, already, seqs, tipsFile, crashes, credits, host, missed>>
    BY <1>4 DEF Disconnect, ledgerVars
  <2> QED BY <2>1, <2>2, <2>3 DEF TipTypeOK, TipsArrived, LedgerTypeOK
<1>5. CASE Reconnect /\ UNCHANGED host
  BY <1>5 DEF Reconnect, ledgerVars, TipTypeOK, TipsArrived, LedgerTypeOK
<1>6. CASE Receive /\ UNCHANGED host
  <2>1. LedgerTypeOK'
    BY <1>6 DEF Receive, ledgerVars, TipTypeOK, LedgerTypeOK
  <2>2. tipChan \in Seq(TipIds) /\ Len(tipChan) <= ChanCap /\ tipChan # <<>>
    BY <1>6 DEF Receive, TipTypeOK
  <2>3. tip' = Head(tipChan) /\ tipChan' = Tail(tipChan)
        /\ already' = Seen(Head(tipChan)) /\ step' \in {"credit", "record"}
    BY <1>6 DEF Receive
  <2>4. /\ tip' \in Range(tipChan) /\ tip' \in TipIds
        /\ tipChan' \in Seq(TipIds) /\ Len(tipChan') <= Len(tipChan)
        /\ Range(tipChan') \subseteq Range(tipChan)
    BY <2>2, <2>3, RangeHeadTail
  <2>5. Len(tipChan') <= ChanCap
    BY <2>2, <2>4, TipAssumption
  <2>6. already' \in BOOLEAN
    BY <2>3 DEF Seen
  <2>7. tip' \in 0..NumTips
    BY <2>4, TipAssumption DEF TipIds
  <2>8. UNCHANGED <<arrived, unacked, connected, streamed, drops, seqs, tipsFile,
                    crashes, credits, host, missed>>
    BY <1>6 DEF Receive
  <2>9. TipTypeOK'
    BY <2>1, <2>3, <2>4, <2>5, <2>6, <2>7, <2>8 DEF TipTypeOK
  <2>10. TipsArrived'
    BY <2>4, <2>8 DEF TipsArrived
  <2> QED BY <2>9, <2>10
<1>7. ASSUME NEW ok \in BOOLEAN, CreditTip(ok), UNCHANGED host
      PROVE  TipTypeOK' /\ TipsArrived'
  <2>1. tip \in TipIds
    BY <1>7, TipAssumption DEF CreditTip, TipsArrived, TipTypeOK, TipIds
  <2>2. LedgerTypeOK'
    BY <1>7, <2>1, CreditEffect DEF CreditTip, TipTypeOK
  <2>3. credits' \in [TipIds -> Nat]
    BY <1>7, <2>1 DEF CreditTip, TipTypeOK
  <2>4. step' \in {"record", "idle"}
    BY <1>7 DEF CreditTip
  <2>5. UNCHANGED <<arrived, unacked, connected, streamed, drops, tipChan, tip,
                    already, seqs, tipsFile, crashes, host>>
    BY <1>7 DEF CreditTip
  <2>7. missed' \subseteq TipIds
    BY <1>7, <2>1 DEF CreditTip, TipTypeOK
  <2>6. step = "credit"
    BY <1>7 DEF CreditTip
  <2> QED BY <2>2, <2>3, <2>4, <2>5, <2>6, <2>7 DEF TipTypeOK, TipsArrived
<1>8. ASSUME NEW ok \in BOOLEAN, RecordTip(ok), UNCHANGED host
      PROVE  TipTypeOK' /\ TipsArrived'
  <2>1. tip \in TipIds /\ tip \in 1..arrived
    BY <1>8, TipAssumption DEF RecordTip, TipsArrived, TipTypeOK, TipIds
  <2>2. UNCHANGED <<arrived, unacked, connected, streamed, drops, tipChan, tip,
                    already, crashes, credits, host, missed>> /\ step' = "ack"
    BY <1>8 DEF RecordTip
  <2>3. CASE already
    <3>1. UNCHANGED <<seqs, tipsFile, balances, ledgerFile, diskFaults>>
      BY <1>8, <2>3 DEF RecordTip, ledgerVars
    <3> QED BY <2>1, <2>2, <3>1 DEF TipTypeOK, TipsArrived, LedgerTypeOK
  <2>4. CASE ~already
    <3>1. Record(tip, ok)
      BY <1>8, <2>4 DEF RecordTip
    <3>2. /\ LedgerTypeOK'
          /\ seqs' \in Seq(TipIds) /\ Len(seqs') <= Keep
          /\ Range(seqs') \subseteq Range(seqs) \cup {tip}
          /\ tipsFile' = seqs' \/ tipsFile' = tipsFile
      BY <2>1, <3>1, RecordEffect
    <3> QED BY <2>1, <2>2, <3>2 DEF TipTypeOK, TipsArrived
  <2> QED BY <2>3, <2>4
<1>9. ASSUME NEW ok \in BOOLEAN, AckTip(ok), UNCHANGED host
      PROVE  TipTypeOK' /\ TipsArrived'
  <2>1. tip \in TipIds
    BY <1>9, TipAssumption DEF AckTip, TipsArrived, TipTypeOK, TipIds
  <2> QED BY <1>9, <2>1 DEF AckTip, ledgerVars, TipTypeOK, TipsArrived, LedgerTypeOK
<1>10. CASE Crash /\ UNCHANGED host
  <2>1. LedgerTypeOK'
    BY <1>10 DEF Crash, OpenLedger, TipTypeOK, LedgerTypeOK
  <2>2. crashes' \in 0..MaxCrashes
    BY <1>10, TipAssumption DEF Crash, TipTypeOK
  <2>3. Range(<<>>) = {}
    BY DEF Range
  <2>4. /\ seqs' = tipsFile /\ connected' = FALSE /\ tipChan' = <<>> /\ step' = "idle"
        /\ UNCHANGED <<arrived, unacked, streamed, drops, tip, already, tipsFile,
                       credits, host, missed>>
    BY <1>10 DEF Crash
  <2>5. tipChan' \in Seq(TipIds) /\ Len(tipChan') <= ChanCap
    BY <2>4, TipAssumption
  <2>6. TipTypeOK'
    BY <2>1, <2>2, <2>4, <2>5 DEF TipTypeOK
  <2> QED BY <2>3, <2>4, <2>6 DEF TipsArrived
<1> QED BY <1>1, <1>2, <1>3, <1>4, <1>5, <1>6, <1>7, <1>8, <1>9, <1>10 DEF Next, LoopStep

-----------------------------------------------------------------------------
(* Tips past their credit are stored.                                      *)

\* The sum of a set of tips grows with the set, by no more than is added.
LEMMA AtomsSum ==
    /\ \A S \in SUBSET TipIds : SumFunctionOnSet(AtomsOf, S) \in Nat
    /\ \A S \in SUBSET TipIds : \A T \in SUBSET S :
           SumFunctionOnSet(AtomsOf, T) <= SumFunctionOnSet(AtomsOf, S)
    /\ \A S \in SUBSET TipIds : \A t \in TipIds :
           SumFunctionOnSet(AtomsOf, S \cup {t})
           <= SumFunctionOnSet(AtomsOf, S) + Atoms(t)
<1>0. ASSUME NEW S \in SUBSET TipIds PROVE IsFiniteSet(S)
  <2>1. IsFiniteSet(TipIds)
    BY TipAssumption, FS_Interval DEF TipIds
  <2> QED BY <2>1, FS_Subset
<1>1. \A t \in TipIds : AtomsOf[t] = Atoms(t) /\ AtomsOf[t] \in Nat
  BY AtomsNat DEF AtomsOf
<1>2. ASSUME NEW S \in SUBSET TipIds PROVE SumFunctionOnSet(AtomsOf, S) \in Nat
  BY <1>0, <1>1, SumNat
<1>3. ASSUME NEW S \in SUBSET TipIds, NEW T \in SUBSET S
      PROVE  SumFunctionOnSet(AtomsOf, T) <= SumFunctionOnSet(AtomsOf, S)
  BY <1>0, <1>1, SumSubset
<1>4. ASSUME NEW S \in SUBSET TipIds, NEW t \in TipIds
      PROVE  SumFunctionOnSet(AtomsOf, S \cup {t})
             <= SumFunctionOnSet(AtomsOf, S) + Atoms(t)
  <2>1. CASE t \in S
    <3>0. S \cup {t} = S
      BY <2>1
    <3>1. SumFunctionOnSet(AtomsOf, S \cup {t}) = SumFunctionOnSet(AtomsOf, S)
      BY <3>0, Zenon
    <3>2. SumFunctionOnSet(AtomsOf, S) \in Nat /\ Atoms(t) \in Nat
      BY <1>1, <1>2
    <3> QED BY <3>1, <3>2
  <2>2. CASE t \notin S
    <3>1. \A y \in S \cup {t} : AtomsOf[y] \in Int
      BY <1>1
    <3>2. SumFunctionOnSet(AtomsOf, S \cup {t}) = SumFunctionOnSet(AtomsOf, S) + AtomsOf[t]
      <4>1. IsFiniteSet(S)
        BY <1>0
      <4> QED BY <4>1, <2>2, <3>1, SumAdd
    <3>3. SumFunctionOnSet(AtomsOf, S) \in Nat /\ AtomsOf[t] = Atoms(t) /\ Atoms(t) \in Nat
      BY <1>1, <1>2
    <3> QED BY <3>2, <3>3
  <2> QED BY <2>1, <2>2
<1> QED BY <1>2, <1>3, <1>4

LEMMA LostFinite ==
    ASSUME TipTypeOK, NEW lost \in SUBSET (1..arrived)
    PROVE  IsFiniteSet(lost) /\ Cardinality(lost) \in Nat
<1>1. arrived \in Nat BY TipAssumption DEF TipTypeOK
<1>2. IsFiniteSet(1..arrived) BY <1>1, FS_Interval
<1> QED BY <1>2, FS_Subset, FS_CardinalityType

LEMMA LossesNat == TipTypeOK => Losses \in Nat /\ diskFaults \in Nat
BY LedgerAssumption DEF TipTypeOK, LedgerTypeOK, Losses

LEMMA PastKnown ==
    TipTypeOK => Past \subseteq TipIds /\ \A p \in Earning : PastOf(p) \in SUBSET TipIds
<1> SUFFICES ASSUME TipTypeOK PROVE Past \subseteq TipIds
  BY DEF PastOf
<1>1. 1..arrived \subseteq TipIds
  BY TipAssumption DEF TipTypeOK, TipIds
<1> QED BY <1>1 DEF Past

\* A step that puts no earning peer's tip past its credit and takes nothing
\* from the ledger keeps PastIsStored.
LEMMA StoredWhenNothingPasses ==
    ASSUME TipTypeOK, TipTypeOK', PastIsStored, host' = host,
           diskFaults' >= diskFaults, arrived' >= arrived,
           \A p \in Earning : /\ PastOf(p)' \subseteq PastOf(p)
                              /\ ledgerFile'[p] >= ledgerFile[p]
                              /\ balances[p] >= ledgerFile[p] => balances'[p] >= ledgerFile'[p]
    PROVE  PastIsStored'
<1>1. PICK lost \in SUBSET (1..arrived) : Cardinality(lost) <= Losses /\ Covered(lost)
  BY DEF PastIsStored
<1>2. lost \in SUBSET (1..arrived')
  BY <1>1, TipAssumption DEF TipTypeOK
<1>3. Cardinality(lost) <= Losses'
  <2>1. Losses <= Losses' /\ Losses \in Nat /\ Losses' \in Nat
    BY LedgerAssumption DEF Losses, TipTypeOK, LedgerTypeOK
  <2>2. Cardinality(lost) \in Nat BY LostFinite
  <2> QED BY <1>1, <2>1, <2>2
<1>4. ASSUME NEW p \in Earning
      PROVE  /\ ledgerFile'[p] >= SumFunctionOnSet(AtomsOf, PastOf(p)' \ lost)
             /\ balances'[p] >= ledgerFile'[p]
  <2>1. p \in Peers
    BY TipAssumption DEF Earning
  <2>2. /\ ledgerFile[p] >= SumFunctionOnSet(AtomsOf, PastOf(p) \ lost)
        /\ balances[p] >= ledgerFile[p]
    BY <1>1, <1>4 DEF Covered
  <2>3. /\ PastOf(p) \ lost \in SUBSET TipIds
        /\ PastOf(p)' \ lost \in SUBSET (PastOf(p) \ lost)
    BY <1>4, PastKnown
  <2>4. PastOf(p)' \ lost \in SUBSET TipIds
    BY <2>3
  <2>5. /\ SumFunctionOnSet(AtomsOf, PastOf(p)' \ lost)
           <= SumFunctionOnSet(AtomsOf, PastOf(p) \ lost)
        /\ SumFunctionOnSet(AtomsOf, PastOf(p)' \ lost) \in Nat
        /\ SumFunctionOnSet(AtomsOf, PastOf(p) \ lost) \in Nat
    BY <2>3, <2>4, AtomsSum
  <2>6. ledgerFile[p] \in Nat /\ ledgerFile'[p] \in Nat /\ ledgerFile'[p] >= ledgerFile[p]
        /\ balances'[p] >= ledgerFile'[p]
    BY <1>4, <2>1, <2>2 DEF TipTypeOK, LedgerTypeOK
  <2> QED BY <2>2, <2>5, <2>6
<1>5. Covered(lost)'
  <2>1. Earning' = Earning BY DEF Earning
  <2> QED BY <1>4, <2>1 DEF Covered, AtomsOf, Atoms
<1> QED BY <1>2, <1>3, <1>5 DEF PastIsStored

\* A credit pays for the one tip it moves past its credit; the directory goes
\* on with a tip whose credit failed, which is then among the lost.
LEMMA StoredWhenCredited ==
    ASSUME TipTypeOK, TipsArrived, TipTypeOK', PastIsStored, host' = host,
           NEW ok \in BOOLEAN, CreditTip(ok)
    PROVE  PastIsStored'
<1>1. tip \in TipIds /\ tip \in 1..arrived /\ step = "credit"
  BY TipAssumption DEF CreditTip, TipsArrived, TipTypeOK, TipIds
<1>2. /\ diskFaults' >= diskFaults
      /\ ~ok => diskFaults' > diskFaults /\ ledgerFile' = ledgerFile
      /\ \A p \in Peers : balances'[p] = balances[p] + (IF p = Payer[tip] THEN Atoms(tip) ELSE 0)
      /\ ok => ledgerFile' = balances' \/ (Atoms(tip) = 0 /\ ledgerFile' = ledgerFile)
  BY <1>1, CreditEffect DEF CreditTip, TipTypeOK
<1>3. diskFaults \in Nat /\ diskFaults' \in Nat
  BY LedgerAssumption DEF TipTypeOK, LedgerTypeOK
<1>4. /\ step' = IF ok \/ host = "directory" THEN "record" ELSE "idle"
      /\ UNCHANGED <<arrived, unacked, tip, seqs, tipsFile>>
  BY DEF CreditTip, relayVars, seenVars
<1>5. Past' \subseteq Past \cup {tip} /\ (step' = "idle" => Past' \subseteq Past)
  <2>1. UNCHANGED <<arrived, unacked, tip, seqs, tipsFile>>
    BY <1>4
  <2> QED BY <2>1, <1>4 DEF Past
<1>6. Earning' = Earning /\ Earning \subseteq Peers
  BY TipAssumption DEF Earning
<1>7. Atoms(tip) \in Nat
  BY <1>1, AtomsNat
<1>8. PICK known \in SUBSET (1..arrived) : Cardinality(known) <= Losses /\ Covered(known)
  BY DEF PastIsStored
<1>9. PICK lost \in SUBSET (1..arrived') :
         /\ known \subseteq lost /\ Cardinality(lost) <= Losses'
         /\ step' = "record" => ok \/ tip \in lost
  <2>1. IsFiniteSet(known) /\ Cardinality(known) \in Nat BY LostFinite
  <2>2. CASE ~ok /\ host = "directory"
    <3>1. /\ IsFiniteSet(known \cup {tip})
          /\ Cardinality(known \cup {tip})
             = IF tip \in known THEN Cardinality(known) ELSE Cardinality(known) + 1
      BY <2>1, FS_AddElement
    <3>2. Losses = diskFaults /\ Losses' = diskFaults' BY <2>2 DEF Losses
    <3>3. Cardinality(known \cup {tip}) <= Losses'
      BY <1>2, <1>3, <1>8, <2>1, <2>2, <3>1, <3>2
    <3>4. known \cup {tip} \in SUBSET (1..arrived') BY <1>1, <1>4
    <3> QED BY <3>3, <3>4
  <2>3. CASE ~(~ok /\ host = "directory")
    <3>1. Losses <= Losses' /\ Losses \in Nat /\ Losses' \in Nat BY <1>2, <1>3 DEF Losses
    <3>2. Cardinality(known) <= Losses' BY <1>8, <2>1, <3>1
    <3> QED BY <1>4, <1>8, <2>3, <3>2
  <2> QED BY <2>2, <2>3
<1>10. ASSUME NEW p \in Earning
       PROVE  /\ ledgerFile'[p] >= SumFunctionOnSet(AtomsOf, PastOf(p)' \ lost)
              /\ balances'[p] >= ledgerFile'[p]
  <2> DEFINE old == PastOf(p) \ known
             new == PastOf(p)' \ lost
  <2>1. /\ ledgerFile[p] >= SumFunctionOnSet(AtomsOf, old) /\ balances[p] >= ledgerFile[p]
    BY <1>8, <1>10 DEF Covered
  <2>2. /\ balances[p] \in Nat /\ ledgerFile[p] \in Nat
        /\ balances'[p] \in Nat /\ ledgerFile'[p] \in Nat
    BY <1>6, <1>10 DEF TipTypeOK, LedgerTypeOK
  <2>3. /\ balances'[p] >= balances[p]
        /\ p = Payer[tip] => balances'[p] = balances[p] + Atoms(tip)
    BY <1>2, <1>6, <1>7, <1>10, <2>2
  <2>4. ledgerFile'[p] >= ledgerFile[p] /\ balances'[p] >= ledgerFile'[p]
    BY <1>2, <2>1, <2>2, <2>3
  <2>5. old \in SUBSET TipIds /\ new \in SUBSET (old \cup {tip})
    <3>1. old \in SUBSET TipIds BY <1>10, PastKnown
    <3>2. new \in SUBSET (old \cup {tip}) BY <1>5, <1>9 DEF PastOf
    <3> QED BY <3>1, <3>2
  <2>6. new \in SUBSET old \/ (ok /\ step' = "record" /\ p = Payer[tip])
    <3>1. CASE step' = "record" /\ ok
      <4>1. CASE p = Payer[tip] BY <3>1, <4>1
      <4>2. CASE p # Payer[tip]
        BY <1>4, <1>5, <1>9, <4>2 DEF PastOf
      <4> QED BY <4>1, <4>2
    <3>2. CASE step' = "record" /\ ~ok
      BY <1>5, <1>9, <3>2 DEF PastOf
    <3>3. CASE step' = "idle"
      BY <1>5, <1>9, <3>3 DEF PastOf
    <3> QED BY <1>4, <3>1, <3>2, <3>3
  <2> HIDE DEF old, new
  <2>7. /\ SumFunctionOnSet(AtomsOf, old) \in Nat
        /\ SumFunctionOnSet(AtomsOf, old \cup {tip})
           <= SumFunctionOnSet(AtomsOf, old) + Atoms(tip)
        /\ SumFunctionOnSet(AtomsOf, old \cup {tip}) \in Nat
        /\ SumFunctionOnSet(AtomsOf, new) <= SumFunctionOnSet(AtomsOf, old \cup {tip})
        /\ SumFunctionOnSet(AtomsOf, new) \in Nat
    <3>1. old \cup {tip} \in SUBSET TipIds /\ new \in SUBSET TipIds
      BY <1>1, <2>5
    <3> QED BY <1>1, <2>5, <3>1, AtomsSum
  <2>8. CASE new \in SUBSET old
    <3>1. SumFunctionOnSet(AtomsOf, new) <= SumFunctionOnSet(AtomsOf, old)
      BY <2>5, <2>8, AtomsSum
    <3> QED BY <2>1, <2>2, <2>4, <2>7, <3>1 DEF new
  <2>9. CASE ok /\ step' = "record" /\ p = Payer[tip]
    <3>1. ledgerFile'[p] >= ledgerFile[p] + Atoms(tip)
      BY <1>2, <2>1, <2>2, <2>3, <2>9, <1>7
    <3> QED BY <1>7, <2>1, <2>2, <2>4, <2>7, <3>1 DEF new
  <2> QED BY <2>6, <2>8, <2>9
<1>11. Covered(lost)'
  BY <1>6, <1>10 DEF Covered, AtomsOf, Atoms
<1> QED BY <1>9, <1>11 DEF PastIsStored

LEMMA ArrivedGrows ==
    TipTypeOK /\ [Next]_vars => arrived' >= arrived /\ arrived \in Nat /\ arrived' \in Nat
<1> SUFFICES ASSUME TipTypeOK, [Next]_vars
             PROVE  arrived' >= arrived /\ arrived \in Nat /\ arrived' \in Nat
  OBVIOUS
<1>1. arrived \in Nat
  BY TipAssumption DEF TipTypeOK
<1>2. arrived' = arrived \/ arrived' = arrived + 1
  BY DEF Next, LoopStep, TipArrives, Stream, Disconnect, Reconnect, Receive, CreditTip,
         RecordTip, AckTip, Crash, relayVars, vars
<1> QED BY <1>1, <1>2

\* Every step keeps PastIsStored (bot.go's and brmcpdir's tip loops).
LEMMA StoredStep ==
    TipTypeOK /\ TipsArrived /\ CreditsEarn /\ PastIsStored /\ [Next]_vars
        => PastIsStored'
<1> SUFFICES ASSUME TipTypeOK, TipsArrived, CreditsEarn, PastIsStored, [Next]_vars
             PROVE  PastIsStored'
  OBVIOUS
<1>0. TipTypeOK' /\ TipsArrived' /\ host' = host
  BY TypeStep DEF Next, vars
<1> DEFINE Quiet == /\ diskFaults' >= diskFaults
                    /\ \A p \in Earning :
                          /\ PastOf(p)' \subseteq PastOf(p)
                          /\ ledgerFile'[p] >= ledgerFile[p]
                          /\ balances[p] >= ledgerFile[p] => balances'[p] >= ledgerFile'[p]
<1>a. arrived' >= arrived
  BY ArrivedGrows
<1>q. SUFFICES ASSUME ~ \E ok \in BOOLEAN : CreditTip(ok) PROVE Quiet
  BY <1>0, <1>a, StoredWhenCredited, StoredWhenNothingPasses
<1>1. /\ \A p \in Earning : ledgerFile[p] \in Nat /\ balances[p] \in Nat
      /\ arrived \in Nat /\ diskFaults \in Nat /\ diskFaults' \in Nat
  BY <1>0, TipAssumption, LedgerAssumption DEF Earning, TipTypeOK, LedgerTypeOK
<1> DEFINE Same == UNCHANGED <<balances, ledgerFile>>
<1>2. ASSUME Same, diskFaults' >= diskFaults,
             \A t \in Past' : Payer[t] \in Earning => t \in Past
      PROVE  Quiet
  BY <1>1, <1>2 DEF PastOf
<1> HIDE DEF Quiet
<1> USE DEF relayVars, loopVars, seenVars, ledgerVars
<1>3. CASE UNCHANGED vars
  BY <1>1, <1>2, <1>3 DEF vars, Past
<1>4. CASE TipArrives
  <2>1. /\ arrived' = arrived + 1 /\ unacked' = unacked \cup {arrived + 1}
        /\ UNCHANGED <<balances, ledgerFile, diskFaults, step, tip, seqs, tipsFile>>
    BY <1>4 DEF TipArrives
  <2>2. 1..arrived' = (1..arrived) \cup {arrived + 1}
    BY <1>1, <2>1
  <2>3. Past' \subseteq Past
    BY <2>1, <2>2 DEF Past, TipsArrived
  <2> QED BY <1>1, <1>2, <2>1, <2>3
<1>5. CASE Stream \/ Disconnect \/ Reconnect
  BY <1>1, <1>2, <1>5 DEF Stream, Disconnect, Reconnect, Past
<1>6. CASE Receive
  <2>1. /\ tip' = Head(tipChan) /\ step' \in {"credit", "record"}
        /\ step' = "record" => (Payer[tip'] \in Earning => Seen(tip'))
        /\ UNCHANGED <<balances, ledgerFile, diskFaults, arrived, unacked, seqs, tipsFile>>
    BY <1>6 DEF Receive
  <2>2. \A t \in Past' : Payer[t] \in Earning => t \in Past
    BY <2>1 DEF Past, Seen
  <2> QED BY <1>1, <1>2, <2>1, <2>2
<1>7. ASSUME NEW ok \in BOOLEAN, RecordTip(ok) PROVE Quiet
  <2>1. tip \in TipIds /\ tip \in 1..arrived /\ step = "record" /\ tip \in Past
    BY <1>7, TipAssumption DEF RecordTip, TipsArrived, TipTypeOK, TipIds, Past
  <2>2. UNCHANGED <<arrived, unacked, tip>> /\ step' = "ack"
    BY <1>7 DEF RecordTip
  <2>3. /\ UNCHANGED <<balances, ledgerFile>> /\ diskFaults' >= diskFaults
        /\ Range(seqs') \subseteq Range(seqs) \cup {tip}
        /\ tipsFile' = seqs' \/ tipsFile' = tipsFile
    <3>1. CASE already
      BY <1>1, <1>7, <3>1 DEF RecordTip
    <3>2. CASE ~already
      BY <1>7, <2>1, <3>2, RecordEffect DEF RecordTip
    <3> QED BY <3>1, <3>2
  <2>4. Past' \subseteq Past
    BY <2>1, <2>2, <2>3 DEF Past
  <2> QED BY <1>2, <2>3, <2>4
<1>8. ASSUME NEW ok \in BOOLEAN, AckTip(ok) PROVE Quiet
  <2>1. tip \in 1..arrived /\ step = "ack"
    BY <1>8 DEF AckTip, TipsArrived
  <2>2. /\ unacked' = (IF connected /\ ok THEN unacked \ {tip} ELSE unacked)
        /\ step' = "idle"
        /\ UNCHANGED <<balances, ledgerFile, diskFaults, arrived, tip, seqs, tipsFile>>
    BY <1>8 DEF AckTip
  <2>3. Past' \subseteq Past
    BY <2>1, <2>2 DEF Past
  <2> QED BY <1>1, <1>2, <2>2, <2>3
<1>9. CASE Crash
  <2>1. /\ balances' = ledgerFile /\ UNCHANGED <<ledgerFile, diskFaults>>
        /\ seqs' = tipsFile /\ step' = "idle"
        /\ UNCHANGED <<arrived, unacked, tip, tipsFile>>
    BY <1>9 DEF Crash, OpenLedger
  <2>2. Past' \subseteq Past
    BY <2>1 DEF Past
  <2> QED BY <1>1, <2>1, <2>2 DEF Quiet, PastOf
<1> QED BY <1>q, <1>3, <1>4, <1>5, <1>6, <1>7, <1>8, <1>9 DEF Next, LoopStep

\* A tip in the loop at its credit is an earning peer's (Receive).
LEMMA EarnStep == TipTypeOK /\ CreditsEarn /\ [Next]_vars => CreditsEarn'
<1> SUFFICES ASSUME CreditsEarn, [Next]_vars, step' = "credit"
             PROVE  Payer[tip'] \in Earning'
  BY DEF CreditsEarn
<1>1. Earning' = Earning
  BY DEF Next, vars, Earning
<1>2. CASE step = "credit" /\ tip' = tip
  BY <1>1, <1>2 DEF CreditsEarn
<1>3. CASE Receive
  BY <1>1, <1>3 DEF Receive
<1>4. CASE ~Receive
  <2>1. step = "credit" /\ tip' = tip
    BY <1>4 DEF Next, LoopStep, TipArrives, Stream, Disconnect, Reconnect, CreditTip,
                RecordTip, AckTip, Crash, loopVars, vars
  <2> QED BY <1>2, <2>1
<1> QED BY <1>3, <1>4

-----------------------------------------------------------------------------
(* While the journal has room.                                             *)

\* A record of a new id keeps the journal complete: there is room for it.
LEMMA RoomForRecord ==
    ASSUME TipTypeOK, TipsArrived, JournalComplete, arrived <= Keep,
           NEW t \in 1..arrived, ~Seen(t)
    PROVE  /\ Newest(Append(seqs, t)) = Append(seqs, t)
           /\ Range(Append(seqs, t)) = Range(seqs) \cup {t}
           /\ NoRepeats(Append(seqs, t))
<1>1. arrived \in Nat /\ Keep \in Nat /\ seqs \in Seq(TipIds) /\ t \in TipIds
  BY TipAssumption DEF TipTypeOK, TipIds
<1>2. Range(Append(seqs, t)) = Range(seqs) \cup {t}
  BY <1>1, RangeAppend
<1>3. /\ IsFiniteSet(Range(seqs) \cup {t})
      /\ Cardinality(Range(seqs) \cup {t}) = Cardinality(Range(seqs)) + 1
  BY FS_AddElement DEF JournalComplete, Seen, NoRepeats
<1>4. Len(Append(seqs, t)) = Len(seqs) + 1 /\ Append(seqs, t) \in Seq(TipIds)
  BY <1>1
<1>5. Cardinality(Range(seqs) \cup {t}) <= arrived
  <2>1. Range(seqs) \cup {t} \subseteq 1..arrived
    BY DEF TipsArrived
  <2>2. IsFiniteSet(1..arrived) /\ Cardinality(1..arrived) = arrived
    BY <1>1, FS_Interval
  <2> QED BY <2>1, <2>2, FS_Subset
<1>6. Cardinality(Range(seqs) \cup {t}) = Len(Append(seqs, t))
  BY <1>3, <1>4 DEF JournalComplete, NoRepeats
<1>7. Len(Append(seqs, t)) <= Keep
  BY <1>1, <1>4, <1>5, <1>6
<1> QED BY <1>2, <1>3, <1>4, <1>6, <1>7, NewestKeeps DEF NoRepeats

\* Room does not come back once it is gone.
LEMMA RoomyBefore == TipTypeOK /\ [Next]_vars /\ Roomy' => Roomy
BY ArrivedGrows, TipAssumption DEF Roomy

LEMMA SurplusNat ==
    /\ credits \in [TipIds -> Nat]
           => \A t \in TipIds : Surplus(t) \in Nat /\ Surpluses[t] = Surplus(t)
    /\ credits' \in [TipIds -> Nat]
           => \A t \in TipIds : Surplus(t)' \in Nat /\ Surpluses'[t] = Surplus(t)'
<1>1. ASSUME credits \in [TipIds -> Nat], NEW t \in TipIds PROVE Surplus(t) \in Nat
  <2>1. credits[t] \in Nat
    BY <1>1
  <2>2. credits[t] > 0 => credits[t] - 1 \in Nat
    BY <2>1
  <2> QED BY <2>1, <2>2 DEF Surplus
<1>2. ASSUME credits' \in [TipIds -> Nat], NEW t \in TipIds PROVE Surplus(t)' \in Nat
  <2>1. credits'[t] \in Nat
    BY <1>2
  <2>2. credits'[t] > 0 => credits'[t] - 1 \in Nat
    BY <2>1
  <2> QED BY <2>1, <2>2 DEF Surplus
<1> QED BY <1>1, <1>2 DEF Surpluses

\* The crashes and failed writes so far.
Mishaps == crashes + diskFaults

LEMMA MishapsNat ==
    /\ TipTypeOK => Mishaps \in Nat
    /\ TipTypeOK' => Mishaps' \in Nat
<1>1. TipTypeOK => crashes \in Nat /\ diskFaults \in Nat
  BY TipAssumption, LedgerAssumption DEF TipTypeOK, LedgerTypeOK
<1>2. TipTypeOK' => crashes' \in Nat /\ diskFaults' \in Nat
  BY TipAssumption, LedgerAssumption DEF TipTypeOK, LedgerTypeOK
<1> QED BY <1>1, <1>2 DEF Mishaps

LEMMA MishapsGrow ==
    ASSUME TipTypeOK, TipTypeOK', crashes' = crashes, diskFaults' >= diskFaults
    PROVE  /\ Mishaps' >= Mishaps
           /\ diskFaults' > diskFaults => Mishaps' >= Mishaps + 1
<1>1. /\ crashes \in Nat /\ diskFaults \in Nat
      /\ crashes' \in Nat /\ diskFaults' \in Nat
  BY TipAssumption, LedgerAssumption DEF TipTypeOK, LedgerTypeOK
<1>2. \A c, d, e \in Nat : d >= e => c + d >= c + e /\ (d > e => c + d >= c + e + 1)
  OBVIOUS
<1> QED BY <1>1, <1>2 DEF Mishaps

\* The total surplus grows by one mishap's one tip at most.
LEMMA SurplusStaysBounded ==
    ASSUME TipTypeOK, TipTypeOK', SurplusBounded, Mishaps' >= Mishaps,
           \A t \in TipIds : Surplus(t)' <= Surplus(t)
    PROVE  SurplusBounded'
<1>1. \A t \in TipIds : /\ Surpluses[t] = Surplus(t) /\ Surplus(t) \in Nat
                        /\ Surpluses'[t] = Surplus(t)' /\ Surplus(t)' \in Nat
  BY SurplusNat DEF TipTypeOK
<1>2. IsFiniteSet(TipIds)
  BY TipAssumption, FS_Interval DEF TipIds
<1>3. SumFunctionOnSet(Surpluses', TipIds) <= SumFunctionOnSet(Surpluses, TipIds)
  BY <1>1, <1>2, SumMonotone
<1>4. SumFunctionOnSet(Surpluses', TipIds) \in Nat /\ SumFunctionOnSet(Surpluses, TipIds) \in Nat
  BY <1>1, <1>2, SumNat
<1>5. SumFunctionOnSet(Surpluses, TipIds) <= Mishaps /\ Mishaps \in Nat /\ Mishaps' \in Nat
  BY MishapsNat DEF SurplusBounded, Mishaps
<1>6. SumFunctionOnSet(Surpluses', TipIds) <= Mishaps'
  BY <1>3, <1>4, <1>5
<1> QED BY <1>6 DEF SurplusBounded, Mishaps

LEMMA SurplusOfMishap ==
    ASSUME TipTypeOK, TipTypeOK', SurplusBounded, Mishaps' >= Mishaps + 1,
           NEW x \in TipIds,
           \A t \in TipIds : Surplus(t)' <= Surplus(t) + (IF t = x THEN 1 ELSE 0)
    PROVE  SurplusBounded'
<1>1. \A t \in TipIds : /\ Surpluses[t] = Surplus(t) /\ Surplus(t) \in Nat
                        /\ Surpluses'[t] = Surplus(t)' /\ Surplus(t)' \in Nat
  BY SurplusNat DEF TipTypeOK
<1>2. IsFiniteSet(TipIds)
  BY TipAssumption, FS_Interval DEF TipIds
<1>3. /\ \A t \in TipIds : Surpluses[t] \in Int /\ Surpluses'[t] \in Int
      /\ \A t \in TipIds \ {x} : Surpluses'[t] <= Surpluses[t]
      /\ Surpluses'[x] <= Surpluses[x] + 1
  BY <1>1
<1>4. SumFunctionOnSet(Surpluses', TipIds) <= SumFunctionOnSet(Surpluses, TipIds) + 1
  BY <1>2, <1>3, SumAtMost
<1>5. SumFunctionOnSet(Surpluses', TipIds) \in Int /\ SumFunctionOnSet(Surpluses, TipIds) \in Int
  BY <1>2, <1>3, SumInt
<1>6. SumFunctionOnSet(Surpluses, TipIds) <= Mishaps /\ Mishaps \in Nat /\ Mishaps' \in Nat
  BY MishapsNat DEF SurplusBounded, Mishaps
<1>7. SumFunctionOnSet(Surpluses', TipIds) <= Mishaps'
  BY <1>4, <1>5, <1>6
<1> QED BY <1>7 DEF SurplusBounded, Mishaps

\* Every step keeps the journal complete and the surplus bounded, as long as
\* there is room.
LEMMA RoomyStep ==
    ASSUME TipTypeOK, TipsArrived, [Next]_vars, Roomy, Roomy',
           JournalComplete, SurplusBounded
    PROVE  JournalComplete' /\ SurplusBounded'
<1>0. TipTypeOK' /\ TipsArrived'
  BY TypeStep
<1>1. /\ arrived \in Nat /\ arrived' \in Nat /\ arrived <= Keep /\ Keep \in Nat
      /\ diskFaults \in Nat /\ diskFaults' \in Nat
      /\ credits \in [TipIds -> Nat] /\ credits' \in [TipIds -> Nat] /\ crashes \in Nat
  BY <1>0, TipAssumption, LedgerAssumption DEF Roomy, TipTypeOK, LedgerTypeOK
<1>2. \A t \in TipIds : credits[t] \in Nat /\ Surplus(t) \in Nat
  BY <1>1, SurplusNat
<1> USE DEF relayVars, loopVars, seenVars, ledgerVars
\* Steps that leave the journal, the credits and the loop's tip alone.
<1>3. ASSUME UNCHANGED <<seqs, tipsFile, credits, crashes, diskFaults, step, tip, already>>
      PROVE  JournalComplete' /\ SurplusBounded'
  <2>1. JournalComplete'
    BY <1>3 DEF JournalComplete, Seen, NoRepeats
  <2>2. \A t \in TipIds : Surplus(t)' <= Surplus(t)
    BY <1>2, <1>3 DEF Surplus, Journalled
  <2>3. Mishaps' >= Mishaps
    BY <1>1, <1>3 DEF Mishaps
  <2> QED BY <1>0, <2>1, <2>2, <2>3, SurplusStaysBounded
<1>4. CASE TipArrives \/ Stream \/ Disconnect \/ Reconnect \/ UNCHANGED vars
  BY <1>3, <1>4 DEF TipArrives, Stream, Disconnect, Reconnect, vars
<1>5. CASE Receive
  <2>1. /\ tip' = Head(tipChan) /\ already' = Seen(Head(tipChan))
        /\ step' = "credit" => ~Seen(Head(tipChan))
        /\ step = "idle" /\ UNCHANGED <<seqs, tipsFile, credits, crashes, diskFaults>>
    BY <1>5 DEF Receive
  <2>2. JournalComplete'
    BY <2>1 DEF JournalComplete, Seen, NoRepeats
  <2>3. \A t \in TipIds : Surplus(t)' <= Surplus(t)
    BY <1>2, <2>1 DEF Surplus, Journalled
  <2>4. Mishaps' >= Mishaps
    BY <1>1, <2>1 DEF Mishaps
  <2> QED BY <1>0, <2>2, <2>3, <2>4, SurplusStaysBounded
<1>6. ASSUME NEW ok \in BOOLEAN, CreditTip(ok) PROVE JournalComplete' /\ SurplusBounded'
  <2>1. /\ tip \in TipIds /\ step = "credit" /\ ~Seen(tip) /\ ~already
        /\ tip \notin Range(tipsFile)
    BY <1>6, TipAssumption DEF CreditTip, TipsArrived, TipTypeOK, TipIds, JournalComplete, Seen
  <2>2. diskFaults' >= diskFaults /\ (~ok => diskFaults' > diskFaults)
    BY <1>6, <2>1, CreditEffect DEF CreditTip, TipTypeOK
  <2>3. /\ credits' = [credits EXCEPT ![tip] = @ + 1]
        /\ step' = IF ok \/ host = "directory" THEN "record" ELSE "idle"
        /\ UNCHANGED <<seqs, tipsFile, crashes, tip, already>>
    BY <1>6 DEF CreditTip
  <2>4. JournalComplete'
    BY <2>1, <2>3 DEF JournalComplete, Seen, NoRepeats
  <2>5. CASE step' = "record"
    <3>1. \A t \in TipIds : Surplus(t)' <= Surplus(t)
      BY <1>1, <1>2, <2>1, <2>3, <2>5 DEF Surplus, Journalled
    <3>2. Mishaps' >= Mishaps
      BY <1>0, <2>2, <2>3, MishapsGrow
    <3> QED BY <1>0, <2>4, <3>1, <3>2, SurplusStaysBounded
  <2>6. CASE step' = "idle"
    <3>1. \A t \in TipIds : Surplus(t)' <= Surplus(t) + (IF t = tip THEN 1 ELSE 0)
      BY <1>1, <1>2, <2>1, <2>3, <2>6 DEF Surplus, Journalled
    <3>2. Mishaps' >= Mishaps + 1
      BY <1>0, <2>2, <2>3, <2>6, MishapsGrow
    <3> QED BY <1>0, <2>1, <2>4, <3>1, <3>2, SurplusOfMishap
  <2> QED BY <2>3, <2>5, <2>6
<1>7. ASSUME NEW ok \in BOOLEAN, RecordTip(ok) PROVE JournalComplete' /\ SurplusBounded'
  <2>1. tip \in TipIds /\ tip \in 1..arrived /\ step = "record"
    BY <1>7, TipAssumption DEF RecordTip, TipsArrived, TipTypeOK, TipIds
  <2>2. UNCHANGED <<crashes, tip, already, credits>> /\ step' = "ack"
    BY <1>7 DEF RecordTip
  <2>3. CASE already
    <3>1. Seen(tip) /\ UNCHANGED <<seqs, tipsFile, diskFaults>>
      BY <1>7, <2>1, <2>3 DEF RecordTip, JournalComplete
    <3>2. JournalComplete'
      BY <2>2, <3>1 DEF JournalComplete, NoRepeats
    <3>3. \A t \in TipIds : Surplus(t)' <= Surplus(t)
      BY <1>2, <2>1, <2>2, <2>3, <3>1 DEF Surplus, Journalled
    <3>4. Mishaps' >= Mishaps
      BY <1>1, <2>2, <3>1 DEF Mishaps
    <3> QED BY <1>0, <3>2, <3>3, <3>4, SurplusStaysBounded
  <2>4. CASE ~already
    <3>1. ~Seen(tip) /\ Record(tip, ok)
      BY <1>7, <2>1, <2>4 DEF RecordTip, JournalComplete
    <3>2. /\ seqs' = Newest(Append(seqs, tip))
          /\ tipsFile' = IF ok THEN seqs' ELSE tipsFile
      BY <3>1 DEF Record
    <3>3. diskFaults' >= diskFaults /\ (~ok => diskFaults' > diskFaults)
      BY <2>1, <3>1, RecordEffect
    <3>4. /\ seqs' = Append(seqs, tip)
          /\ Range(seqs') = Range(seqs) \cup {tip} /\ NoRepeats(seqs')
      BY <1>1, <2>1, <3>1, <3>2, RoomForRecord
    <3>5. JournalComplete'
      BY <2>2, <3>2, <3>4 DEF JournalComplete
    <3>6. CASE ok
      <4>1. Range(tipsFile) \cup {tip} \subseteq Range(tipsFile')
        BY <3>2, <3>4, <3>6 DEF JournalComplete
      <4>2. \A t \in TipIds : Surplus(t)' <= Surplus(t)
        BY <1>2, <2>1, <2>2, <4>1 DEF Surplus, Journalled
      <4>3. Mishaps' >= Mishaps
        BY <1>0, <2>2, <3>3, MishapsGrow
      <4> QED BY <1>0, <3>5, <4>2, <4>3, SurplusStaysBounded
    <3>7. CASE ~ok
      <4>1. \A t \in TipIds : Surplus(t)' <= Surplus(t) + (IF t = tip THEN 1 ELSE 0)
        BY <1>2, <2>1, <2>2, <3>2, <3>7 DEF Surplus, Journalled
      <4>2. Mishaps' >= Mishaps + 1
        BY <1>0, <2>2, <3>3, <3>7, MishapsGrow
      <4> QED BY <1>0, <2>1, <3>5, <4>1, <4>2, SurplusOfMishap
    <3> QED BY <3>6, <3>7
  <2> QED BY <2>3, <2>4
<1>8. ASSUME NEW ok \in BOOLEAN, AckTip(ok) PROVE JournalComplete' /\ SurplusBounded'
  <2>1. /\ step = "ack" /\ step' = "idle"
        /\ UNCHANGED <<seqs, tipsFile, credits, crashes, diskFaults, tip, already>>
    BY <1>8 DEF AckTip
  <2>2. JournalComplete'
    BY <2>1 DEF JournalComplete, NoRepeats
  <2>3. \A t \in TipIds : Surplus(t)' <= Surplus(t)
    BY <1>2, <2>1 DEF Surplus, Journalled
  <2>4. Mishaps' >= Mishaps
    BY <1>1, <2>1 DEF Mishaps
  <2> QED BY <1>0, <2>2, <2>3, <2>4, SurplusStaysBounded
<1>9. CASE Crash
  <2>1. /\ crashes' = crashes + 1 /\ seqs' = tipsFile /\ step' = "idle"
        /\ UNCHANGED <<tip, already, tipsFile, credits, diskFaults>>
    BY <1>9 DEF Crash, OpenLedger
  <2>2. JournalComplete'
    BY <2>1 DEF JournalComplete, NoRepeats
  <2>3. Mishaps' >= Mishaps + 1
    BY <1>1, <2>1 DEF Mishaps
  <2>4. CASE tip \in TipIds
    <3>1. \A t \in TipIds : Surplus(t)' <= Surplus(t) + (IF t = tip THEN 1 ELSE 0)
      BY <1>2, <2>1 DEF Surplus, Journalled
    <3> QED BY <1>0, <2>2, <2>3, <2>4, <3>1, SurplusOfMishap
  <2>5. CASE tip \notin TipIds
    <3>1. \A t \in TipIds : Surplus(t)' <= Surplus(t)
      BY <1>2, <2>1, <2>5 DEF Surplus, Journalled
    <3>2. Mishaps' >= Mishaps
      BY <1>0, <2>3, MishapsNat
    <3> QED BY <1>0, <2>2, <3>1, <3>2, SurplusStaysBounded
  <2> QED BY <2>4, <2>5
<1> QED BY <1>4, <1>5, <1>6, <1>7, <1>8, <1>9 DEF Next, LoopStep

-----------------------------------------------------------------------------
(* The theorems.                                                           *)

LEMMA TipInvInit == Init => TipInv
<1> SUFFICES ASSUME Init PROVE TipInv
  OBVIOUS
<1>1. TipTypeOK /\ TipsArrived
  BY TypeInit
<1>2. Range(<<>>) = {} /\ 1..0 = {} /\ IsFiniteSet({}) /\ Cardinality({}) = 0
  BY FS_EmptySet DEF Range
<1>3. CreditsEarn
  BY DEF Init, CreditsEarn
<1>4. PastIsStored
  <2>1. \A p \in Earning : PastOf(p) = {} /\ ledgerFile[p] = 0 /\ balances[p] = 0
    BY <1>2, TipAssumption DEF Init, PastOf, Past, Earning
  <2>2. {} \in SUBSET (1..arrived) /\ \A p \in Earning : PastOf(p) \ {} = {}
    BY <2>1
  <2>3. Covered({}) BY <2>1, <2>2, SumEmpty DEF Covered
  <2>4. Cardinality({}) <= Losses BY <1>2 DEF Init, Losses
  <2> QED BY <2>2, <2>3, <2>4 DEF PastIsStored
<1>5. JournalComplete
  BY <1>2 DEF Init, JournalComplete, NoRepeats
<1>6. SurplusBounded
  <2>1. \A t \in TipIds : Surpluses[t] = 0
    BY <1>2 DEF Init, Surpluses, Surplus, Journalled
  <2>2. IsFiniteSet(TipIds)
    BY TipAssumption, FS_Interval DEF TipIds
  <2>3. SumFunctionOnSet(Surpluses, TipIds) = 0
    BY <2>1, <2>2, SumZero
  <2> QED BY <2>3 DEF Init, SurplusBounded
<1> QED BY <1>1, <1>3, <1>4, <1>5, <1>6 DEF TipInv

LEMMA TipInvStep == TipInv /\ [Next]_vars => TipInv'
<1> SUFFICES ASSUME TipInv, [Next]_vars PROVE TipInv'
  OBVIOUS
<1>1. TipTypeOK' /\ TipsArrived' /\ PastIsStored' /\ CreditsEarn'
  BY TypeStep, StoredStep, EarnStep DEF TipInv
<1>2. ASSUME Roomy' PROVE JournalComplete' /\ SurplusBounded'
  <2>1. Roomy
    BY <1>2, RoomyBefore DEF TipInv
  <2> QED BY <1>2, <2>1, RoomyStep DEF TipInv
<1> QED BY <1>1, <1>2 DEF TipInv

THEOREM TipInvCorrect == Spec => []TipInv
BY TipInvInit, TipInvStep, PTL DEF Spec

\* Every value of the loop, the journal and the ledger has its type: no
\* balance is negative, the journal never outgrows tipJournalKeep
\* (TipJournal.Record).
THEOREM TipTypeCorrect == Spec => []TipTypeOK
<1>1. TipInv => TipTypeOK
  BY DEF TipInv
<1> QED BY <1>1, TipInvCorrect, PTL

\* An acknowledged tip of an earning peer is in the ledger file, in both
\* hosts, at the directory but for one tip for each failed write (tipLoop,
\* Service.CreditTip).
THEOREM AckedIsCreditedCorrect == Spec => []AckedIsCredited
<1>1. TipInv => AckedIsCredited
  <2> SUFFICES ASSUME TipInv PROVE AckedIsCredited
    OBVIOUS
  <2>1. PICK lost \in SUBSET (1..arrived) : Cardinality(lost) <= Losses /\ Covered(lost)
    BY DEF TipInv, PastIsStored
  <2>2. ASSUME NEW p \in Earning
        PROVE  LET mine == {t \in 1..arrived : Payer[t] = p /\ t \notin unacked}
               IN  ledgerFile[p] >= SumFunctionOnSet(AtomsOf, mine \ lost)
    <3> DEFINE mine == {t \in 1..arrived : Payer[t] = p /\ t \notin unacked}
    <3>1. mine \ lost \in SUBSET (PastOf(p) \ lost)
      BY DEF PastOf, Past
    <3>2. PastOf(p) \ lost \in SUBSET TipIds
      BY <2>2, PastKnown DEF TipInv
    <3>3. mine \ lost \in SUBSET TipIds
      BY <3>1, <3>2
    <3> HIDE DEF mine
    <3>4. /\ SumFunctionOnSet(AtomsOf, mine \ lost) <= SumFunctionOnSet(AtomsOf, PastOf(p) \ lost)
          /\ SumFunctionOnSet(AtomsOf, mine \ lost) \in Nat
          /\ SumFunctionOnSet(AtomsOf, PastOf(p) \ lost) \in Nat
      BY <3>1, <3>2, <3>3, AtomsSum
    <3>5. ledgerFile[p] >= SumFunctionOnSet(AtomsOf, PastOf(p) \ lost) /\ ledgerFile[p] \in Nat
      BY <2>1, <2>2, TipAssumption DEF TipInv, Covered, TipTypeOK, LedgerTypeOK, Earning
    <3>6. ledgerFile[p] >= SumFunctionOnSet(AtomsOf, mine \ lost)
      BY <3>4, <3>5
    <3> QED BY <3>6 DEF mine
  <2> QED BY <2>1, <2>2 DEF AckedIsCredited, AtomsOf, Losses
<1> QED BY <1>1, TipInvCorrect, PTL

\* A crash or a failed write makes at most one tip be credited once more, while
\* the journal has room (the window between CreditTip and Record, the bot's
\* credit that only reached memory, the record that only reached memory).
THEOREM OverCreditBoundedCorrect == Spec => []OverCreditBounded
<1>1. TipInv => OverCreditBounded
  <2> SUFFICES ASSUME TipInv, arrived <= Keep
               PROVE  SumFunctionOnSet([t \in TipIds |-> credits[t] - 1],
                                       {t \in TipIds : credits[t] > 1}) <= crashes + diskFaults
    BY DEF OverCreditBounded
  <2> DEFINE extra == [t \in TipIds |-> credits[t] - 1]
             twice == {t \in TipIds : credits[t] > 1}
  <2>1. \A t \in TipIds : Surplus(t) \in Nat /\ Surpluses[t] = Surplus(t) /\ credits[t] \in Nat
    BY SurplusNat DEF TipInv, TipTypeOK
  <2>2. \A t \in twice : extra[t] \in Int /\ Surpluses[t] \in Int /\ extra[t] <= Surpluses[t]
    BY <2>1 DEF Surplus
  <2>3. IsFiniteSet(TipIds) /\ twice \in SUBSET TipIds
    BY TipAssumption, FS_Interval DEF TipIds
  <2>4. \A t \in TipIds : Surpluses[t] \in Nat
    BY <2>1
  <2> HIDE DEF extra, twice
  <2>5. IsFiniteSet(twice)
    BY <2>3, FS_Subset
  <2>6. SumFunctionOnSet(extra, twice) <= SumFunctionOnSet(Surpluses, twice)
    BY <2>2, <2>5, SumMonotone
  <2>7. SumFunctionOnSet(Surpluses, twice) <= SumFunctionOnSet(Surpluses, TipIds)
    BY <2>3, <2>4, SumSubset
  <2>8. /\ SumFunctionOnSet(extra, twice) \in Int
        /\ SumFunctionOnSet(Surpluses, twice) \in Int
    BY <2>2, <2>5, SumInt
  <2>9. SumFunctionOnSet(Surpluses, TipIds) \in Nat
    BY <2>3, <2>4, SumNat
  <2>10. SumFunctionOnSet(Surpluses, TipIds) <= crashes + diskFaults
         /\ crashes + diskFaults \in Nat
    BY MishapsNat DEF TipInv, Roomy, SurplusBounded, Mishaps
  <2>11. SumFunctionOnSet(extra, twice) <= crashes + diskFaults
    BY <2>6, <2>7, <2>8, <2>9, <2>10
  <2> QED BY <2>11 DEF extra, twice
<1> QED BY <1>1, TipInvCorrect, PTL
=============================================================================
