---------------------------- MODULE HarnessProofs ----------------------------
(***************************************************************************)
(* Proofs about Harness for every set of deliveries, keys, callers, prices *)
(* and bounds: its invariants, and that it implements PaidCall.  Then the  *)
(* bridge's passthrough over the harness (Relay), for any number of calls, *)
(* sessions, polls, transport failures and crashes: every step is one of   *)
(* the harness or leaves it alone, so what is proved of the harness holds  *)
(* there too; and since all attempts of a call carry one key and no replay *)
(* window ends while it lasts, the call is charged once at most and its    *)
(* answer agrees with its bill.                                            *)
(***************************************************************************)
EXTENDS Relay, SumTheorems

(***************************************************************************)
(* Type correctness.                                                       *)
(***************************************************************************)
\* A freshly opened, empty harness (openJournal) has its type.
LEMMA TypeInit == Init => TypeOK
BY LedgerAssumption, HarnessAssumption
   DEF Init, TypeOK, LedgerTypeOK, Steps, Outcomes, Replies, Record, NewRecord,
       Entry, NoEntry

\* The journal operations keep the journal's and the ledger's types.
LEMMA WriteType ==
    ASSUME TypeOK, NEW ok, Write(ok)
    PROVE  diskFaults' \in 0..MaxDiskFaults
BY LedgerAssumption DEF Write, TypeOK, LedgerTypeOK

\* Writing a well-typed journal (journal.go persistLocked) keeps both types.
LEMMA PersistJournalType ==
    ASSUME TypeOK, NEW j \in [Keys -> Entry], NEW ok, persistJournal(j, ok)
    PROVE  /\ LedgerTypeOK'
           /\ journal' \in [Keys -> Entry]
           /\ callsFile' \in [Keys -> Entry]
BY WriteType DEF persistJournal, TypeOK, LedgerTypeOK

\* Dropping expired entries (gcLocked) keeps the journal's type.
LEMMA GcType ==
    ASSUME TypeOK, NEW ok, gc(ok)
    PROVE  /\ LedgerTypeOK'
           /\ journal' \in [Keys -> Entry]
           /\ callsFile' \in [Keys -> Entry]
<1> DEFINE kept == [k \in Keys |->
                     IF EntryExpired(journal[k]) THEN NoEntry ELSE journal[k]]
<1>1. kept \in [Keys -> Entry]
  BY DEF TypeOK, Entry, NoEntry, Outcomes
<1>2. CASE kept = journal
  BY <1>2 DEF gc, TypeOK, LedgerTypeOK, ledgerVars, jVars
<1>3. CASE kept # journal
  <2>1. persistJournal(kept, ok)
    BY <1>3 DEF gc
  <2> HIDE DEF kept
  <2> QED BY <1>1, <2>1, PersistJournalType
<1> QED BY <1>2, <1>3

\* Completing an entry (callJournal.complete) keeps the journal's type.
LEMMA CompleteType ==
    ASSUME TypeOK, NEW k \in Keys, NEW o \in Outcomes, NEW kept, NEW x \in Nat,
           NEW ok, complete(k, o, kept, x, ok)
    PROVE  /\ LedgerTypeOK'
           /\ journal' \in [Keys -> Entry]
           /\ callsFile' \in [Keys -> Entry]
<1> DEFINE o2 == IF kept THEN o ELSE "notRetained"
           j == [journal EXCEPT ![k] = Done(journal[k], o2, x)]
<1>1. j \in [Keys -> Entry]
  <2>1. Done(journal[k], o2, x) \in Entry
    BY DEF Done, TypeOK, Entry, Outcomes
  <2> QED BY <2>1 DEF TypeOK
<1>2. CASE journal[k] = NoEntry
  BY <1>2 DEF complete, TypeOK, LedgerTypeOK, ledgerVars, jVars
<1>3. CASE journal[k] # NoEntry
  <2>1. persistJournal(j, ok)
    BY <1>3 DEF complete
  <2> HIDE DEF j
  <2> QED BY <1>1, <2>1, PersistJournalType
<1> QED BY <1>2, <1>3

\* Crediting never makes a balance negative, written or not (ledger.go Credit).
LEMMA CreditType ==
    ASSUME TypeOK, NEW uid, NEW atoms \in Nat, NEW ok, Credit(uid, atoms, ok)
    PROVE  LedgerTypeOK'
BY WriteType DEF Credit, persistLocked, TypeOK, LedgerTypeOK, ledgerVars

\* Debit refuses what the balance does not cover, so no balance goes negative.
LEMMA DebitType ==
    ASSUME TypeOK, NEW uid \in Peers, NEW atoms \in Nat, NEW ok,
           Debit(uid, atoms, ok)
    PROVE  LedgerTypeOK'
BY WriteType DEF Debit, Insufficient, persistLocked, TypeOK, LedgerTypeOK

\* Every step of the harness keeps the types, one step per action.
LEMMA TypeStep == TypeOK /\ [Next]_vars => TypeOK'
<1> SUFFICES ASSUME TypeOK, [Next]_vars PROVE TypeOK'
  OBVIOUS
<1> USE HarnessAssumption DEF procVars, callVars, claimVars, openVars, histVars
<1>1. ASSUME NEW c \in Calls, ArriveUnkeyed(c) PROVE TypeOK'
  BY <1>1 DEF ArriveUnkeyed, Goto, TypeOK, LedgerTypeOK, ledgerVars, jVars, Steps
<1>2. ASSUME NEW c \in Calls, NEW ok \in BOOLEAN, claimCall(c, ok) PROVE TypeOK'
  <2>1. Claims \in [Keys -> Calls \cup {NoCall}]
    BY DEF Claims, TypeOK
  <2>2. KeyOf[c] \in Keys
    BY <1>2 DEF claimCall, Keyed
  <2>3. LedgerTypeOK' /\ journal' \in [Keys -> Entry] /\ callsFile' \in [Keys -> Entry]
    BY <1>2, GcType DEF claimCall
  <2>4. CASE Claims[KeyOf[c]] = NoCall
    <3>1. NewRecord \in Record
      BY DEF NewRecord, Record, Outcomes
    <3> QED BY <1>2, <2>1, <2>2, <2>3, <2>4, <3>1 DEF claimCall, Goto, TypeOK, Steps
  <2>5. CASE Claims[KeyOf[c]] # NoCall
    BY <1>2, <2>1, <2>2, <2>3, <2>5 DEF claimCall, Goto, TypeOK, Steps
  <2> QED BY <2>4, <2>5
<1>3. ASSUME NEW c \in Calls, AnswerDuplicate(c) PROVE TypeOK'
  <2>1. rec[waits[c]] \in Record
    BY <1>3 DEF AnswerDuplicate, TypeOK
  <2>2. PICK r \in Replies : Return(c, r)
    BY <1>3, <2>1 DEF AnswerDuplicate, Record, Replies, Outcomes
  <2> QED BY <1>3, <2>2
          DEF AnswerDuplicate, Return, Goto, TypeOK, LedgerTypeOK, ledgerVars,
              jVars, Steps
<1>4. ASSUME NEW c \in Calls, CancelDuplicate(c) PROVE TypeOK'
  BY <1>4 DEF CancelDuplicate, Return, Goto, TypeOK, LedgerTypeOK, ledgerVars,
              jVars, Steps, Replies
<1>5. ASSUME NEW c \in Calls, NEW r \in Replies, refuse(c, r)
      PROVE  /\ pc' \in [Calls -> Steps]
             /\ \A d \in Calls : pc'[d] = "wait" => pc[d] = "wait"
             /\ reply' \in [Calls -> Replies]
             /\ calls' \in [Keys -> Calls \cup {NoCall}]
             /\ rec' \in [Calls -> Record]
  <2>1. pc' = [pc EXCEPT ![c] = "done"] /\ reply' = [reply EXCEPT ![c] = r]
    BY <1>5 DEF refuse, Return, Goto
  <2>2. calls' \in [Keys -> Calls \cup {NoCall}]
    BY <1>5 DEF refuse, releaseCall, TypeOK
  <2>3. rec' \in [Calls -> Record]
    <3>1. Abandoned \in Record
      BY DEF Abandoned, Record, Outcomes
    <3>2. rec' = [rec EXCEPT ![c] = Abandoned] \/ rec' = rec
      BY <1>5 DEF refuse, releaseCall
    <3> QED BY <3>1, <3>2 DEF TypeOK
  <2> QED BY <2>1, <2>2, <2>3 DEF TypeOK, Steps
<1>6. ASSUME NEW c \in Calls, RefuseEarly(c) PROVE TypeOK'
  <2>1. refuse(c, "refused") /\ "refused" \in Replies
    BY <1>6 DEF RefuseEarly, Replies
  <2> QED BY <1>5, <1>6, <2>1 DEF RefuseEarly, TypeOK, LedgerTypeOK, ledgerVars, jVars
<1>7. ASSUME NEW c \in Calls, NEW atoms \in Prices, Price(c, atoms) PROVE TypeOK'
  BY <1>7 DEF Price, Goto, TypeOK, LedgerTypeOK, ledgerVars, jVars, Steps
<1>8. ASSUME NEW c \in Calls, RefuseUnpaid(c) PROVE TypeOK'
  <2>1. refuse(c, "unpaid") /\ "unpaid" \in Replies
    BY <1>8 DEF RefuseUnpaid, Replies
  <2> QED BY <1>5, <1>8, <2>1 DEF RefuseUnpaid, TypeOK, LedgerTypeOK, ledgerVars, jVars
<1>9. ASSUME NEW c \in Calls, NEW ok \in BOOLEAN, charge(c, ok) PROVE TypeOK'
  <2>1. LedgerTypeOK'
    BY <1>9, DebitType DEF charge, TypeOK
  <2>2. CASE ok
    BY <1>9, <2>1, <2>2 DEF charge, Goto, TypeOK, jVars, Steps
  <2>3. CASE ~ok
    <3>1. refuse(c, "unpaid") /\ "unpaid" \in Replies
      BY <1>9, <2>3 DEF charge, Replies
    <3> QED BY <1>5, <1>9, <2>1, <2>3, <3>1 DEF charge, TypeOK, jVars
  <2> QED BY <2>2, <2>3
<1>10. ASSUME NEW c \in Calls, NEW ok \in BOOLEAN, journalCharged(c, ok) PROVE TypeOK'
  <2> DEFINE j == [journal EXCEPT ![KeyOf[c]] = Charge(c)]
  <2>1. j \in [Keys -> Entry]
    BY DEF TypeOK, Charge, Entry, Outcomes
  <2>2. persistJournal(j, ok)
    BY <1>10 DEF journalCharged
  <2> HIDE DEF j
  <2>3. LedgerTypeOK' /\ journal' \in [Keys -> Entry] /\ callsFile' \in [Keys -> Entry]
    BY <2>1, <2>2, PersistJournalType
  <2> QED BY <1>10, <2>3 DEF journalCharged, Goto, TypeOK, Steps
<1>11. ASSUME NEW c \in Calls, NEW o \in {"ok", "err"}, Run(c, o) PROVE TypeOK'
  BY <1>11 DEF Run, Goto, TypeOK, LedgerTypeOK, ledgerVars, jVars, Steps, Outcomes
<1>12. ASSUME NEW c \in Calls, NEW ok \in BOOLEAN, RefundFailure(c, ok) PROVE TypeOK'
  <2>1. LedgerTypeOK'
    BY <1>12, CreditType DEF RefundFailure, TypeOK
  <2> QED BY <1>12, <2>1 DEF RefundFailure, Goto, TypeOK, jVars, Steps
<1>13. ASSUME NEW c \in Calls, NEW kept \in BOOLEAN, NEW ok \in BOOLEAN,
              completeCall(c, kept, ok)
       PROVE  TypeOK'
  <2>1. /\ pc' \in [Calls -> Steps]
        /\ \A d \in Calls : pc'[d] = "wait" => pc[d] = "wait"
        /\ reply' \in [Calls -> Replies]
    BY <1>13 DEF completeCall, Return, Goto, TypeOK, Steps, Replies
  <2>2. now + CallKeyTTL \in Nat /\ result[c] \in Outcomes
    BY DEF TypeOK
  <2>3. LedgerTypeOK' /\ journal' \in [Keys -> Entry] /\ callsFile' \in [Keys -> Entry]
    <3>1. CASE Keyed(c)
      BY <1>13, <2>2, <3>1, CompleteType DEF completeCall, Keyed
    <3>2. CASE ~Keyed(c)
      BY <1>13, <3>2 DEF completeCall, TypeOK, LedgerTypeOK, ledgerVars, jVars
    <3> QED BY <3>1, <3>2
  <2>4. rec' \in [Calls -> Record]
    <3>1. [closed |-> TRUE, outcome |-> result[c], expires |-> now + CallKeyTTL]
            \in Record
      BY <2>2 DEF Record
    <3> QED BY <1>13, <3>1 DEF completeCall, TypeOK
  <2> QED BY <1>13, <2>1, <2>3, <2>4 DEF completeCall, TypeOK
<1>14. ASSUME NEW p \in Peers, NEW atoms \in Tips, NEW ok \in BOOLEAN,
              TopUp(p, atoms, ok)
       PROVE  TypeOK'
  <2>1. LedgerTypeOK'
    BY <1>14, CreditType DEF TopUp
  <2> QED BY <1>14, <2>1 DEF TopUp, TypeOK, jVars
<1>15. ASSUME Tick PROVE TypeOK'
  BY <1>15 DEF Tick, TypeOK, LedgerTypeOK, ledgerVars, jVars
<1>16. ASSUME Crash PROVE TypeOK'
  BY <1>16 DEF Crash, TypeOK, LedgerTypeOK, ledgerVars, jVars
<1>17. ASSUME Restart PROVE TypeOK'
  BY <1>17 DEF Restart, OpenLedger, interrupted, TypeOK, LedgerTypeOK
<1>18. ASSUME NEW k \in Keys, NEW ok \in BOOLEAN, RefundInterrupted(k, ok) PROVE TypeOK'
  <2>1. journal[k].atoms \in Nat
    BY DEF TypeOK, Entry
  <2>2. LedgerTypeOK'
    BY <1>18, <2>1, CreditType DEF RefundInterrupted
  <2>3. owed' \subseteq Keys /\ credited' \in Keys \cup {NoKey}
    BY <1>18 DEF RefundInterrupted, TypeOK
  <2>3a. refunds' \in [Calls -> Nat]
    <3> DEFINE o == journal[k].owner
    <3>1. refunds' = [refunds EXCEPT ![o] = @ + 1]
      BY <1>18 DEF RefundInterrupted
    <3>2. CASE o \in Calls
      BY <3>1, <3>2 DEF TypeOK
    <3>3. CASE o \notin Calls
      <4>1. refunds' = refunds
        BY <3>1, <3>3 DEF TypeOK
      <4> QED BY <4>1 DEF TypeOK
    <3> QED BY <3>2, <3>3
  <2>4. UNCHANGED <<procVars, callVars, dead, claimVars, jVars, deposited, charged>>
    BY <1>18 DEF RefundInterrupted
  <2> QED BY <2>2, <2>3, <2>3a, <2>4 DEF TypeOK, jVars
<1>19. ASSUME NEW ok \in BOOLEAN, RemoveInterrupted(ok) PROVE TypeOK'
  <2> DEFINE j == [journal EXCEPT ![credited] = NoEntry]
  <2>1. j \in [Keys -> Entry]
    BY DEF TypeOK, NoEntry, Entry, Outcomes
  <2>2. persistJournal(j, ok)
    BY <1>19 DEF RemoveInterrupted
  <2> HIDE DEF j
  <2>3. LedgerTypeOK' /\ journal' \in [Keys -> Entry] /\ callsFile' \in [Keys -> Entry]
    BY <2>1, <2>2, PersistJournalType
  <2> QED BY <1>19, <2>3 DEF RemoveInterrupted, TypeOK
<1>20. ASSUME NEW ok \in BOOLEAN, Serve(ok) PROVE TypeOK'
  <2>1. LedgerTypeOK' /\ journal' \in [Keys -> Entry] /\ callsFile' \in [Keys -> Entry]
    BY <1>20, GcType DEF Serve
  <2>2. calls' \in [Keys -> Calls \cup {NoCall}]
    BY <1>20 DEF Serve, TypeOK, Entry
  <2>3. rec' \in [Calls -> Record]
    <3>1. ASSUME NEW c \in Calls PROVE rec'[c] \in Record
      <4>1. CASE Keyed(c)
        <5>1. journal[KeyOf[c]] \in Entry
          BY <4>1 DEF TypeOK, Keyed
        <5> QED BY <1>20, <5>1 DEF Serve, TypeOK, Entry, Record
      <4>2. CASE ~Keyed(c)
        BY <1>20, <4>2 DEF Serve, TypeOK
      <4> QED BY <4>1, <4>2
    <3> QED BY <1>20, <3>1 DEF Serve
  <2> QED BY <1>20, <2>1, <2>2, <2>3 DEF Serve, TypeOK
<1>21. CASE UNCHANGED vars
  BY <1>21 DEF vars, TypeOK, LedgerTypeOK, ledgerVars, jVars
<1> QED
  BY <1>1, <1>2, <1>3, <1>4, <1>6, <1>7, <1>8, <1>9, <1>10, <1>11, <1>12,
     <1>13, <1>14, <1>15, <1>16, <1>17, <1>18, <1>19, <1>20, <1>21
     DEF Next, HandlerStep, RecoveryStep

\* The harness's state always has its type; in particular no interleaving of
\* debits, refunds and restarts makes a balance negative.
THEOREM TypeCorrect == Spec => []TypeOK
BY TypeInit, TypeStep, PTL DEF Spec

(***************************************************************************)
(* The inductive invariant.  Claims: an execution in progress holds the    *)
(* claim of its key.  Books: while no write has failed, the journal file   *)
(* tells exactly which charges are open and which outcomes are final.      *)
(***************************************************************************)
InFlight == {"run", "refund", "finish"}

ClaimInv ==
    /\ \A c \in Calls : c \in dead => pc[c] \notin {"new", "done"}
    /\ \A c \in Calls :
          Executing(c) => /\ phase = "up"
                          /\ Keyed(c) => /\ calls[KeyOf[c]] = c
                                         /\ rec[c].outcome = "none"

\* An entry's owner, when it has one, made it under its own key.
EntryOf(k, e) == IF e.owner = NoCall THEN e = NoEntry ELSE KeyOf[e.owner] = k

Open(e) == e.owner # NoCall /\ ~e.done

\* What the journal file says about open charges.
OpenInv ==
    /\ phase # "down" => journal = callsFile
    /\ \A k \in Keys : EntryOf(k, callsFile[k])
    /\ \A k \in Keys :
          Open(callsFile[k]) =>
              /\ pc[callsFile[k].owner] \in InFlight
              /\ phase = "up" => callsFile[k].owner \notin dead
    /\ \A c \in Calls :
          Executing(c) /\ Keyed(c) /\ c \in charged /\ pc[c] \in InFlight =>
              callsFile[KeyOf[c]].owner = c /\ ~callsFile[KeyOf[c]].done
    /\ \A c \in Calls : pc[c] \in {"new", "wait", "admit", "debit"} => c \notin charged

\* What it says about settled calls inside their window.
FinalInv ==
    \A c \in Calls :
        Settled(c) /\ now <= rec[c].expires =>
            /\ callsFile[KeyOf[c]].owner = c
            /\ callsFile[KeyOf[c]].done
            /\ callsFile[KeyOf[c]].expires = rec[c].expires
            /\ phase = "up" => calls[KeyOf[c]] = c

\* Where the reconciliation stands.
RecoveryInv ==
    /\ \A k \in owed : phase = "recovering" /\ Open(callsFile[k])
    /\ \A k \in Keys : phase = "recovering" /\ Open(callsFile[k]) => k \in owed
    /\ credited # NoKey => /\ credited \in owed
                           /\ refunds[callsFile[credited].owner] >= 1
    /\ \A c \in Calls :
          c \in dead /\ Keyed(c) /\ c \in charged /\ pc[c] \in InFlight =>
              \/ refunds[c] >= 1
              \/ /\ phase # "up"
                 /\ callsFile[KeyOf[c]].owner = c
                 /\ ~callsFile[KeyOf[c]].done

\* A living execution that succeeded was not refunded.
RefundInv ==
    \A c \in Calls :
        c \notin dead =>
            /\ pc[c] \notin {"finish", "done"} => refunds[c] = 0 /\ result[c] # "ok"
            /\ result[c] = "ok" => refunds[c] = 0
            /\ Settled(c) => reply[c] = result[c]

Books == OpenInv /\ FinalInv /\ RecoveryInv /\ RefundInv

IInv == TypeOK /\ ClaimInv /\ (diskFaults = 0 => Books)

\* Before the first delivery nothing is claimed (calls is an empty map).
LEMMA ClaimInit == Init => ClaimInv
BY DEF Init, ClaimInv, Executing

\* Every step keeps a key in at most one execution (claimCall, releaseCall).
LEMMA ClaimStep == TypeOK /\ ClaimInv /\ [Next]_vars => ClaimInv'
<1> SUFFICES ASSUME TypeOK, ClaimInv, [Next]_vars PROVE ClaimInv'
  OBVIOUS
<1> USE HarnessAssumption DEF procVars, callVars, claimVars, openVars, histVars
<1>1. ASSUME NEW c \in Calls, ArriveUnkeyed(c) PROVE ClaimInv'
  BY <1>1 DEF ArriveUnkeyed, Goto, ClaimInv, Executing, TypeOK, Keyed
<1>2. ASSUME NEW c \in Calls, NEW ok \in BOOLEAN, claimCall(c, ok) PROVE ClaimInv'
  <2>1. \A d \in Calls : Executing(d) /\ Keyed(d) => Claims[KeyOf[d]] = d
    BY DEF ClaimInv, Claims, RecordExpired, Keyed
  <2>2. Claims \in [Keys -> Calls \cup {NoCall}]
    BY DEF Claims, TypeOK
  <2>3. CASE Claims[KeyOf[c]] = NoCall
    BY <1>2, <2>1, <2>2, <2>3
       DEF claimCall, Goto, ClaimInv, Executing, TypeOK, Keyed, NewRecord
  <2>4. CASE Claims[KeyOf[c]] # NoCall
    BY <1>2, <2>1, <2>2, <2>4 DEF claimCall, Goto, ClaimInv, Executing, TypeOK, Keyed
  <2> QED BY <2>3, <2>4
<1>3. ASSUME NEW c \in Calls, AnswerDuplicate(c) PROVE ClaimInv'
  BY <1>3 DEF AnswerDuplicate, Return, Goto, ClaimInv, Executing, TypeOK, Keyed
<1>4. ASSUME NEW c \in Calls, CancelDuplicate(c) PROVE ClaimInv'
  BY <1>4 DEF CancelDuplicate, Return, Goto, ClaimInv, Executing, TypeOK, Keyed
<1>5. ASSUME NEW c \in Calls, NEW r, Executing(c), refuse(c, r),
             UNCHANGED <<phase, dead>>
      PROVE  ClaimInv'
  <2>1. pc' = [pc EXCEPT ![c] = "done"]
    BY <1>5 DEF refuse, Return, Goto
  <2>2. CASE Keyed(c)
    BY <1>5, <2>1, <2>2 DEF refuse, releaseCall, ClaimInv, Executing, TypeOK, Keyed
  <2>3. CASE ~Keyed(c)
    BY <1>5, <2>1, <2>3 DEF refuse, releaseCall, ClaimInv, Executing, TypeOK, Keyed
  <2> QED BY <2>2, <2>3
<1>6. ASSUME NEW c \in Calls, RefuseEarly(c) PROVE ClaimInv'
  BY <1>5, <1>6 DEF RefuseEarly
<1>7. ASSUME NEW c \in Calls, NEW atoms \in Prices, Price(c, atoms) PROVE ClaimInv'
  BY <1>7 DEF Price, Goto, ClaimInv, Executing, TypeOK, Keyed
<1>8. ASSUME NEW c \in Calls, RefuseUnpaid(c) PROVE ClaimInv'
  BY <1>5, <1>8 DEF RefuseUnpaid
<1>9. ASSUME NEW c \in Calls, NEW ok \in BOOLEAN, charge(c, ok) PROVE ClaimInv'
  <2>1. CASE ok
    BY <1>9, <2>1 DEF charge, Goto, ClaimInv, Executing, TypeOK, Keyed
  <2>2. CASE ~ok
    BY <1>5, <1>9, <2>2 DEF charge
  <2> QED BY <2>1, <2>2
<1>10. ASSUME NEW c \in Calls, NEW ok \in BOOLEAN, journalCharged(c, ok) PROVE ClaimInv'
  BY <1>10 DEF journalCharged, Goto, ClaimInv, Executing, TypeOK, Keyed
<1>11. ASSUME NEW c \in Calls, NEW o \in {"ok", "err"}, Run(c, o) PROVE ClaimInv'
  BY <1>11 DEF Run, Goto, ClaimInv, Executing, TypeOK, Keyed
<1>12. ASSUME NEW c \in Calls, NEW ok \in BOOLEAN, RefundFailure(c, ok) PROVE ClaimInv'
  BY <1>12 DEF RefundFailure, Goto, ClaimInv, Executing, TypeOK, Keyed
<1>13. ASSUME NEW c \in Calls, NEW kept \in BOOLEAN, NEW ok \in BOOLEAN,
              completeCall(c, kept, ok)
       PROVE  ClaimInv'
  <2>1. \A d \in Calls \ {c} : rec'[d] = rec[d]
    BY <1>13 DEF completeCall, TypeOK
  <2>2. pc' = [pc EXCEPT ![c] = "done"] /\ UNCHANGED <<phase, calls, dead>>
    BY <1>13 DEF completeCall, Return, Goto
  <2>3. Executing(c)
    BY <1>13 DEF completeCall
  <2> QED BY <2>1, <2>2, <2>3 DEF ClaimInv, Executing, TypeOK, Keyed
<1>14. ASSUME NEW p \in Peers, NEW atoms \in Tips, NEW ok \in BOOLEAN,
              TopUp(p, atoms, ok)
       PROVE  ClaimInv'
  BY <1>14 DEF TopUp, ClaimInv, Executing, Keyed
<1>15. ASSUME Tick PROVE ClaimInv'
  BY <1>15 DEF Tick, ClaimInv, Executing, Keyed
<1>16. ASSUME Crash PROVE ClaimInv'
  BY <1>16 DEF Crash, ClaimInv, Executing, TypeOK, Keyed
<1>17. ASSUME Restart PROVE ClaimInv'
  BY <1>17 DEF Restart, ClaimInv, Executing, Keyed
<1>18. ASSUME NEW k \in Keys, NEW ok \in BOOLEAN, RefundInterrupted(k, ok) PROVE ClaimInv'
  BY <1>18 DEF RefundInterrupted, ClaimInv, Executing, Keyed
<1>19. ASSUME NEW ok \in BOOLEAN, RemoveInterrupted(ok) PROVE ClaimInv'
  BY <1>19 DEF RemoveInterrupted, ClaimInv, Executing, Keyed
<1>20. ASSUME NEW ok \in BOOLEAN, Serve(ok) PROVE ClaimInv'
  BY <1>20 DEF Serve, ClaimInv, Executing, Keyed
<1>21. CASE UNCHANGED vars
  BY <1>21 DEF vars, ClaimInv, Executing, Keyed
<1> QED
  BY <1>1, <1>2, <1>3, <1>4, <1>6, <1>7, <1>8, <1>9, <1>10, <1>11, <1>12,
     <1>13, <1>14, <1>15, <1>16, <1>17, <1>18, <1>19, <1>20, <1>21
     DEF Next, HandlerStep, RecoveryStep

\* At most one execution per key is in progress, for every number of
\* deliveries, callers, crashes and failing writes.
THEOREM SingleFlightCorrect == Spec => []SingleFlight
<1>1. ClaimInv => SingleFlight
  BY DEF ClaimInv, SingleFlight, Keyed
<1> QED BY <1>1, ClaimInit, ClaimStep, TypeCorrect, PTL DEF Spec

(***************************************************************************)
(* The books stay right while no write has failed.                         *)
(***************************************************************************)
\* While no write has failed the journal and its file are the same (persistLocked).
LEMMA PersistEffect ==
    ASSUME TypeOK, NEW j, NEW ok \in BOOLEAN, persistJournal(j, ok),
           diskFaults' = 0
    PROVE  diskFaults = 0 /\ journal' = j /\ callsFile' = j
BY DEF persistJournal, Write, TypeOK, LedgerTypeOK

\* What gcLocked leaves in memory it also leaves in the file.
LEMMA GcEffect ==
    ASSUME TypeOK, NEW ok \in BOOLEAN, gc(ok), diskFaults' = 0,
           journal = callsFile
    PROVE  /\ diskFaults = 0
           /\ journal' = callsFile'
           /\ \A k \in Keys :
                 callsFile'[k] = IF EntryExpired(callsFile[k]) THEN NoEntry
                                 ELSE callsFile[k]
<1> DEFINE kept == [k \in Keys |->
                     IF EntryExpired(journal[k]) THEN NoEntry ELSE journal[k]]
<1>1. CASE kept = journal
  BY <1>1 DEF gc, ledgerVars, jVars
<1>2. CASE kept # journal
  <2>1. persistJournal(kept, ok)
    BY <1>2 DEF gc
  <2>2. diskFaults = 0 /\ journal' = kept /\ callsFile' = kept
    <3> HIDE DEF kept
    <3> QED BY <2>1, PersistEffect
  <2> QED BY <2>2
<1> QED BY <1>1, <1>2

\* complete marks the entry done in memory and in the file, owner unchanged.
LEMMA CompleteEffect ==
    ASSUME TypeOK, NEW k \in Keys, NEW o, NEW kept \in BOOLEAN, NEW x,
           NEW ok \in BOOLEAN, complete(k, o, kept, x, ok), diskFaults' = 0,
           journal = callsFile
    PROVE  /\ diskFaults = 0
           /\ journal' = callsFile'
           /\ \A i \in Keys \ {k} : callsFile'[i] = callsFile[i]
           /\ callsFile[k] = NoEntry => callsFile'[k] = NoEntry
           /\ callsFile[k] # NoEntry => /\ callsFile'[k].owner = callsFile[k].owner
                                        /\ callsFile'[k].done
                                        /\ callsFile'[k].expires = x
                                        /\ callsFile'[k].outcome \in {o, "notRetained"}
<1>1. CASE journal[k] = NoEntry
  BY <1>1 DEF complete, ledgerVars, jVars
<1>2. CASE journal[k] # NoEntry
  <2> DEFINE e == Done(journal[k], IF kept THEN o ELSE "notRetained", x)
             j == [journal EXCEPT ![k] = e]
  <2>1. persistJournal(j, ok)
    BY <1>2 DEF complete
  <2>2. diskFaults = 0 /\ journal' = j /\ callsFile' = j
    <3> HIDE DEF j
    <3> QED BY <2>1, PersistEffect
  <2>3. /\ e.owner = journal[k].owner /\ e.done /\ e.expires = x
        /\ e.outcome \in {o, "notRetained"}
    BY DEF Done
  <2> HIDE DEF e
  <2> QED BY <1>2, <2>2, <2>3 DEF TypeOK
<1> QED BY <1>1, <1>2

\* While no write has failed Credit and Debit succeed (ledger.go).
LEMMA LedgerEffect ==
    ASSUME TypeOK, NEW uid, NEW atoms, NEW ok \in BOOLEAN, diskFaults' = 0,
           Credit(uid, atoms, ok) \/ Debit(uid, atoms, ok)
    PROVE  diskFaults = 0 /\ ok
BY DEF Credit, Debit, persistLocked, Write, TypeOK, LedgerTypeOK, ledgerVars

\* The books of an empty journal and ledger are right.
LEMMA BooksInit == Init => Books
BY HarnessAssumption
   DEF Init, Books, OpenInv, FinalInv, RecoveryInv, RefundInv, Executing, Settled,
       EntryOf, Open, InFlight, NoEntry

\* Every step keeps the books right while no write has failed, one step per action.
LEMMA BooksStep == IInv /\ [Next]_vars /\ diskFaults' = 0 => Books'
<1> SUFFICES ASSUME IInv, [Next]_vars, diskFaults' = 0 PROVE Books'
  OBVIOUS
<1>0. TypeOK /\ ClaimInv /\ (diskFaults = 0 => Books) /\ TypeOK'
  BY TypeStep DEF IInv
<1> USE HarnessAssumption DEF procVars, callVars, claimVars, openVars, histVars
<1>1. ASSUME NEW c \in Calls, ArriveUnkeyed(c) PROVE Books'
  <2>1. diskFaults = 0
    BY <1>1 DEF ArriveUnkeyed, ledgerVars
  <2>2. Books
    BY <1>0, <2>1
  <2>3. OpenInv'
    BY <1>0, <1>1, <2>2
       DEF ArriveUnkeyed, Goto, jVars, Books, OpenInv, ClaimInv, Executing, Open,
           EntryOf, InFlight, TypeOK, Keyed
  <2>4. FinalInv'
    BY <1>0, <1>1, <2>2
       DEF ArriveUnkeyed, Goto, jVars, Books, FinalInv, ClaimInv, Executing, OpenInv,
           Settled, TypeOK, Keyed
  <2>5. RecoveryInv'
    BY <1>0, <1>1, <2>2
       DEF ArriveUnkeyed, Goto, jVars, Books, RecoveryInv, OpenInv, ClaimInv, Executing,
           Open, EntryOf, InFlight, TypeOK, Keyed
  <2>6. RefundInv'
    BY <1>0, <1>1, <2>2
       DEF ArriveUnkeyed, Goto, Books, RefundInv, OpenInv, RecoveryInv, ClaimInv,
           Executing, Open, InFlight, Settled, TypeOK, Keyed
  <2> QED BY <2>3, <2>4, <2>5, <2>6 DEF Books
<1>3. ASSUME NEW c \in Calls, AnswerDuplicate(c) PROVE Books'
  <2>1. diskFaults = 0
    BY <1>3 DEF AnswerDuplicate, ledgerVars
  <2>2. Books
    BY <1>0, <2>1
  <2>3. OpenInv'
    BY <1>0, <1>3, <2>2
       DEF AnswerDuplicate, Return, Goto, jVars, Books, OpenInv, ClaimInv, Executing, Open,
           EntryOf, InFlight, TypeOK, Keyed
  <2>4. FinalInv'
    BY <1>0, <1>3, <2>2
       DEF AnswerDuplicate, Return, Goto, jVars, Books, FinalInv, ClaimInv, Executing, OpenInv,
           Settled, TypeOK, Keyed
  <2>5. RecoveryInv'
    BY <1>0, <1>3, <2>2
       DEF AnswerDuplicate, Return, Goto, jVars, Books, RecoveryInv, OpenInv, ClaimInv, Executing,
           Open, EntryOf, InFlight, TypeOK, Keyed
  <2>6. RefundInv'
    BY <1>0, <1>3, <2>2
       DEF AnswerDuplicate, Return, Goto, Books, RefundInv, OpenInv, RecoveryInv, ClaimInv,
           Executing, Open, InFlight, Settled, TypeOK, Keyed
  <2> QED BY <2>3, <2>4, <2>5, <2>6 DEF Books
<1>4. ASSUME NEW c \in Calls, CancelDuplicate(c) PROVE Books'
  <2>1. diskFaults = 0
    BY <1>4 DEF CancelDuplicate, ledgerVars
  <2>2. Books
    BY <1>0, <2>1
  <2>3. OpenInv'
    BY <1>0, <1>4, <2>2
       DEF CancelDuplicate, Return, Goto, jVars, Books, OpenInv, ClaimInv, Executing, Open,
           EntryOf, InFlight, TypeOK, Keyed
  <2>4. FinalInv'
    BY <1>0, <1>4, <2>2
       DEF CancelDuplicate, Return, Goto, jVars, Books, FinalInv, ClaimInv, Executing, OpenInv,
           Settled, TypeOK, Keyed
  <2>5. RecoveryInv'
    BY <1>0, <1>4, <2>2
       DEF CancelDuplicate, Return, Goto, jVars, Books, RecoveryInv, OpenInv, ClaimInv, Executing,
           Open, EntryOf, InFlight, TypeOK, Keyed
  <2>6. RefundInv'
    BY <1>0, <1>4, <2>2
       DEF CancelDuplicate, Return, Goto, Books, RefundInv, OpenInv, RecoveryInv, ClaimInv,
           Executing, Open, InFlight, Settled, TypeOK, Keyed
  <2> QED BY <2>3, <2>4, <2>5, <2>6 DEF Books
<1>6. ASSUME NEW c \in Calls, RefuseEarly(c) PROVE Books'
  <2>1. diskFaults = 0
    BY <1>6 DEF RefuseEarly, ledgerVars
  <2>2. Books
    BY <1>0, <2>1
  <2>3. OpenInv'
    BY <1>0, <1>6, <2>2
       DEF RefuseEarly, refuse, releaseCall, Return, Goto, jVars, Books, OpenInv, ClaimInv, Executing, Open,
           EntryOf, InFlight, TypeOK, Keyed
  <2>4. FinalInv'
    BY <1>0, <1>6, <2>2
       DEF RefuseEarly, refuse, releaseCall, Return, Goto, jVars, Books, FinalInv, ClaimInv, Executing, OpenInv,
           Settled, TypeOK, Keyed
  <2>5. RecoveryInv'
    BY <1>0, <1>6, <2>2
       DEF RefuseEarly, refuse, releaseCall, Return, Goto, jVars, Books, RecoveryInv, OpenInv, ClaimInv, Executing,
           Open, EntryOf, InFlight, TypeOK, Keyed
  <2>6. RefundInv'
    BY <1>0, <1>6, <2>2
       DEF RefuseEarly, refuse, releaseCall, Return, Goto, Books, RefundInv, OpenInv, RecoveryInv, ClaimInv,
           Executing, Open, InFlight, Settled, TypeOK, Keyed
  <2> QED BY <2>3, <2>4, <2>5, <2>6 DEF Books
<1>7. ASSUME NEW c \in Calls, NEW atoms \in Prices, Price(c, atoms) PROVE Books'
  <2>1. diskFaults = 0
    BY <1>7 DEF Price, ledgerVars
  <2>2. Books
    BY <1>0, <2>1
  <2>3. OpenInv'
    BY <1>0, <1>7, <2>2
       DEF Price, Goto, jVars, Books, OpenInv, ClaimInv, Executing, Open,
           EntryOf, InFlight, TypeOK, Keyed
  <2>4. FinalInv'
    BY <1>0, <1>7, <2>2
       DEF Price, Goto, jVars, Books, FinalInv, ClaimInv, Executing, OpenInv,
           Settled, TypeOK, Keyed
  <2>5. RecoveryInv'
    BY <1>0, <1>7, <2>2
       DEF Price, Goto, jVars, Books, RecoveryInv, OpenInv, ClaimInv, Executing,
           Open, EntryOf, InFlight, TypeOK, Keyed
  <2>6. RefundInv'
    BY <1>0, <1>7, <2>2
       DEF Price, Goto, Books, RefundInv, OpenInv, RecoveryInv, ClaimInv,
           Executing, Open, InFlight, Settled, TypeOK, Keyed
  <2> QED BY <2>3, <2>4, <2>5, <2>6 DEF Books
<1>8. ASSUME NEW c \in Calls, RefuseUnpaid(c) PROVE Books'
  <2>1. diskFaults = 0
    BY <1>8 DEF RefuseUnpaid, ledgerVars
  <2>2. Books
    BY <1>0, <2>1
  <2>3. OpenInv'
    BY <1>0, <1>8, <2>2
       DEF RefuseUnpaid, refuse, releaseCall, Return, Goto, jVars, Books, OpenInv, ClaimInv, Executing, Open,
           EntryOf, InFlight, TypeOK, Keyed
  <2>4. FinalInv'
    BY <1>0, <1>8, <2>2
       DEF RefuseUnpaid, refuse, releaseCall, Return, Goto, jVars, Books, FinalInv, ClaimInv, Executing, OpenInv,
           Settled, TypeOK, Keyed
  <2>5. RecoveryInv'
    BY <1>0, <1>8, <2>2
       DEF RefuseUnpaid, refuse, releaseCall, Return, Goto, jVars, Books, RecoveryInv, OpenInv, ClaimInv, Executing,
           Open, EntryOf, InFlight, TypeOK, Keyed
  <2>6. RefundInv'
    BY <1>0, <1>8, <2>2
       DEF RefuseUnpaid, refuse, releaseCall, Return, Goto, Books, RefundInv, OpenInv, RecoveryInv, ClaimInv,
           Executing, Open, InFlight, Settled, TypeOK, Keyed
  <2> QED BY <2>3, <2>4, <2>5, <2>6 DEF Books
<1>9. ASSUME NEW c \in Calls, NEW ok \in BOOLEAN, charge(c, ok) PROVE Books'
  <2>1. diskFaults = 0 /\ ok
    BY <1>0, <1>9, LedgerEffect DEF charge
  <2>2. Books
    BY <1>0, <2>1
  <2>3. PICK l \in {"journal", "run"} :
          /\ pc' = [pc EXCEPT ![c] = l]
          /\ Keyed(c) => l = "journal"
    BY <1>9, <2>1 DEF charge, Goto
  <2>4. Executing(c) /\ pc[c] = "debit"
    BY <1>9 DEF charge
  <2>5. /\ charged' = charged \cup {c}
        /\ UNCHANGED <<phase, now, dead, result, reply, calls, rec, journal,
                       callsFile, owed, credited, refunds>>
    BY <1>9, <2>1 DEF charge, jVars
  <2>6. OpenInv'
    BY <1>0, <2>2, <2>3, <2>4, <2>5
       DEF Books, OpenInv, Executing, Open, EntryOf, InFlight, TypeOK, Keyed
  <2>7. FinalInv'
    BY <1>0, <2>2, <2>3, <2>4, <2>5 DEF Books, FinalInv, Settled, TypeOK, Keyed
  <2>8. RecoveryInv'
    BY <1>0, <2>2, <2>3, <2>4, <2>5
       DEF Books, RecoveryInv, Executing, Open, InFlight, TypeOK, Keyed
  <2>9. RefundInv'
    BY <1>0, <2>2, <2>3, <2>4, <2>5
       DEF Books, RefundInv, Executing, Settled, TypeOK, Keyed
  <2> QED BY <2>6, <2>7, <2>8, <2>9 DEF Books
<1>11. ASSUME NEW c \in Calls, NEW o \in {"ok", "err"}, Run(c, o) PROVE Books'
  <2>1. diskFaults = 0
    BY <1>11 DEF Run, ledgerVars
  <2>2. Books
    BY <1>0, <2>1
  <2>3. OpenInv'
    BY <1>0, <1>11, <2>2
       DEF Run, Goto, jVars, Books, OpenInv, ClaimInv, Executing, Open,
           EntryOf, InFlight, TypeOK, Keyed
  <2>4. FinalInv'
    BY <1>0, <1>11, <2>2
       DEF Run, Goto, jVars, Books, FinalInv, ClaimInv, Executing, OpenInv,
           Settled, TypeOK, Keyed
  <2>5. RecoveryInv'
    BY <1>0, <1>11, <2>2
       DEF Run, Goto, jVars, Books, RecoveryInv, OpenInv, ClaimInv, Executing,
           Open, EntryOf, InFlight, TypeOK, Keyed
  <2>6. RefundInv'
    BY <1>0, <1>11, <2>2
       DEF Run, Goto, Books, RefundInv, OpenInv, RecoveryInv, ClaimInv,
           Executing, Open, InFlight, Settled, TypeOK, Keyed
  <2> QED BY <2>3, <2>4, <2>5, <2>6 DEF Books
<1>12. ASSUME NEW c \in Calls, NEW ok \in BOOLEAN, RefundFailure(c, ok) PROVE Books'
  <2>1. diskFaults = 0 /\ ok
    BY <1>0, <1>12, LedgerEffect DEF RefundFailure
  <2>2. Books
    BY <1>0, <2>1
  <2>3. OpenInv'
    BY <1>0, <1>12, <2>1, <2>2
       DEF RefundFailure, Goto, jVars, Books, OpenInv, ClaimInv, Executing, Open,
           EntryOf, InFlight, TypeOK, Keyed
  <2>4. FinalInv'
    BY <1>0, <1>12, <2>1, <2>2
       DEF RefundFailure, Goto, jVars, Books, FinalInv, ClaimInv, Executing, OpenInv,
           Settled, TypeOK, Keyed
  <2>5. RecoveryInv'
    BY <1>0, <1>12, <2>1, <2>2
       DEF RefundFailure, Goto, jVars, Books, RecoveryInv, OpenInv, ClaimInv, Executing,
           Open, EntryOf, InFlight, TypeOK, Keyed
  <2>6. RefundInv'
    BY <1>0, <1>12, <2>1, <2>2
       DEF RefundFailure, Goto, Books, RefundInv, OpenInv, RecoveryInv, ClaimInv,
           Executing, Open, InFlight, Settled, TypeOK, Keyed
  <2> QED BY <2>3, <2>4, <2>5, <2>6 DEF Books
<1>14. ASSUME NEW p \in Peers, NEW atoms \in Tips, NEW ok \in BOOLEAN,
              TopUp(p, atoms, ok) PROVE Books'
  <2>1. diskFaults = 0 /\ ok
    BY <1>0, <1>14, LedgerEffect DEF TopUp
  <2>2. Books
    BY <1>0, <2>1
  <2>3. OpenInv'
    BY <1>0, <1>14, <2>1, <2>2
       DEF TopUp, jVars, Books, OpenInv, ClaimInv, Executing, Open,
           EntryOf, InFlight, TypeOK, Keyed
  <2>4. FinalInv'
    BY <1>0, <1>14, <2>1, <2>2
       DEF TopUp, jVars, Books, FinalInv, ClaimInv, Executing, OpenInv,
           Settled, TypeOK, Keyed
  <2>5. RecoveryInv'
    BY <1>0, <1>14, <2>1, <2>2
       DEF TopUp, jVars, Books, RecoveryInv, OpenInv, ClaimInv, Executing,
           Open, EntryOf, InFlight, TypeOK, Keyed
  <2>6. RefundInv'
    BY <1>0, <1>14, <2>1, <2>2
       DEF TopUp, Books, RefundInv, OpenInv, RecoveryInv, ClaimInv,
           Executing, Open, InFlight, Settled, TypeOK, Keyed
  <2> QED BY <2>3, <2>4, <2>5, <2>6 DEF Books
<1>15. ASSUME Tick PROVE Books'
  <2>1. diskFaults = 0
    BY <1>15 DEF Tick, ledgerVars
  <2>2. Books
    BY <1>0, <2>1
  <2>3. OpenInv'
    BY <1>0, <1>15, <2>2
       DEF Tick, jVars, Books, OpenInv, ClaimInv, Executing, Open,
           EntryOf, InFlight, TypeOK, Keyed
  <2>4. FinalInv'
    BY <1>0, <1>15, <2>2
       DEF Tick, jVars, Books, FinalInv, ClaimInv, Executing, OpenInv,
           Settled, TypeOK, Record, Keyed
  <2>5. RecoveryInv'
    BY <1>0, <1>15, <2>2
       DEF Tick, jVars, Books, RecoveryInv, OpenInv, ClaimInv, Executing,
           Open, EntryOf, InFlight, TypeOK, Keyed
  <2>6. RefundInv'
    BY <1>0, <1>15, <2>2
       DEF Tick, Books, RefundInv, OpenInv, RecoveryInv, ClaimInv,
           Executing, Open, InFlight, Settled, TypeOK, Keyed
  <2> QED BY <2>3, <2>4, <2>5, <2>6 DEF Books
<1>16. ASSUME Crash PROVE Books'
  <2>1. diskFaults = 0
    BY <1>16 DEF Crash, ledgerVars
  <2>2. Books
    BY <1>0, <2>1
  <2>3. OpenInv'
    BY <1>0, <1>16, <2>2
       DEF Crash, jVars, Books, OpenInv, ClaimInv, Executing, Open,
           EntryOf, InFlight, TypeOK, Keyed
  <2>4. FinalInv'
    BY <1>0, <1>16, <2>2
       DEF Crash, jVars, Books, FinalInv, ClaimInv, Executing, OpenInv,
           Settled, TypeOK, Keyed
  <2>5. RecoveryInv'
    BY <1>0, <1>16, <2>2
       DEF Crash, jVars, Books, RecoveryInv, OpenInv, ClaimInv, Executing,
           Open, EntryOf, InFlight, TypeOK, Keyed
  <2>6. RefundInv'
    BY <1>0, <1>16, <2>2
       DEF Crash, Books, RefundInv, OpenInv, RecoveryInv, ClaimInv,
           Executing, Open, InFlight, Settled, TypeOK, Keyed
  <2> QED BY <2>3, <2>4, <2>5, <2>6 DEF Books
<1>17. ASSUME Restart PROVE Books'
  <2>1. diskFaults = 0
    BY <1>17 DEF Restart, OpenLedger
  <2>2. Books
    BY <1>0, <2>1
  <2>3. OpenInv'
    BY <1>0, <1>17, <2>2
       DEF Restart, OpenLedger, interrupted, jVars, Books, OpenInv, ClaimInv, Executing, Open,
           EntryOf, InFlight, TypeOK, Keyed
  <2>4. FinalInv'
    BY <1>0, <1>17, <2>2
       DEF Restart, OpenLedger, interrupted, jVars, Books, FinalInv, ClaimInv, Executing, OpenInv,
           Settled, TypeOK, Keyed
  <2>5. RecoveryInv'
    BY <1>0, <1>17, <2>2
       DEF Restart, OpenLedger, interrupted, jVars, Books, RecoveryInv, OpenInv, ClaimInv, Executing,
           Open, EntryOf, NoEntry, InFlight, TypeOK, Keyed
  <2>6. RefundInv'
    BY <1>0, <1>17, <2>2
       DEF Restart, OpenLedger, interrupted, Books, RefundInv, OpenInv, RecoveryInv, ClaimInv,
           Executing, Open, InFlight, Settled, TypeOK, Keyed
  <2> QED BY <2>3, <2>4, <2>5, <2>6 DEF Books
<1>18. ASSUME NEW k \in Keys, NEW ok \in BOOLEAN, RefundInterrupted(k, ok) PROVE Books'
  <2>1. diskFaults = 0 /\ ok
    BY <1>0, <1>18, LedgerEffect DEF RefundInterrupted
  <2>2. Books
    BY <1>0, <2>1
  <2>3. OpenInv'
    BY <1>0, <1>18, <2>1, <2>2
       DEF RefundInterrupted, jVars, Books, OpenInv, ClaimInv, Executing, Open,
           EntryOf, InFlight, TypeOK, Keyed
  <2>4. FinalInv'
    BY <1>0, <1>18, <2>1, <2>2
       DEF RefundInterrupted, jVars, Books, FinalInv, ClaimInv, Executing, OpenInv,
           Settled, TypeOK, Keyed
  <2>5. RecoveryInv'
    BY <1>0, <1>18, <2>1, <2>2
       DEF RefundInterrupted, jVars, Books, RecoveryInv, OpenInv, ClaimInv, Executing,
           Open, EntryOf, InFlight, TypeOK, Keyed
  <2>6. RefundInv'
    BY <1>0, <1>18, <2>1, <2>2
       DEF RefundInterrupted, Books, RefundInv, OpenInv, RecoveryInv, ClaimInv,
           Executing, Open, InFlight, Settled, TypeOK, Keyed
  <2> QED BY <2>3, <2>4, <2>5, <2>6 DEF Books
<1>2. ASSUME NEW c \in Calls, NEW ok \in BOOLEAN, claimCall(c, ok) PROVE Books'
  <2>1. phase = "up" /\ pc[c] = "new" /\ Keyed(c) /\ KeyOf[c] \in Keys /\ gc(ok)
    BY <1>2 DEF claimCall, Keyed
  <2>2. diskFaults = 0
    BY <1>0, <2>1 DEF gc, persistJournal, Write, TypeOK, LedgerTypeOK, ledgerVars
  <2>3. Books /\ journal = callsFile
    BY <1>0, <2>1, <2>2 DEF Books, OpenInv
  <2>4. /\ journal' = callsFile'
        /\ \A k \in Keys :
              callsFile'[k] = IF EntryExpired(callsFile[k]) THEN NoEntry
                              ELSE callsFile[k]
    BY <1>0, <2>1, <2>3, GcEffect
  <2>5. \A k \in Keys : Open(callsFile'[k]) <=> Open(callsFile[k])
    BY <2>4 DEF EntryExpired, Open, NoEntry
  <2>6. \A k \in Keys : Open(callsFile[k]) => callsFile'[k] = callsFile[k]
    BY <2>4 DEF EntryExpired, Open
  <2>7. PICK l \in {"admit", "wait"} : pc' = [pc EXCEPT ![c] = l]
    BY <1>2 DEF claimCall, Goto
  <2>8. \A k \in Keys, d \in Calls :
          calls[k] = d /\ now <= rec[d].expires => Claims[k] = d
    BY <1>0 DEF Claims, RecordExpired, TypeOK, Record
  <2>9. \A d \in Calls \ {c} : rec'[d] = rec[d]
    BY <1>0, <1>2 DEF claimCall, TypeOK
  <2>10. UNCHANGED <<phase, now, dead, charged, result, reply, refunds, owed, credited>>
    BY <1>2 DEF claimCall
  <2>11. Claims[KeyOf[c]] = NoCall \/ calls' = Claims
    BY <1>2 DEF claimCall
  <2>12. \A k \in Keys : Claims[k] # NoCall => calls'[k] = Claims[k]
    <3>1. Claims \in [Keys -> Calls \cup {NoCall}]
      BY <1>0 DEF Claims, TypeOK
    <3> QED BY <1>2, <2>1, <3>1 DEF claimCall
  <2>13. OpenInv'
    <3>1. \A k \in Keys : EntryOf(k, callsFile'[k])
      <4>1. \A k \in Keys : EntryOf(k, NoEntry)
        BY DEF EntryOf, NoEntry
      <4>2. \A k \in Keys : callsFile'[k] = NoEntry \/ callsFile'[k] = callsFile[k]
        BY <2>4
      <4> QED BY <2>3, <4>1, <4>2 DEF Books, OpenInv
    <3>2. \A k \in Keys : Open(callsFile'[k]) =>
              /\ pc'[callsFile'[k].owner] \in InFlight
              /\ phase' = "up" => callsFile'[k].owner \notin dead'
      BY <1>0, <2>1, <2>3, <2>5, <2>6, <2>7, <2>10
         DEF Books, OpenInv, InFlight, Open, TypeOK, Entry
    <3>3. \A d \in Calls :
             Executing(d)' /\ Keyed(d) /\ d \in charged' /\ pc'[d] \in InFlight =>
                 callsFile'[KeyOf[d]].owner = d /\ ~callsFile'[KeyOf[d]].done
      BY <1>0, <2>3, <2>6, <2>7, <2>10
         DEF Books, OpenInv, InFlight, Open, TypeOK, Executing, Keyed
    <3> QED BY <1>0, <2>1, <2>3, <2>4, <2>7, <2>10, <3>1, <3>2, <3>3
            DEF Books, OpenInv, TypeOK, Keyed
  <2>14. FinalInv'
    <3> SUFFICES ASSUME NEW d \in Calls, Settled(d)', now' <= rec'[d].expires
                 PROVE  /\ callsFile'[KeyOf[d]].owner = d
                        /\ callsFile'[KeyOf[d]].done
                        /\ callsFile'[KeyOf[d]].expires = rec'[d].expires
                        /\ phase' = "up" => calls'[KeyOf[d]] = d
      BY DEF FinalInv
    <3>1. d # c /\ Settled(d) /\ now <= rec[d].expires /\ KeyOf[d] \in Keys
      BY <1>0, <2>7, <2>9, <2>10 DEF Settled, Keyed, TypeOK
    <3>2. /\ callsFile[KeyOf[d]].owner = d
          /\ callsFile[KeyOf[d]].done
          /\ callsFile[KeyOf[d]].expires = rec[d].expires
          /\ calls[KeyOf[d]] = d
      BY <2>1, <2>3, <3>1 DEF Books, FinalInv
    <3>3. ~EntryExpired(callsFile[KeyOf[d]])
      BY <1>0, <3>1, <3>2 DEF EntryExpired, TypeOK, Record
    <3> QED BY <2>4, <2>8, <2>9, <2>12, <3>1, <3>2, <3>3
  <2>15. RecoveryInv'
    BY <1>0, <2>1, <2>3, <2>5, <2>6, <2>7, <2>10
       DEF Books, RecoveryInv, InFlight, TypeOK
  <2>16. RefundInv'
    BY <1>0, <2>1, <2>3, <2>7, <2>10 DEF Books, RefundInv, Settled, TypeOK
  <2> QED BY <2>13, <2>14, <2>15, <2>16 DEF Books
<1>10. ASSUME NEW c \in Calls, NEW ok \in BOOLEAN, journalCharged(c, ok) PROVE Books'
  <2> DEFINE j == [journal EXCEPT ![KeyOf[c]] = Charge(c)]
  <2>1. /\ Executing(c) /\ pc[c] = "journal"
        /\ pc' = [pc EXCEPT ![c] = "run"]
        /\ UNCHANGED <<phase, now, dead, charged, result, reply, refunds, owed,
                       credited, calls, rec>>
    BY <1>10 DEF journalCharged, Goto
  <2>2. diskFaults = 0 /\ journal' = j /\ callsFile' = j
    <3>1. persistJournal(j, ok)
      BY <1>10 DEF journalCharged
    <3> HIDE DEF j
    <3> QED BY <1>0, <3>1, PersistEffect
  <2>3. Books /\ phase = "up" /\ journal = callsFile
    BY <1>0, <2>1, <2>2 DEF Books, OpenInv, ClaimInv
  <2>4. Charge(c).owner = c /\ ~Charge(c).done
    BY DEF Charge
  <2>5. \A k \in Keys : callsFile'[k] = IF k = KeyOf[c] THEN Charge(c) ELSE callsFile[k]
    BY <1>0, <2>2, <2>3 DEF TypeOK
  <2> HIDE DEF j
  <2>6. OpenInv'
    <3>1. \A k \in Keys : EntryOf(k, callsFile'[k])
      <4>1. EntryOf(KeyOf[c], Charge(c))
        BY <2>4 DEF EntryOf
      <4> QED BY <2>3, <2>5, <4>1 DEF Books, OpenInv
    <3>2. \A k \in Keys : Open(callsFile'[k]) =>
              /\ pc'[callsFile'[k].owner] \in InFlight
              /\ phase' = "up" => callsFile'[k].owner \notin dead'
      BY <1>0, <2>1, <2>3, <2>4, <2>5
         DEF Books, OpenInv, InFlight, Open, TypeOK, Entry, Executing
    <3>3. \A d \in Calls :
             Executing(d)' /\ Keyed(d) /\ d \in charged' /\ pc'[d] \in InFlight =>
                 callsFile'[KeyOf[d]].owner = d /\ ~callsFile'[KeyOf[d]].done
      <4> SUFFICES ASSUME NEW d \in Calls, Executing(d)', Keyed(d), d \in charged,
                          pc'[d] \in InFlight
                   PROVE  /\ callsFile'[KeyOf[d]].owner = d
                          /\ ~callsFile'[KeyOf[d]].done
        BY <2>1
      <4>1. CASE d = c
        BY <2>4, <2>5, <4>1 DEF Keyed
      <4>2. CASE d # c
        <5>1. Executing(d) /\ pc[d] \in InFlight
          BY <1>0, <2>1, <4>2 DEF Executing, TypeOK
        <5>2. KeyOf[d] # KeyOf[c]
          BY <1>0, <2>1, <4>2, <5>1 DEF ClaimInv, Keyed
        <5> QED BY <2>3, <2>5, <5>1, <5>2 DEF Books, OpenInv, Keyed
      <4> QED BY <4>1, <4>2
    <3> QED BY <1>0, <2>1, <2>2, <2>3, <3>1, <3>2, <3>3
            DEF Books, OpenInv, TypeOK, Keyed
  <2>7. FinalInv'
    BY <1>0, <2>1, <2>3, <2>5
       DEF Books, FinalInv, ClaimInv, Settled, Executing, TypeOK, Keyed
  <2>8. RecoveryInv'
    BY <1>0, <2>1, <2>3, <2>5
       DEF Books, RecoveryInv, Executing, InFlight, TypeOK, Keyed
  <2>9. RefundInv'
    BY <1>0, <2>1, <2>3 DEF Books, RefundInv, Executing, Settled, TypeOK
  <2> QED BY <2>6, <2>7, <2>8, <2>9 DEF Books
<1>13. ASSUME NEW c \in Calls, NEW kept \in BOOLEAN, NEW ok \in BOOLEAN,
              completeCall(c, kept, ok)
       PROVE  Books'
  <2>1. /\ Executing(c) /\ pc[c] = "finish"
        /\ pc' = [pc EXCEPT ![c] = "done"]
        /\ reply' = [reply EXCEPT ![c] = result[c]]
        /\ UNCHANGED <<phase, now, dead, charged, result, refunds, owed, credited, calls>>
    BY <1>13 DEF completeCall, Return, Goto
  <2>2. phase = "up"
    BY <1>0, <2>1 DEF ClaimInv
  <2>3. diskFaults = 0
    BY <1>0, <1>13 DEF completeCall, complete, persistJournal, Write, TypeOK,
                       LedgerTypeOK, ledgerVars
  <2>4. Books /\ journal = callsFile
    BY <1>0, <2>2, <2>3 DEF Books, OpenInv
  <2>5. RefundInv'
    BY <1>0, <2>1, <2>4 DEF Books, RefundInv, Executing, Settled, TypeOK
  <2>6. CASE ~Keyed(c)
    <3>1. UNCHANGED <<rec, journal, callsFile>>
      BY <1>13, <2>6 DEF completeCall, jVars
    <3>2. OpenInv'
      BY <1>0, <2>1, <2>4, <2>6, <3>1
         DEF Books, OpenInv, Executing, Open, EntryOf, InFlight, TypeOK, Entry, Keyed
    <3>3. FinalInv'
      BY <1>0, <2>1, <2>4, <2>6, <3>1 DEF Books, FinalInv, Settled, TypeOK, Keyed
    <3>4. RecoveryInv'
      BY <1>0, <2>1, <2>2, <2>4, <2>6, <3>1
         DEF Books, RecoveryInv, Executing, InFlight, TypeOK, Keyed
    <3> QED BY <2>5, <3>2, <3>3, <3>4 DEF Books
  <2>7. CASE Keyed(c)
    <3>1. /\ KeyOf[c] \in Keys
          /\ rec' = [rec EXCEPT ![c] = [closed |-> TRUE, outcome |-> result[c],
                                        expires |-> now + CallKeyTTL]]
          /\ complete(KeyOf[c], result[c], kept, now + CallKeyTTL, ok)
      BY <1>13, <2>7 DEF completeCall, Keyed
    <3>2. /\ journal' = callsFile'
          /\ \A i \in Keys \ {KeyOf[c]} : callsFile'[i] = callsFile[i]
          /\ callsFile[KeyOf[c]] = NoEntry => callsFile'[KeyOf[c]] = NoEntry
          /\ callsFile[KeyOf[c]] # NoEntry =>
                /\ callsFile'[KeyOf[c]].owner = callsFile[KeyOf[c]].owner
                /\ callsFile'[KeyOf[c]].done
                /\ callsFile'[KeyOf[c]].expires = now + CallKeyTTL
      BY <1>0, <2>4, <3>1, CompleteEffect
    <3>3. ~Open(callsFile'[KeyOf[c]])
      BY <3>2 DEF Open, NoEntry
    <3>4. rec'[c].expires = now + CallKeyTTL /\ \A d \in Calls \ {c} : rec'[d] = rec[d]
      BY <1>0, <3>1 DEF TypeOK
    <3>5. \A d \in Calls \ {c} : Executing(d)' => Executing(d) /\ (Keyed(d) => KeyOf[d] # KeyOf[c])
      BY <1>0, <2>1, <2>7 DEF ClaimInv, Executing, TypeOK, Keyed
    <3>6. OpenInv'
      <4>1. \A k \in Keys : EntryOf(k, callsFile'[k])
        <5>1. EntryOf(KeyOf[c], callsFile'[KeyOf[c]])
          <6>1. EntryOf(KeyOf[c], callsFile[KeyOf[c]])
            BY <2>4, <3>1 DEF Books, OpenInv
          <6>2. CASE callsFile[KeyOf[c]] = NoEntry
            BY <3>2, <6>1, <6>2
          <6>3. CASE callsFile[KeyOf[c]] # NoEntry
            BY <3>2, <6>1, <6>3 DEF EntryOf
          <6> QED BY <6>2, <6>3
        <5> QED BY <2>4, <3>2, <5>1 DEF Books, OpenInv
      <4>2. \A k \in Keys : Open(callsFile'[k]) =>
                /\ pc'[callsFile'[k].owner] \in InFlight
                /\ phase' = "up" => callsFile'[k].owner \notin dead'
        <5> SUFFICES ASSUME NEW k \in Keys, Open(callsFile'[k])
                     PROVE  /\ pc'[callsFile'[k].owner] \in InFlight
                            /\ callsFile'[k].owner \notin dead
          BY <2>1
        <5>1. k # KeyOf[c] /\ callsFile'[k] = callsFile[k] /\ Open(callsFile[k])
          BY <3>2, <3>3
        <5>2. callsFile[k].owner # c
          BY <2>4, <5>1 DEF Books, OpenInv, EntryOf, Open
        <5> QED BY <1>0, <2>1, <2>2, <2>4, <5>1, <5>2
                DEF Books, OpenInv, TypeOK, Entry, Open
      <4>3. \A d \in Calls :
               Executing(d)' /\ Keyed(d) /\ d \in charged' /\ pc'[d] \in InFlight =>
                   callsFile'[KeyOf[d]].owner = d /\ ~callsFile'[KeyOf[d]].done
        BY <1>0, <2>1, <2>4, <3>2, <3>5
           DEF Books, OpenInv, InFlight, TypeOK, Keyed, Executing
      <4> QED BY <1>0, <2>1, <2>4, <3>2, <4>1, <4>2, <4>3 DEF Books, OpenInv, TypeOK
    <3>7. FinalInv'
      <4> SUFFICES ASSUME NEW d \in Calls, Settled(d)', now' <= rec'[d].expires
                   PROVE  /\ callsFile'[KeyOf[d]].owner = d
                          /\ callsFile'[KeyOf[d]].done
                          /\ callsFile'[KeyOf[d]].expires = rec'[d].expires
                          /\ calls'[KeyOf[d]] = d
        BY DEF FinalInv
      <4>1. CASE d = c
        <5>1. callsFile[KeyOf[c]].owner = c
          BY <2>1, <2>4, <2>7, <4>1 DEF Books, OpenInv, Settled, InFlight
        <5>2. callsFile[KeyOf[c]] # NoEntry
          BY <5>1 DEF NoEntry
        <5>3. calls[KeyOf[c]] = c
          BY <1>0, <2>1, <2>7 DEF ClaimInv
        <5> QED BY <2>1, <3>2, <3>4, <4>1, <5>1, <5>2, <5>3
      <4>2. CASE d # c
        <5>1. Settled(d) /\ now <= rec[d].expires
          BY <1>0, <2>1, <3>4, <4>2 DEF Settled, TypeOK
        <5>2. /\ callsFile[KeyOf[d]].owner = d
              /\ callsFile[KeyOf[d]].done
              /\ callsFile[KeyOf[d]].expires = rec[d].expires
              /\ calls[KeyOf[d]] = d
          BY <2>2, <2>4, <5>1 DEF Books, FinalInv
        <5>3. KeyOf[d] # KeyOf[c] /\ KeyOf[d] \in Keys
          BY <1>0, <2>1, <2>7, <4>2, <5>1, <5>2 DEF ClaimInv, Settled, Keyed
        <5> QED BY <2>1, <3>2, <3>4, <4>2, <5>2, <5>3
      <4> QED BY <4>1, <4>2
    <3>8. RecoveryInv'
      BY <1>0, <2>1, <2>2, <2>4 DEF Books, RecoveryInv, Executing, InFlight, TypeOK
    <3> QED BY <2>5, <3>6, <3>7, <3>8 DEF Books
  <2> QED BY <2>6, <2>7
<1>19. ASSUME NEW ok \in BOOLEAN, RemoveInterrupted(ok) PROVE Books'
  <2> DEFINE j == [journal EXCEPT ![credited] = NoEntry]
  <2>1. /\ phase = "recovering" /\ credited # NoKey
        /\ owed' = owed \ {credited} /\ credited' = NoKey
        /\ UNCHANGED <<phase, now, dead, pc, charged, result, reply, refunds, calls, rec>>
    BY <1>19 DEF RemoveInterrupted
  <2>2. diskFaults = 0 /\ journal' = j /\ callsFile' = j
    <3>1. persistJournal(j, ok)
      BY <1>19 DEF RemoveInterrupted
    <3> HIDE DEF j
    <3> QED BY <1>0, <3>1, PersistEffect
  <2>3. Books /\ journal = callsFile
    BY <1>0, <2>1, <2>2 DEF Books, OpenInv
  <2>4. \A k \in Keys : callsFile'[k] = IF k = credited THEN NoEntry ELSE callsFile[k]
    BY <1>0, <2>2, <2>3 DEF TypeOK
  <2> HIDE DEF j
  <2>5. ~Open(NoEntry) /\ \A k \in Keys : EntryOf(k, NoEntry)
    BY DEF Open, EntryOf, NoEntry
  <2>6. OpenInv'
    <3>1. \A c \in Calls : ~Executing(c)
      BY <1>0, <2>1 DEF ClaimInv
    <3> QED BY <1>0, <2>1, <2>2, <2>3, <2>4, <2>5, <3>1
            DEF Books, OpenInv, Executing, TypeOK
  <2>7. FinalInv'
    BY <1>0, <2>1, <2>3, <2>4
       DEF Books, FinalInv, RecoveryInv, Open, Settled, Keyed, TypeOK
  <2>8. RecoveryInv'
    <3>1. /\ \A k \in owed' : phase' = "recovering" /\ Open(callsFile'[k])
          /\ \A k \in Keys : phase' = "recovering" /\ Open(callsFile'[k]) => k \in owed'
      BY <1>0, <2>1, <2>3, <2>4, <2>5 DEF Books, RecoveryInv, TypeOK
    <3>2. \A c \in Calls :
            c \in dead /\ Keyed(c) /\ c \in charged /\ pc[c] \in InFlight =>
                \/ refunds[c] >= 1
                \/ /\ callsFile'[KeyOf[c]].owner = c
                   /\ ~callsFile'[KeyOf[c]].done
      BY <2>1, <2>3, <2>4 DEF Books, RecoveryInv, Keyed
    <3> QED BY <2>1, <3>1, <3>2 DEF RecoveryInv
  <2>9. RefundInv'
    BY <2>1, <2>3 DEF Books, RefundInv, Settled
  <2> QED BY <2>6, <2>7, <2>8, <2>9 DEF Books
<1>20. ASSUME NEW ok \in BOOLEAN, Serve(ok) PROVE Books'
  <2>1. /\ phase = "recovering" /\ owed = {} /\ credited = NoKey /\ gc(ok)
        /\ phase' = "up"
        /\ UNCHANGED <<now, dead, pc, charged, result, reply, refunds, owed, credited>>
    BY <1>20 DEF Serve
  <2>2. diskFaults = 0
    BY <1>0, <2>1 DEF gc, persistJournal, Write, TypeOK, LedgerTypeOK, ledgerVars
  <2>3. Books /\ journal = callsFile
    BY <1>0, <2>1, <2>2 DEF Books, OpenInv
  <2>4. /\ journal' = callsFile'
        /\ \A k \in Keys :
              callsFile'[k] = IF EntryExpired(callsFile[k]) THEN NoEntry
                              ELSE callsFile[k]
    BY <1>0, <2>1, <2>3, GcEffect
  <2>5. \A c \in Calls : ~Executing(c) /\ ~Executing(c)'
    BY <1>0, <2>1 DEF ClaimInv, Executing
  <2>6. \A k \in Keys : ~Open(callsFile[k]) /\ ~Open(callsFile'[k])
    BY <2>1, <2>3, <2>4 DEF Books, RecoveryInv, Open, NoEntry
  <2>7. OpenInv'
    <3>1. \A k \in Keys : EntryOf(k, callsFile'[k])
      <4>1. \A k \in Keys : EntryOf(k, NoEntry)
        BY DEF EntryOf, NoEntry
      <4>2. \A k \in Keys : callsFile'[k] = NoEntry \/ callsFile'[k] = callsFile[k]
        BY <2>4
      <4> QED BY <2>3, <4>1, <4>2 DEF Books, OpenInv
    <3> QED BY <2>1, <2>3, <2>4, <2>5, <2>6, <3>1 DEF Books, OpenInv
  <2>8. FinalInv'
    <3> SUFFICES ASSUME NEW d \in Calls, Settled(d)', now' <= rec'[d].expires
                 PROVE  /\ callsFile'[KeyOf[d]].owner = d
                        /\ callsFile'[KeyOf[d]].done
                        /\ callsFile'[KeyOf[d]].expires = rec'[d].expires
                        /\ calls'[KeyOf[d]] = d
      BY DEF FinalInv
    <3> DEFINE replays == /\ journal[KeyOf[d]].done
                          /\ ~EntryExpired(journal[KeyOf[d]])
                          /\ journal[KeyOf[d]].owner = d
    <3>1. Settled(d) /\ Keyed(d) /\ KeyOf[d] \in Keys
      BY <2>1 DEF Settled, Keyed
    <3>2. replays
      <4> SUFFICES ASSUME ~replays PROVE FALSE
        OBVIOUS
      <4>1. rec'[d] = rec[d]
        BY <1>20, <3>1 DEF Serve
      <4>2. /\ callsFile[KeyOf[d]].owner = d
            /\ callsFile[KeyOf[d]].done
            /\ callsFile[KeyOf[d]].expires = rec[d].expires
        BY <2>1, <2>3, <3>1, <4>1 DEF Books, FinalInv
      <4> QED BY <1>0, <2>1, <2>3, <4>1, <4>2 DEF EntryExpired, TypeOK, Record
    <3>3. rec'[d].expires = journal[KeyOf[d]].expires /\ calls'[KeyOf[d]] = d
      BY <1>20, <3>1, <3>2 DEF Serve
    <3> QED BY <2>3, <2>4, <3>1, <3>2, <3>3
  <2>9. RecoveryInv'
    BY <1>0, <2>1, <2>3, <2>6 DEF Books, RecoveryInv, Open, Keyed
  <2>10. RefundInv'
    BY <2>1, <2>3 DEF Books, RefundInv, Settled
  <2> QED BY <2>7, <2>8, <2>9, <2>10 DEF Books
<1>21. CASE UNCHANGED vars
  BY <1>0, <1>21
     DEF vars, ledgerVars, jVars, Books, OpenInv, FinalInv, RecoveryInv, RefundInv,
         Executing, Settled
<1> QED
  BY <1>1, <1>2, <1>3, <1>4, <1>6, <1>7, <1>8, <1>9, <1>10, <1>11, <1>12,
     <1>13, <1>14, <1>15, <1>16, <1>17, <1>18, <1>19, <1>20, <1>21
     DEF Next, HandlerStep, RecoveryStep

\* The inductive invariant holds: types and claims always, the books of charges,
\* journal entries and refunds as long as no write has failed.
THEOREM IInvCorrect == Spec => []IInv
<1>1. Init => IInv
  BY TypeInit, ClaimInit, BooksInit DEF IInv
<1>2. IInv /\ [Next]_vars => IInv'
  BY TypeStep, ClaimStep, BooksStep DEF IInv
<1> QED BY <1>1, <1>2, PTL DEF Spec

\* Inside its replay window a settled paid call is never executed again,
\* through any number of crashes and restarts (completeCall, openJournal).
THEOREM SettledIsFinalCorrect == Spec => []SettledIsFinal
<1>1. IInv => SettledIsFinal
  BY DEF IInv, Books, FinalInv, ClaimInv, SettledIsFinal, Settled, Executing, Keyed
<1> QED BY <1>1, IInvCorrect, PTL

\* A paid call answered with its output is never refunded.
THEOREM SettledStaysPaidCorrect == Spec => []SettledStaysPaid
<1>1. IInv => SettledStaysPaid
  BY DEF IInv, Books, RefundInv, ClaimInv, SettledStaysPaid, Settled
<1> QED BY <1>1, IInvCorrect, PTL

\* Every journaled charge a crash interrupted is refunded once the harness
\* serves again, whatever crashes hit the reconciliation.
THEOREM InterruptedIsRefundedCorrect == Spec => []InterruptedIsRefunded
<1>1. IInv => InterruptedIsRefunded
  BY DEF IInv, Books, RecoveryInv, InterruptedIsRefunded, InFlight, TypeOK
<1> QED BY <1>1, IInvCorrect, PTL

(***************************************************************************)
(* Outcomes are those of executions under the same key.                    *)
(***************************************************************************)
Told == {"ok", "err"}

\* An execution under key k had outcome o; r is what the executions returned.
Made(k, o, r) == \E c \in Calls : KeyOf[c] = k /\ r[c] = o

\* Entries are under the key of their owner, their outcomes produced there.
Sane(j, r) ==
    \A k \in Keys :
        /\ j[k].owner # NoCall => KeyOf[j[k].owner] = k
        /\ j[k].outcome \in Told => Made(k, j[k].outcome, r)

\* So are claims, records and what duplicates wait for; an execution has no
\* result before its tool ran.
ToldInv ==
    /\ \A c \in Calls :
          pc[c] \in {"new", "wait", "admit", "debit", "journal", "run"} => result[c] = "none"
    /\ \A k \in Keys : calls[k] # NoCall => KeyOf[calls[k]] = k
    /\ \A c \in Calls : pc[c] = "wait" => Keyed(c) /\ KeyOf[waits[c]] = KeyOf[c]
    /\ \A c \in Calls :
          Keyed(c) /\ rec[c].outcome \in Told => Made(KeyOf[c], rec[c].outcome, result)
    /\ Sane(journal, result) /\ Sane(callsFile, result)
    /\ OutcomeWasProduced

\* Results are never taken back.
Grown == \A c \in Calls : result[c] # "none" => result'[c] = result[c]

LEMMA SaneLater ==
    ASSUME NEW j, Sane(j, result), Grown PROVE Sane(j, result')
<1> SUFFICES ASSUME NEW k \in Keys, j[k].outcome \in Told
             PROVE  Made(k, j[k].outcome, result')
  BY DEF Sane
<1>1. PICK c \in Calls : KeyOf[c] = k /\ result[c] = j[k].outcome
  BY DEF Sane, Made
<1>2. result'[c] = j[k].outcome BY <1>1 DEF Grown, Told
<1> QED BY <1>1, <1>2 DEF Made

\* Writing sane entries leaves a sane file, and dropping expired ones too.
LEMMA PersistSane ==
    ASSUME ToldInv, Grown, NEW j, Sane(j, result'), NEW ok, persistJournal(j, ok)
    PROVE  Sane(journal', result') /\ Sane(callsFile', result')
BY SaneLater DEF ToldInv, persistJournal

LEMMA GcSane ==
    ASSUME ToldInv, Grown, NEW ok, gc(ok)
    PROVE  Sane(journal', result') /\ Sane(callsFile', result')
<1> DEFINE kept == [k \in Keys |->
                     IF EntryExpired(journal[k]) THEN NoEntry ELSE journal[k]]
<1>1. Sane(journal, result') /\ Sane(callsFile, result')
  BY SaneLater DEF ToldInv
<1>2. Sane(kept, result')
  BY <1>1 DEF Sane, NoEntry, Told
<1>3. CASE kept = journal
  BY <1>1, <1>3 DEF gc, jVars
<1>4. CASE kept # journal
  <2>1. persistJournal(kept, ok) BY <1>4 DEF gc
  <2> HIDE DEF kept
  <2> QED BY <1>2, <2>1, PersistSane
<1> QED BY <1>3, <1>4

\* Completing an entry with the outcome of an execution under its key.
LEMMA CompleteSane ==
    ASSUME TypeOK, ToldInv, Grown, NEW k \in Keys, NEW o, NEW kept, NEW x, NEW ok,
           complete(k, o, kept, x, ok), o \in Told => Made(k, o, result')
    PROVE  Sane(journal', result') /\ Sane(callsFile', result')
<1>1. Sane(journal, result') /\ Sane(callsFile, result')
  BY SaneLater DEF ToldInv
<1>2. CASE journal[k] = NoEntry
  BY <1>1, <1>2 DEF complete, jVars
<1>3. CASE journal[k] # NoEntry
  <2> DEFINE e == Done(journal[k], IF kept THEN o ELSE "notRetained", x)
             j == [journal EXCEPT ![k] = e]
  <2>1. persistJournal(j, ok) BY <1>3 DEF complete
  <2>2. /\ e.owner = journal[k].owner
        /\ e.outcome \in Told => e.outcome = o
    BY DEF Done, Told
  <2> HIDE DEF e
  <2>3. Sane(j, result')
    BY <1>1, <2>2 DEF Sane, TypeOK
  <2> HIDE DEF j
  <2> QED BY <2>1, <2>3, PersistSane
<1> QED BY <1>2, <1>3

\* A step that only moves one delivery on, or answers it with no outcome.
LEMMA ToldKept ==
    ASSUME TypeOK, ToldInv, UNCHANGED <<result, jVars>>,
           \A c \in Calls :
               /\ pc'[c] \in {"new", "wait", "admit", "debit", "journal", "run"} =>
                      result[c] = "none"
               /\ pc'[c] = "wait" => pc[c] = "wait" /\ waits'[c] = waits[c]
               /\ rec'[c].outcome \in Told => rec'[c].outcome = rec[c].outcome
               /\ reply'[c] \in Told => reply'[c] = reply[c],
           \A k \in Keys : calls'[k] # NoCall => calls'[k] = calls[k]
    PROVE  ToldInv'
<1>1. OutcomeWasProduced'
  BY DEF ToldInv, OutcomeWasProduced, Keyed, Told
<1> QED BY <1>1 DEF ToldInv, jVars, Keyed

LEMMA ToldInit == Init => ToldInv
BY DEF Init, ToldInv, OutcomeWasProduced, Sane, NoEntry, NewRecord, Told

LEMMA ToldOfHandler ==
    ASSUME TypeOK, ToldInv, NEW c \in Calls,
           \/ ArriveUnkeyed(c) \/ CancelDuplicate(c) \/ HandlerStep(c)
           \/ \E ok \in BOOLEAN : claimCall(c, ok)
    PROVE  ToldInv'
<1> USE HarnessAssumption DEF procVars, callVars, claimVars, openVars, histVars
<1>0. KeyOf[c] \in Keys \cup {NoKey} BY HarnessAssumption
<1>0a. /\ pc \in [Calls -> Steps] /\ reply \in [Calls -> Replies]
       /\ rec \in [Calls -> Record] /\ result \in [Calls -> Outcomes]
  BY DEF TypeOK
<1>1. CASE ArriveUnkeyed(c)
  BY <1>1, ToldKept DEF ArriveUnkeyed, Goto, ToldInv, TypeOK
<1>2. CASE CancelDuplicate(c)
  BY <1>2, ToldKept DEF CancelDuplicate, Return, Goto, ToldInv, TypeOK, Told
<1>3. ASSUME NEW ok \in BOOLEAN, claimCall(c, ok) PROVE ToldInv'
  <2>1. UNCHANGED <<result, reply>> /\ Grown BY <1>3 DEF claimCall, Grown
  <2>2. Sane(journal', result') /\ Sane(callsFile', result')
    BY <1>3, <2>1, GcSane DEF claimCall
  <2>3. OutcomeWasProduced' BY <2>1 DEF ToldInv, OutcomeWasProduced, Keyed
  <2>4. \A k \in Keys : Claims[k] # NoCall => KeyOf[Claims[k]] = k
    BY DEF Claims, ToldInv
  <2>5. Keyed(c) /\ KeyOf[c] \in Keys /\ pc[c] = "new" BY <1>0, <1>3 DEF claimCall, Keyed
  <2>6. CASE Claims[KeyOf[c]] = NoCall
    <3>1. /\ calls' = [Claims EXCEPT ![KeyOf[c]] = c]
          /\ rec' = [rec EXCEPT ![c] = NewRecord]
          /\ pc' = [pc EXCEPT ![c] = "admit"] /\ waits' = waits
      BY <1>3, <2>6 DEF claimCall, Goto
    <3>2. \A k \in Keys : calls'[k] # NoCall => KeyOf[calls'[k]] = k
      BY <2>4, <2>5, <3>1 DEF Claims
    <3>3. \A d \in Calls : /\ pc'[d] = "wait" => pc[d] = "wait"
                           /\ d = c \/ rec'[d] = rec[d]
                           /\ d = c \/ pc'[d] = pc[d]
      BY <1>0a, <3>1
    <3>4. rec'[c].outcome = "none" /\ result[c] = "none"
      BY <2>5, <3>1 DEF TypeOK, NewRecord, ToldInv
    <3> QED BY <2>1, <2>2, <2>3, <3>1, <3>2, <3>3, <3>4 DEF ToldInv, Keyed, Told
  <2>7. CASE Claims[KeyOf[c]] # NoCall
    <3>1. /\ calls' = Claims /\ rec' = rec
          /\ pc' = [pc EXCEPT ![c] = "wait"]
          /\ waits' = [waits EXCEPT ![c] = Claims[KeyOf[c]]]
      BY <1>3, <2>7 DEF claimCall, Goto
    <3>2. KeyOf[waits'[c]] = KeyOf[c] BY <2>4, <2>5, <2>7, <3>1 DEF TypeOK
    <3>3. \A d \in Calls : d # c => waits'[d] = waits[d] /\ pc'[d] = pc[d]
      BY <3>1 DEF TypeOK
    <3>4. result[c] = "none" BY <2>5 DEF ToldInv
    <3> QED BY <2>1, <2>2, <2>3, <2>4, <2>5, <3>1, <3>2, <3>3, <3>4 DEF ToldInv, Keyed
  <2> QED BY <2>6, <2>7
<1>4. CASE AnswerDuplicate(c)
  <2> DEFINE w == waits[c]
             o == rec[w].outcome
             r == IF o = "none" THEN "empty" ELSE o
  <2>1. pc[c] = "wait" /\ Return(c, r) /\ UNCHANGED <<result, waits, rec, calls, jVars>>
    BY <1>4 DEF AnswerDuplicate
  <2>2. w \in Calls /\ Keyed(c) /\ KeyOf[w] = KeyOf[c] /\ Keyed(w)
    BY <2>1 DEF ToldInv, TypeOK, Keyed
  <2>3. r \in Told => Made(KeyOf[c], r, result)
    BY <2>2 DEF ToldInv, Told
  <2> HIDE DEF r
  <2>4. /\ reply'[c] = r /\ pc'[c] = "done"
        /\ \A d \in Calls : d # c => reply'[d] = reply[d] /\ pc'[d] = pc[d]
    BY <1>0a, <2>1 DEF Return, Goto
  <2>5. OutcomeWasProduced'
    BY <2>1, <2>2, <2>3, <2>4 DEF ToldInv, OutcomeWasProduced, Made, Told, Keyed
  <2> QED BY <2>1, <2>4, <2>5 DEF ToldInv, jVars, Keyed
<1>5. CASE RefuseEarly(c) \/ RefuseUnpaid(c)
  BY <1>5, ToldKept
     DEF RefuseEarly, RefuseUnpaid, refuse, releaseCall, Return, Goto, ToldInv, TypeOK, Told,
         Abandoned
<1>6. ASSUME NEW atoms \in Prices, Price(c, atoms) PROVE ToldInv'
  BY <1>6, ToldKept DEF Price, Goto, ToldInv, TypeOK
<1>7. ASSUME NEW ok \in BOOLEAN, charge(c, ok) PROVE ToldInv'
  <2>1. CASE ok
    BY <1>7, <2>1, ToldKept DEF charge, Goto, ToldInv, TypeOK
  <2>2. CASE ~ok
    BY <1>7, <2>2, ToldKept
       DEF charge, refuse, releaseCall, Return, Goto, ToldInv, TypeOK, Told, Abandoned
  <2> QED BY <2>1, <2>2
<1>8. ASSUME NEW ok \in BOOLEAN, journalCharged(c, ok) PROVE ToldInv'
  <2> DEFINE j == [journal EXCEPT ![KeyOf[c]] = Charge(c)]
  <2>1. /\ pc[c] = "journal" /\ pc' = [pc EXCEPT ![c] = "run"] /\ persistJournal(j, ok)
        /\ UNCHANGED <<result, reply, waits, rec, calls>>
    BY <1>8 DEF journalCharged, Goto
  <2>2. Grown BY <2>1 DEF Grown
  <2>3. Sane(j, result')
    <3>1. Charge(c).owner = c /\ Charge(c).outcome \notin Told BY DEF Charge, Told
    <3> QED BY <2>1, <3>1 DEF ToldInv, Sane, TypeOK
  <2> HIDE DEF j
  <2>4. Sane(journal', result') /\ Sane(callsFile', result')
    BY <2>1, <2>2, <2>3, PersistSane
  <2>5. OutcomeWasProduced' BY <2>1 DEF ToldInv, OutcomeWasProduced, Keyed
  <2> QED BY <2>1, <2>4, <2>5 DEF ToldInv, TypeOK, Keyed
<1>9. ASSUME NEW o \in Told, Run(c, o) PROVE ToldInv'
  <2>1. /\ pc[c] = "run" /\ pc'[c] \in {"refund", "finish"}
        /\ \A d \in Calls : d # c => pc'[d] = pc[d] /\ result'[d] = result[d]
        /\ UNCHANGED <<reply, waits, rec, calls, jVars>>
    BY <1>0a, <1>9 DEF Run, Goto
  <2>2. Grown BY <2>1 DEF Grown, ToldInv
  <2>3. Sane(journal', result') /\ Sane(callsFile', result')
    BY <2>1, <2>2, SaneLater DEF ToldInv, jVars
  <2>4. ASSUME NEW k, NEW a \in Told, Made(k, a, result) PROVE Made(k, a, result')
    BY <2>2, <2>4 DEF Made, Grown, Told
  <2>5. OutcomeWasProduced'
    BY <2>1, <2>2 DEF ToldInv, OutcomeWasProduced, Grown, Keyed
  <2> QED BY <2>1, <2>3, <2>4, <2>5 DEF ToldInv, Keyed
<1>10. ASSUME NEW ok \in BOOLEAN, RefundFailure(c, ok) PROVE ToldInv'
  BY <1>10, ToldKept DEF RefundFailure, Goto, ToldInv, TypeOK
<1>11. ASSUME NEW kept \in BOOLEAN, NEW ok \in BOOLEAN, completeCall(c, kept, ok)
       PROVE  ToldInv'
  <2> DEFINE r == [closed |-> TRUE, outcome |-> result[c], expires |-> now + CallKeyTTL]
  <2>1. /\ Return(c, result[c]) /\ UNCHANGED <<result, waits, calls>>
        /\ IF Keyed(c) THEN /\ rec' = [rec EXCEPT ![c] = r]
                            /\ complete(KeyOf[c], result[c], kept, now + CallKeyTTL, ok)
           ELSE UNCHANGED <<rec, jVars>>
    BY <1>11 DEF completeCall
  <2>2. Grown BY <2>1 DEF Grown
  <2>3. Made(KeyOf[c], result[c], result') BY <2>1 DEF Made
  <2>4. Sane(journal', result') /\ Sane(callsFile', result')
    <3>1. CASE Keyed(c)
      <4>1. KeyOf[c] \in Keys BY <1>0, <3>1 DEF Keyed
      <4> QED BY <2>1, <2>2, <2>3, <3>1, <4>1, CompleteSane
    <3>2. CASE ~Keyed(c)
      BY <2>1, <2>2, <3>2, SaneLater DEF ToldInv, jVars
    <3> QED BY <3>1, <3>2
  <2>5. /\ reply'[c] = result[c] /\ pc'[c] = "done"
        /\ \A d \in Calls : d # c => reply'[d] = reply[d] /\ pc'[d] = pc[d]
    BY <1>0a, <2>1 DEF Return, Goto
  <2>6. OutcomeWasProduced'
    BY <2>1, <2>5 DEF ToldInv, OutcomeWasProduced, Keyed
  <2>7. r.outcome = result[c]
    OBVIOUS
  <2> HIDE DEF r
  <2>8. \A d \in Calls : Keyed(d) /\ rec'[d].outcome \in Told =>
                             Made(KeyOf[d], rec'[d].outcome, result')
    BY <2>1, <2>3, <2>7 DEF ToldInv, TypeOK, Keyed
  <2> QED BY <2>1, <2>4, <2>5, <2>6, <2>8 DEF ToldInv, Keyed
<1> QED
  BY <1>1, <1>2, <1>3, <1>4, <1>5, <1>6, <1>7, <1>8, <1>9, <1>10, <1>11
     DEF HandlerStep, Told

LEMMA ToldStep == TypeOK /\ ToldInv /\ [Next]_vars => ToldInv'
<1> SUFFICES ASSUME TypeOK, ToldInv, [Next]_vars PROVE ToldInv'
  OBVIOUS
<1> USE HarnessAssumption DEF procVars, callVars, claimVars, openVars, histVars
<1>1. ASSUME UNCHANGED <<pc, result, reply, waits, rec, jVars>>,
             calls' = calls \/ calls' = [k \in Keys |-> NoCall]
      PROVE  ToldInv'
  BY <1>1, ToldKept DEF ToldInv
<1>2. ASSUME NEW p \in Peers, NEW atoms \in Tips, NEW ok \in BOOLEAN, TopUp(p, atoms, ok)
      PROVE  ToldInv'
  BY <1>1, <1>2 DEF TopUp
<1>3. CASE Tick \/ Crash \/ UNCHANGED vars
  BY <1>1, <1>3 DEF Tick, Crash, vars
<1>4. ASSUME UNCHANGED <<pc, result, reply, waits, rec, calls>>,
             Sane(journal', result'), Sane(callsFile', result')
      PROVE  ToldInv'
  <2>1. OutcomeWasProduced' BY <1>4 DEF ToldInv, OutcomeWasProduced, Keyed
  <2> QED BY <1>4, <2>1 DEF ToldInv, Keyed
<1>5. CASE Restart
  <2>1. UNCHANGED <<pc, result, reply, waits, rec, calls, callsFile>> /\ journal' = callsFile
    BY <1>5 DEF Restart
  <2> QED BY <1>4, <2>1 DEF ToldInv
<1>6. ASSUME NEW k \in Keys, NEW ok \in BOOLEAN, RefundInterrupted(k, ok) PROVE ToldInv'
  BY <1>1, <1>6 DEF RefundInterrupted
<1>7. ASSUME NEW ok \in BOOLEAN, RemoveInterrupted(ok) PROVE ToldInv'
  <2> DEFINE j == [journal EXCEPT ![credited] = NoEntry]
  <2>1. persistJournal(j, ok) /\ UNCHANGED <<pc, result, reply, waits, rec, calls>>
    BY <1>7 DEF RemoveInterrupted
  <2>2. Grown BY <2>1 DEF Grown
  <2>3. Sane(j, result')
    BY <2>1 DEF ToldInv, Sane, TypeOK, NoEntry, Told
  <2> HIDE DEF j
  <2> QED BY <1>4, <2>1, <2>2, <2>3, PersistSane
<1>8. ASSUME NEW ok \in BOOLEAN, Serve(ok) PROVE ToldInv'
  <2> DEFINE replayable == {k \in Keys : journal[k].done /\ ~EntryExpired(journal[k])}
  <2>1. /\ UNCHANGED <<pc, result, reply, waits>> /\ gc(ok)
        /\ calls' = [k \in Keys |-> IF k \in replayable THEN journal[k].owner ELSE NoCall]
        /\ \A c \in Calls : Keyed(c) =>
              rec'[c] = rec[c] \/ rec'[c].outcome = journal[KeyOf[c]].outcome
    BY <1>8 DEF Serve
  <2>2. Grown BY <2>1 DEF Grown
  <2>3. Sane(journal', result') /\ Sane(callsFile', result') BY <2>1, <2>2, GcSane
  <2>4. \A k \in Keys : calls'[k] # NoCall => KeyOf[calls'[k]] = k
    BY <2>1 DEF ToldInv, Sane
  <2>5. \A c \in Calls : Keyed(c) => KeyOf[c] \in Keys BY HarnessAssumption DEF Keyed
  <2>6. \A c \in Calls : Keyed(c) /\ rec'[c].outcome \in Told =>
                             Made(KeyOf[c], rec'[c].outcome, result')
    BY <2>1, <2>5 DEF ToldInv, Sane
  <2>7. OutcomeWasProduced' BY <2>1 DEF ToldInv, OutcomeWasProduced, Keyed
  <2> QED BY <2>1, <2>3, <2>4, <2>6, <2>7 DEF ToldInv, Keyed
<1> QED
  BY <1>2, <1>3, <1>5, <1>6, <1>7, <1>8, ToldOfHandler DEF Next, RecoveryStep

\* An outcome a delivery reports was produced by an execution under its own
\* key, whatever failed or crashed (claimCall, completeCall, openJournal).
THEOREM OutcomeWasProducedCorrect == Spec => []OutcomeWasProduced
<1>1. ToldInv => OutcomeWasProduced
  BY DEF ToldInv
<1> QED BY <1>1, ToldInit, ToldStep, TypeCorrect, PTL DEF Spec

-----------------------------------------------------------------------------
(***************************************************************************)
(* The harness implements PaidCall: initial states map to initial states,  *)
(* and every step maps to a step of the abstract specification or a        *)
(* stutter.                                                                *)
(***************************************************************************)

(***************************************************************************)
(* What the mapping needs besides IInv: charges are priced and precede     *)
(* their entries, failures are refunded, and a completed entry agrees with *)
(* its record.                                                             *)
(***************************************************************************)
PriceInv ==
    \A c \in Calls :
        /\ pc[c] = "debit" => price[c] > 0
        /\ c \in charged => price[c] > 0
        /\ pc[c] \in {"new", "wait", "admit", "debit"} => c \notin charged
        /\ pc[c] \in {"journal", "refund"} => c \in charged
        /\ pc[c] = "run" /\ price[c] > 0 => c \in charged
        /\ /\ c \notin dead /\ c \in charged
           /\ pc[c] \in {"finish", "done"} /\ result[c] # "ok"
           => refunds[c] >= 1

FileInv ==
    \A k \in Keys :
        LET e == callsFile[k]
        IN  e.owner # NoCall =>
                /\ e.owner \in charged
                /\ e.done => /\ pc[e.owner] = "done"
                             /\ rec[e.owner].expires = e.expires
                             /\ phase = "up" => calls[k] = e.owner

RInv == IInv /\ PriceInv /\ (Sound => FileInv)
\* Failed writes are only ever added (persistLocked of ledger and journal).
LEMMA WriteGrows ==
    ASSUME TypeOK, NEW ok, Write(ok) PROVE diskFaults' >= diskFaults
BY DEF Write, TypeOK, LedgerTypeOK

\* No step forgets a failed write, one step per action that writes.
LEMMA FaultsGrow == TypeOK /\ [Next]_vars => diskFaults' >= diskFaults
<1> SUFFICES ASSUME TypeOK, [Next]_vars PROVE diskFaults' >= diskFaults
  OBVIOUS
<1>0. diskFaults >= diskFaults
  BY DEF TypeOK, LedgerTypeOK
<1>1. ASSUME NEW j, NEW ok, persistJournal(j, ok) PROVE diskFaults' >= diskFaults
  BY <1>1, WriteGrows DEF persistJournal
<1>2. ASSUME NEW ok, gc(ok) PROVE diskFaults' >= diskFaults
  BY <1>0, <1>1, <1>2 DEF gc, ledgerVars
<1>3. ASSUME NEW k, NEW o, NEW kept, NEW x, NEW ok, complete(k, o, kept, x, ok)
      PROVE  diskFaults' >= diskFaults
  BY <1>0, <1>1, <1>3 DEF complete, ledgerVars
<1>4. ASSUME NEW p, NEW a, NEW ok, Credit(p, a, ok) \/ Debit(p, a, ok)
      PROVE  diskFaults' >= diskFaults
  BY <1>0, <1>4, WriteGrows DEF Credit, Debit, persistLocked, ledgerVars
<1>5. CASE UNCHANGED ledgerVars
  BY <1>0, <1>5 DEF ledgerVars
<1>6. ASSUME NEW c \in Calls, NEW ok \in BOOLEAN, claimCall(c, ok)
      PROVE  diskFaults' >= diskFaults
  BY <1>2, <1>6 DEF claimCall
<1>7. ASSUME NEW c \in Calls, NEW ok \in BOOLEAN,
             charge(c, ok) \/ RefundFailure(c, ok) \/ journalCharged(c, ok)
      PROVE  diskFaults' >= diskFaults
  BY <1>1, <1>4, <1>7 DEF charge, RefundFailure, journalCharged
<1>8. ASSUME NEW c \in Calls, NEW kept \in BOOLEAN, NEW ok \in BOOLEAN,
             completeCall(c, kept, ok)
      PROVE  diskFaults' >= diskFaults
  BY <1>3, <1>5, <1>8 DEF completeCall
<1>9. ASSUME NEW p \in Peers, NEW a \in Tips, NEW ok \in BOOLEAN, TopUp(p, a, ok)
      PROVE  diskFaults' >= diskFaults
  BY <1>4, <1>9 DEF TopUp
<1>10. CASE RecoveryStep
  <2>1. CASE Restart
    BY <1>0, <2>1 DEF Restart, OpenLedger
  <2>2. ASSUME NEW k \in Keys, NEW ok \in BOOLEAN, RefundInterrupted(k, ok)
        PROVE  diskFaults' >= diskFaults
    BY <1>4, <2>2 DEF RefundInterrupted
  <2>3. ASSUME NEW ok \in BOOLEAN, RemoveInterrupted(ok) \/ Serve(ok)
        PROVE  diskFaults' >= diskFaults
    BY <1>1, <1>2, <2>3 DEF RemoveInterrupted, Serve
  <2> QED BY <1>10, <2>1, <2>2, <2>3 DEF RecoveryStep
<1>11. ASSUME NEW c \in Calls,
              \/ ArriveUnkeyed(c) \/ CancelDuplicate(c) \/ AnswerDuplicate(c)
              \/ RefuseEarly(c) \/ RefuseUnpaid(c)
              \/ \E a \in Prices : Price(c, a)
              \/ \E o \in {"ok", "err"} : Run(c, o)
       PROVE  diskFaults' >= diskFaults
  BY <1>5, <1>11
     DEF ArriveUnkeyed, CancelDuplicate, AnswerDuplicate, RefuseEarly, RefuseUnpaid,
         Price, Run
<1>12. CASE Tick \/ Crash \/ UNCHANGED vars
  BY <1>5, <1>12 DEF Tick, Crash, vars
<1> QED
  BY <1>6, <1>7, <1>8, <1>9, <1>10, <1>11, <1>12 DEF Next, HandlerStep

\* Before the first delivery nothing is charged (NewHarness).
LEMMA TraceInit == Init => PriceInv /\ FileInv
BY DEF Init, PriceInv, FileInv, NoEntry

\* Charges are priced and precede their entries, and failures are refunded
\* before the call ends (AddToolPriced).
LEMMA PriceStep == TypeOK /\ ClaimInv /\ PriceInv /\ [Next]_vars => PriceInv'
<1> SUFFICES ASSUME TypeOK, ClaimInv, PriceInv, [Next]_vars PROVE PriceInv'
  OBVIOUS
<1> USE HarnessAssumption DEF procVars, callVars, claimVars, openVars, histVars
<1>1. ASSUME NEW c \in Calls, ArriveUnkeyed(c) PROVE PriceInv'
  BY <1>1 DEF ArriveUnkeyed, Goto, PriceInv, TypeOK
<1>2. ASSUME NEW c \in Calls, NEW ok \in BOOLEAN, claimCall(c, ok) PROVE PriceInv'
  BY <1>2 DEF claimCall, Goto, PriceInv, TypeOK
<1>3. ASSUME NEW c \in Calls, NEW r, Return(c, r),
             pc[c] \in {"wait", "admit", "debit"},
             UNCHANGED <<price, charged, dead, result, refunds>>
      PROVE  PriceInv'
  BY <1>3 DEF Return, Goto, PriceInv, TypeOK
<1>4. ASSUME NEW c \in Calls,
             \/ AnswerDuplicate(c) \/ CancelDuplicate(c)
             \/ RefuseEarly(c) \/ RefuseUnpaid(c)
      PROVE  PriceInv'
  BY <1>3, <1>4
     DEF AnswerDuplicate, CancelDuplicate, RefuseEarly, RefuseUnpaid, refuse
<1>7. ASSUME NEW c \in Calls, NEW atoms \in Prices, Price(c, atoms) PROVE PriceInv'
  BY <1>7 DEF Price, Executing, Goto, PriceInv, TypeOK
<1>9. ASSUME NEW c \in Calls, NEW ok \in BOOLEAN, charge(c, ok) PROVE PriceInv'
  <2>1. CASE ok
    BY <1>9, <2>1 DEF charge, Executing, Goto, PriceInv, TypeOK
  <2>2. CASE ~ok
    BY <1>3, <1>9, <2>2 DEF charge, refuse
  <2> QED BY <2>1, <2>2
<1>10. ASSUME NEW c \in Calls, NEW ok \in BOOLEAN, journalCharged(c, ok) PROVE PriceInv'
  BY <1>10 DEF journalCharged, Goto, PriceInv, TypeOK
<1>11. ASSUME NEW c \in Calls, NEW o \in {"ok", "err"}, Run(c, o) PROVE PriceInv'
  BY <1>11 DEF Run, Goto, PriceInv, TypeOK
<1>12. ASSUME NEW c \in Calls, NEW ok \in BOOLEAN, RefundFailure(c, ok) PROVE PriceInv'
  BY <1>12 DEF RefundFailure, Goto, PriceInv, TypeOK
<1>13. ASSUME NEW c \in Calls, NEW kept \in BOOLEAN, NEW ok \in BOOLEAN,
              completeCall(c, kept, ok)
       PROVE  PriceInv'
  BY <1>13 DEF completeCall, Executing, Return, Goto, PriceInv, TypeOK
<1>14. ASSUME NEW p \in Peers, NEW atoms \in Tips, NEW ok \in BOOLEAN,
              TopUp(p, atoms, ok)
       PROVE  PriceInv'
  BY <1>14 DEF TopUp, PriceInv
<1>15. ASSUME Tick \/ Crash \/ Restart PROVE PriceInv'
  BY <1>15 DEF Tick, Crash, Restart, PriceInv
<1>18. ASSUME NEW k \in Keys, NEW ok \in BOOLEAN, RefundInterrupted(k, ok) PROVE PriceInv'
  BY <1>18 DEF RefundInterrupted, PriceInv, TypeOK
<1>19. ASSUME NEW ok \in BOOLEAN, RemoveInterrupted(ok) \/ Serve(ok) PROVE PriceInv'
  BY <1>19 DEF RemoveInterrupted, Serve, PriceInv
<1>21. CASE UNCHANGED vars
  BY <1>21 DEF vars, PriceInv
<1> QED
  BY <1>1, <1>2, <1>4, <1>7, <1>9, <1>10, <1>11, <1>12, <1>13, <1>14, <1>15,
     <1>18, <1>19, <1>21
     DEF Next, HandlerStep, RecoveryStep

\* While no write has failed, an entry belongs to a charged delivery, and a
\* completed one to a finished delivery whose record expires with it.
LEMMA FileStep ==
    RInv /\ [Next]_vars /\ diskFaults' = 0 => FileInv'
<1> SUFFICES ASSUME RInv, [Next]_vars, diskFaults' = 0 PROVE FileInv'
  OBVIOUS
<1>0. /\ TypeOK /\ TypeOK' /\ ClaimInv /\ PriceInv
      /\ diskFaults = 0 /\ Books /\ FileInv
      /\ \A k \in Keys : callsFile[k] \in Entry
  <2>1. TypeOK /\ TypeOK' /\ ClaimInv /\ PriceInv
    BY TypeStep DEF RInv, IInv
  <2>2. diskFaults = 0
    BY <2>1, FaultsGrow DEF TypeOK, LedgerTypeOK
  <2> QED BY <2>1, <2>2 DEF RInv, IInv, Sound, TypeOK
<1> USE HarnessAssumption DEF procVars, callVars, claimVars, openVars, histVars
\* Steps that leave the file, and the finished deliveries' records, alone.
<1>a. ASSUME callsFile' = callsFile, charged \subseteq charged',
             phase' = "up" => phase = "up" /\ calls' = calls,
             \A c \in Calls : pc[c] = "done" => pc'[c] = "done"
                                             /\ rec'[c].expires = rec[c].expires
      PROVE  FileInv'
  BY <1>0, <1>a DEF FileInv, Entry
\* An execution in progress finds no completed entry under its key.
<1>b. ASSUME NEW c \in Calls, Executing(c), Keyed(c)
      PROVE  KeyOf[c] \in Keys /\ ~callsFile[KeyOf[c]].done
  <2>1. KeyOf[c] \in Keys /\ calls[KeyOf[c]] = c /\ phase = "up" /\ pc[c] # "done"
    BY <1>0, <1>b DEF ClaimInv, Executing, Keyed
  <2>2. CASE callsFile[KeyOf[c]].owner = NoCall
    BY <1>0, <2>1, <2>2 DEF Books, OpenInv, EntryOf, NoEntry
  <2>3. CASE callsFile[KeyOf[c]].owner # NoCall
    BY <1>0, <2>1, <2>3 DEF FileInv
  <2> QED BY <2>1, <2>2, <2>3
<1>1. ASSUME NEW c \in Calls, ArriveUnkeyed(c) PROVE FileInv'
  BY <1>0, <1>1, <1>a DEF ArriveUnkeyed, Goto, TypeOK, jVars
<1>2. ASSUME NEW c \in Calls, NEW ok \in BOOLEAN, claimCall(c, ok) PROVE FileInv'
  <2>1. phase = "up" /\ phase' = phase /\ pc[c] = "new" /\ gc(ok) /\ charged' = charged
    BY <1>2 DEF claimCall
  <2>2. \A k \in Keys :
            callsFile'[k] = IF EntryExpired(callsFile[k]) THEN NoEntry ELSE callsFile[k]
    BY <1>0, <2>1, GcEffect DEF Books, OpenInv
  <2>3. \A d \in Calls : pc[d] = "done" => pc'[d] = "done" /\ rec'[d] = rec[d]
    BY <1>0, <1>2, <2>1 DEF claimCall, Goto, TypeOK
  <2> SUFFICES ASSUME NEW k \in Keys, callsFile'[k].owner # NoCall
               PROVE  /\ callsFile'[k].owner \in charged
                      /\ callsFile'[k].done =>
                            /\ pc'[callsFile'[k].owner] = "done"
                            /\ rec'[callsFile'[k].owner].expires = callsFile'[k].expires
                            /\ calls'[k] = callsFile'[k].owner
    BY <2>1 DEF FileInv
  <2>4. callsFile'[k] = callsFile[k] /\ ~EntryExpired(callsFile[k])
        /\ callsFile[k].owner \in Calls
    BY <1>0, <2>2 DEF NoEntry, Entry
  <2>5. CASE ~callsFile[k].done
    BY <1>0, <2>4, <2>5 DEF FileInv
  <2>6. CASE callsFile[k].done
    <3> DEFINE d == callsFile[k].owner
    <3>1. /\ d \in Calls /\ d \in charged /\ pc[d] = "done"
          /\ rec[d].expires = callsFile[k].expires /\ calls[k] = d
      BY <1>0, <2>1, <2>4, <2>6 DEF FileInv
    <3>2. Claims[k] = d
      BY <1>0, <2>4, <2>6, <3>1 DEF Claims, RecordExpired, EntryExpired
    <3>3. calls'[k] = d
      BY <1>0, <1>2, <3>1, <3>2 DEF claimCall, Claims, TypeOK
    <3> QED BY <2>3, <2>4, <3>1, <3>3
  <2> QED BY <2>5, <2>6
<1>3. ASSUME NEW c \in Calls, NEW r, refuse(c, r), Executing(c),
             UNCHANGED <<callsFile, charged, phase>>
      PROVE  FileInv'
  <2>1. pc' = [pc EXCEPT ![c] = "done"] /\ pc[c] # "done"
    BY <1>3 DEF refuse, Return, Goto, Executing
  <2>2. CASE ~Keyed(c)
    BY <1>0, <1>3, <1>a, <2>1, <2>2 DEF refuse, releaseCall, TypeOK
  <2>3. CASE Keyed(c)
    <3>1. ~callsFile[KeyOf[c]].done
      BY <1>3, <1>b, <2>3
    <3>2. /\ \A k \in Keys \ {KeyOf[c]} : calls'[k] = calls[k]
          /\ \A d \in Calls \ {c} : rec'[d] = rec[d] /\ pc'[d] = pc[d]
      BY <1>0, <1>3, <2>1, <2>3 DEF refuse, releaseCall, TypeOK
    <3> QED BY <1>0, <1>3, <2>1, <3>1, <3>2 DEF FileInv, Entry
  <2> QED BY <2>2, <2>3
<1>4. ASSUME NEW c \in Calls, AnswerDuplicate(c) \/ CancelDuplicate(c) PROVE FileInv'
  BY <1>0, <1>4, <1>a
     DEF AnswerDuplicate, CancelDuplicate, Return, Goto, TypeOK, jVars
<1>5. ASSUME NEW c \in Calls, RefuseEarly(c) \/ RefuseUnpaid(c) PROVE FileInv'
  BY <1>3, <1>5 DEF RefuseEarly, RefuseUnpaid, jVars
<1>7. ASSUME NEW c \in Calls, NEW atoms \in Prices, Price(c, atoms) PROVE FileInv'
  BY <1>0, <1>7, <1>a DEF Price, Goto, TypeOK, jVars
<1>9. ASSUME NEW c \in Calls, NEW ok \in BOOLEAN, charge(c, ok) PROVE FileInv'
  <2>1. ok
    BY <1>0, <1>9, LedgerEffect DEF charge
  <2> QED BY <1>0, <1>9, <1>a, <2>1 DEF charge, Goto, TypeOK, jVars
<1>10. ASSUME NEW c \in Calls, NEW ok \in BOOLEAN, journalCharged(c, ok) PROVE FileInv'
  <2> DEFINE j == [journal EXCEPT ![KeyOf[c]] = Charge(c)]
  <2>1. persistJournal(j, ok) /\ pc[c] = "journal" /\ Executing(c)
    BY <1>10 DEF journalCharged
  <2>2. callsFile' = j /\ journal = callsFile
    <3>1. callsFile' = j
      <4> HIDE DEF j
      <4> QED BY <1>0, <2>1, PersistEffect
    <3>2. journal = callsFile
      BY <1>0, <2>1 DEF ClaimInv, Books, OpenInv
    <3> QED BY <3>1, <3>2
  <2>3. \A k \in Keys : \/ callsFile'[k] = callsFile[k]
                        \/ callsFile'[k] = Charge(c)
    BY <1>0, <2>2 DEF TypeOK
  <2>4. /\ c \in charged /\ UNCHANGED <<charged, rec, calls, phase>>
        /\ \A d \in Calls : pc[d] = "done" => pc'[d] = "done"
    BY <1>0, <1>10, <2>1 DEF journalCharged, PriceInv, Goto, TypeOK
  <2> QED BY <1>0, <2>3, <2>4 DEF FileInv, Charge, Entry
<1>11. ASSUME NEW c \in Calls, NEW o \in {"ok", "err"}, Run(c, o) PROVE FileInv'
  BY <1>0, <1>11, <1>a DEF Run, Goto, TypeOK, jVars
<1>12. ASSUME NEW c \in Calls, NEW ok \in BOOLEAN, RefundFailure(c, ok) PROVE FileInv'
  BY <1>0, <1>12, <1>a DEF RefundFailure, Goto, TypeOK, jVars
<1>13. ASSUME NEW c \in Calls, NEW kept \in BOOLEAN, NEW ok \in BOOLEAN,
              completeCall(c, kept, ok)
       PROVE  FileInv'
  <2>1. /\ Executing(c) /\ pc[c] = "finish" /\ charged' = charged
        /\ \A d \in Calls : pc'[d] = IF d = c THEN "done" ELSE pc[d]
        /\ \A d \in Calls \ {c} : rec'[d] = rec[d]
    BY <1>0, <1>13 DEF completeCall, Return, Goto, TypeOK
  <2>2. CASE ~Keyed(c)
    BY <1>0, <1>13, <1>a, <2>1, <2>2 DEF completeCall, jVars
  <2>3. CASE Keyed(c)
    <3>1. /\ KeyOf[c] \in Keys
          /\ complete(KeyOf[c], result[c], kept, now + CallKeyTTL, ok)
          /\ rec'[c].expires = now + CallKeyTTL
          /\ journal = callsFile
      BY <1>0, <1>13, <2>1, <2>3
         DEF completeCall, Keyed, ClaimInv, Books, OpenInv, TypeOK
    <3>2. /\ \A i \in Keys \ {KeyOf[c]} : callsFile'[i] = callsFile[i]
          /\ callsFile[KeyOf[c]] = NoEntry => callsFile'[KeyOf[c]] = NoEntry
          /\ callsFile[KeyOf[c]] # NoEntry =>
                 /\ callsFile'[KeyOf[c]].owner = callsFile[KeyOf[c]].owner
                 /\ callsFile'[KeyOf[c]].done
                 /\ callsFile'[KeyOf[c]].expires = now + CallKeyTTL
      <4> DEFINE o == result[c]
                 x == now + CallKeyTTL
      <4>1. /\ TypeOK /\ KeyOf[c] \in Keys /\ kept \in BOOLEAN /\ ok \in BOOLEAN
            /\ complete(KeyOf[c], o, kept, x, ok) /\ diskFaults' = 0
            /\ journal = callsFile
        BY <1>0, <3>1
      <4> HIDE DEF o, x
      <4>2. /\ \A i \in Keys \ {KeyOf[c]} : callsFile'[i] = callsFile[i]
            /\ callsFile[KeyOf[c]] = NoEntry => callsFile'[KeyOf[c]] = NoEntry
            /\ callsFile[KeyOf[c]] # NoEntry =>
                   /\ callsFile'[KeyOf[c]].owner = callsFile[KeyOf[c]].owner
                   /\ callsFile'[KeyOf[c]].done
                   /\ callsFile'[KeyOf[c]].expires = x
        BY <4>1, CompleteEffect
      <4> QED BY <4>2 DEF x
    <3>3. ~callsFile[KeyOf[c]].done
      BY <1>b, <2>1, <2>3
    \* The entry, if there is one, is c's own.
    <3>4. callsFile[KeyOf[c]].owner \in {c, NoCall}
      <4> SUFFICES ASSUME NEW d \in Calls, d # c, callsFile[KeyOf[c]].owner = d
                   PROVE  FALSE
        BY <1>0, <3>1 DEF Entry
      <4>1. Open(callsFile[KeyOf[c]]) /\ EntryOf(KeyOf[c], callsFile[KeyOf[c]])
        BY <1>0, <3>1, <3>3 DEF Open, Books, OpenInv
      <4>2. KeyOf[d] = KeyOf[c] /\ phase = "up" /\ d \notin dead /\ pc[d] \in InFlight
        BY <1>0, <2>1, <3>1, <4>1 DEF EntryOf, ClaimInv, Books, OpenInv
      <4> QED BY <1>0, <2>1, <2>3, <4>2 DEF ClaimInv, Executing, Keyed, InFlight
    <3>5. calls' = calls /\ phase' = phase /\ phase = "up" /\ calls[KeyOf[c]] = c
      BY <1>0, <1>13, <2>1, <2>3 DEF completeCall, ClaimInv
    <3>6. CASE callsFile[KeyOf[c]] = NoEntry
      BY <1>0, <2>1, <3>2, <3>5, <3>6 DEF FileInv, Entry, NoEntry
    <3>7. CASE callsFile[KeyOf[c]] # NoEntry
      <4>1. callsFile[KeyOf[c]].owner = c
        BY <1>0, <3>1, <3>4, <3>7 DEF Books, OpenInv, EntryOf
      <4>2. \A k \in Keys \ {KeyOf[c]} : callsFile[k].owner # c
        BY <1>0 DEF Books, OpenInv, EntryOf
      <4> QED BY <1>0, <2>1, <3>1, <3>2, <3>5, <3>7, <4>1, <4>2 DEF FileInv, Entry
    <3> QED BY <3>6, <3>7
  <2> QED BY <2>2, <2>3
<1>14. ASSUME NEW p \in Peers, NEW atoms \in Tips, NEW ok \in BOOLEAN,
              TopUp(p, atoms, ok)
       PROVE  FileInv'
  BY <1>0, <1>14, <1>a DEF TopUp, jVars
<1>15. ASSUME Tick \/ Crash \/ Restart PROVE FileInv'
  BY <1>0, <1>15, <1>a DEF Tick, Crash, Restart, jVars
<1>18. ASSUME NEW k \in Keys, NEW ok \in BOOLEAN, RefundInterrupted(k, ok) PROVE FileInv'
  BY <1>0, <1>18, <1>a DEF RefundInterrupted, jVars
<1>19. ASSUME NEW ok \in BOOLEAN, RemoveInterrupted(ok) PROVE FileInv'
  <2> DEFINE j == [journal EXCEPT ![credited] = NoEntry]
  <2>1. persistJournal(j, ok) /\ phase = "recovering" /\ phase' = phase
        /\ UNCHANGED <<pc, rec, charged, calls>>
    BY <1>19 DEF RemoveInterrupted
  <2>2. journal = callsFile
    BY <1>0, <2>1 DEF Books, OpenInv
  <2>3. callsFile' = j
    <3> HIDE DEF j
    <3> QED BY <1>0, <2>1, PersistEffect
  <2>4. \A k \in Keys : callsFile'[k] \in {callsFile[k], NoEntry}
    BY <1>0, <2>2, <2>3 DEF TypeOK
  <2> QED BY <1>0, <2>1, <2>4 DEF FileInv, NoEntry
<1>20. ASSUME NEW ok \in BOOLEAN, Serve(ok) PROVE FileInv'
  <2>1. phase = "recovering" /\ gc(ok) /\ UNCHANGED <<pc, charged, now>>
    BY <1>20 DEF Serve
  <2>2. /\ journal = callsFile
        /\ \A k \in Keys :
            callsFile'[k] = IF EntryExpired(callsFile[k]) THEN NoEntry ELSE callsFile[k]
    BY <1>0, <2>1, GcEffect DEF Books, OpenInv
  <2> SUFFICES ASSUME NEW k \in Keys, callsFile'[k].owner # NoCall
               PROVE  /\ callsFile'[k].owner \in charged
                      /\ callsFile'[k].done =>
                            /\ pc[callsFile'[k].owner] = "done"
                            /\ rec'[callsFile'[k].owner].expires = callsFile'[k].expires
                            /\ calls'[k] = callsFile'[k].owner
    BY <2>1 DEF FileInv
  <2>3. callsFile'[k] = callsFile[k] /\ ~EntryExpired(callsFile[k])
        /\ callsFile[k].owner \in Calls
    BY <1>0, <2>2 DEF NoEntry, Entry
  <2>4. CASE ~callsFile[k].done
    BY <1>0, <2>3, <2>4 DEF FileInv
  <2>5. CASE callsFile[k].done
    <3> DEFINE d == callsFile[k].owner
    <3>1. d \in Calls /\ d \in charged /\ pc[d] = "done" /\ KeyOf[d] = k
      BY <1>0, <2>3, <2>5 DEF FileInv, Books, OpenInv, EntryOf
    <3>2. calls'[k] = d /\ rec'[d].expires = callsFile[k].expires
      BY <1>20, <2>2, <2>3, <2>5, <3>1 DEF Serve, Keyed
    <3> QED BY <2>3, <3>1, <3>2
  <2> QED BY <2>4, <2>5
<1>21. CASE UNCHANGED vars
  BY <1>0, <1>21, <1>a DEF vars, jVars
<1> QED
  BY <1>1, <1>2, <1>4, <1>5, <1>7, <1>9, <1>10, <1>11, <1>12, <1>13, <1>14, <1>15,
     <1>18, <1>19, <1>20, <1>21
     DEF Next, HandlerStep, RecoveryStep

\* Every step keeps what the refinement rests on (AddToolPriced, callJournal).
LEMMA RInvStep == RInv /\ [Next]_vars => RInv'
<1> SUFFICES ASSUME RInv, [Next]_vars PROVE RInv'
  OBVIOUS
<1>1. IInv'
  BY TypeStep, ClaimStep, BooksStep DEF IInv, RInv
<1>2. PriceInv'
  BY PriceStep DEF IInv, RInv
<1>3. Sound' => FileInv'
  BY FileStep DEF Sound
<1> QED BY <1>1, <1>2, <1>3 DEF RInv

\* What the refinement rests on holds always: charges are priced, precede
\* their entries and are refunded on failure (AddToolPriced, callJournal).
THEOREM RInvCorrect == Spec => []RInv
<1>1. Init => RInv
  BY TypeInit, ClaimInit, BooksInit, TraceInit DEF IInv, RInv
<1> QED BY <1>1, RInvStep, PTL DEF Spec

(***************************************************************************)
(* The mapping.                                                            *)
(***************************************************************************)
\* While the harness serves nothing is owed: openJournal visited every entry.
LEMMA NothingOwed ==
    RInv /\ Sound => (phase = "up" => \A c \in Calls : ~Owed(c))
BY HarnessAssumption
   DEF RInv, IInv, Sound, Books, OpenInv, Open, Owed, Keyed, TypeOK

\* What a delivery's bill depends on.
LEMMA BillKeeps ==
    ASSUME NEW d \in Calls,
           d \in charged' <=> d \in charged, refunds'[d] = refunds[d],
           Owed(d)' <=> Owed(d), d \in dead' <=> d \in dead,
           d \in charged => (   (pc'[d] = "done" /\ result'[d] = "ok")
                            <=> (pc[d] = "done" /\ result[d] = "ok"))
    PROVE  BillOf(d)' = BillOf(d)
BY DEF BillOf

\* What the settled keys depend on.
LEMMA ReplayedKeeps ==
    ASSUME now' = now,
           \A d \in Calls : Settled(d)' <=> Settled(d),
           \A d \in Calls : Settled(d) => rec'[d].expires = rec[d].expires
    PROVE  Replayed' = Replayed
BY DEF Replayed

\* A step that changes neither bills nor settled keys is a stutter.
LEMMA Stutters ==
    ASSUME Sound, Sound', \A d \in Calls : BillOf(d)' = BillOf(d),
           refunds' = refunds, Replayed' = Replayed, crashes' = crashes,
           phase' = "up" <=> phase = "up"
    PROVE  UNCHANGED Paid!paidVars
<1>1. UNCHANGED <<billBar, givenBar, settledBar, crashedBar>>
  BY DEF billBar, givenBar, settledBar, crashedBar
<1>2. servingBar' = servingBar
  BY DEF servingBar
<1>3. (~Sound)' = ~Sound
  OBVIOUS
<1> QED BY <1>1, <1>2, <1>3 DEF Paid!paidVars

\* Before the first delivery nothing is billed (NewHarness).
LEMMA InitMaps == Init => Paid!PaidInit
<1> SUFFICES ASSUME Init PROVE Paid!PaidInit
  OBVIOUS
<1>1. Sound /\ servingBar = TRUE /\ (~Sound) = FALSE
  BY DEF Init, Sound, servingBar
<1>2. billBar = [c \in Calls |-> "none"]
  BY <1>1 DEF Init, billBar, BillOf
<1>3. givenBar = [c \in Calls |-> 0] /\ crashedBar = 0
  BY <1>1 DEF Init, givenBar, crashedBar
<1>4. settledBar = {}
  BY <1>1 DEF Init, settledBar, Replayed, Settled
<1> QED BY <1>1, <1>2, <1>3, <1>4 DEF Paid!PaidInit

\* The step in which a write fails gives up the promise (persistLocked).
LEMMA FaultMaps == ASSUME Sound, ~Sound' PROVE Paid!Fault
<1>1. servingBar' = TRUE /\ (~Sound)' = TRUE /\ ~~Sound
  BY DEF servingBar
<1>2. /\ billBar' = [c \in Calls |-> "none"]
      /\ givenBar' = [c \in Calls |-> 0]
      /\ settledBar' = {} /\ crashedBar' = 0
  BY DEF billBar, givenBar, settledBar, crashedBar
<1> QED BY <1>1, <1>2 DEF Paid!Fault

\* What is promised no longer stays so.
LEMMA FaultyStays == ASSUME ~Sound, ~Sound' PROVE UNCHANGED Paid!paidVars
<1>1. UNCHANGED <<billBar, givenBar, settledBar, crashedBar>>
  BY DEF billBar, givenBar, settledBar, crashedBar
<1>2. servingBar' = servingBar
  BY DEF servingBar
<1>3. (~Sound)' = ~Sound
  OBVIOUS
<1> QED BY <1>1, <1>2, <1>3 DEF Paid!paidVars

\* Every step maps to a step of PaidCall or to a stutter while no write has
\* failed, one step per action.
LEMMA SoundStepMaps ==
    ASSUME RInv, RInv', [Next]_vars, Sound, Sound'
    PROVE  [Paid!PaidNext]_Paid!paidVars
<1> USE HarnessAssumption DEF procVars, callVars, claimVars, openVars, histVars
<1>0. /\ TypeOK /\ TypeOK' /\ ClaimInv /\ PriceInv /\ Books /\ FileInv
      /\ diskFaults = 0 /\ diskFaults' = 0 /\ Sound = TRUE /\ Sound' = TRUE
  BY DEF RInv, IInv, Sound
<1>up. phase = "up" => \A d \in Calls : ~Owed(d)
  BY NothingOwed
<1>upp. phase' = "up" => \A d \in Calls : ~Owed(d)'
  BY DEF RInv, IInv, Sound, Books, OpenInv, Open, Owed, Keyed, TypeOK
\* Steps that leave file, credit, ghosts and the ends of paid calls alone.
<1>a. ASSUME UNCHANGED <<callsFile, credited, dead, charged, refunds, now, crashes>>,
             phase' = "up" <=> phase = "up",
             \A d \in Calls : d \in charged =>
                 /\ pc'[d] = "done" <=> pc[d] = "done"
                 /\ pc[d] = "done" => result'[d] = result[d]
                                      /\ rec'[d].expires = rec[d].expires
      PROVE  UNCHANGED Paid!paidVars
  <2>1. \A d \in Calls : Owed(d)' <=> Owed(d)
    BY <1>a DEF Owed
  <2>2. \A d \in Calls : BillOf(d)' = BillOf(d)
    BY <1>a, <2>1, BillKeeps
  <2>3. Replayed' = Replayed
    BY <1>a, ReplayedKeeps DEF Settled
  <2> QED BY <1>a, <2>2, <2>3, Stutters
\* The same while the harness serves, whatever is written to calls.json.
<1>b. ASSUME UNCHANGED <<dead, charged, refunds, now, crashes, phase>>, phase = "up",
             \A d \in Calls : d \in charged =>
                 /\ pc'[d] = "done" <=> pc[d] = "done"
                 /\ pc[d] = "done" => result'[d] = result[d]
                                      /\ rec'[d].expires = rec[d].expires
      PROVE  UNCHANGED Paid!paidVars
  <2>1. \A d \in Calls : Owed(d)' <=> Owed(d)
    BY <1>b, <1>up, <1>upp
  <2>2. \A d \in Calls : BillOf(d)' = BillOf(d)
    BY <1>b, <2>1, BillKeeps
  <2>3. Replayed' = Replayed
    BY <1>b, ReplayedKeeps DEF Settled
  <2> QED BY <1>b, <2>2, <2>3, Stutters
<1>1. ASSUME NEW c \in Calls, ArriveUnkeyed(c) PROVE UNCHANGED Paid!paidVars
  BY <1>0, <1>1, <1>a DEF ArriveUnkeyed, Goto, TypeOK, PriceInv, jVars
<1>2. ASSUME NEW c \in Calls, NEW ok \in BOOLEAN, claimCall(c, ok)
      PROVE  UNCHANGED Paid!paidVars
  BY <1>0, <1>2, <1>b DEF claimCall, Goto, TypeOK, PriceInv
<1>3. ASSUME NEW c \in Calls, NEW r, refuse(c, r), pc[c] \in {"admit", "debit"},
             UNCHANGED <<callsFile, credited, dead, charged, refunds, now, crashes,
                         phase, result>>
      PROVE  UNCHANGED Paid!paidVars
  BY <1>0, <1>3, <1>a
     DEF refuse, releaseCall, Return, Goto, TypeOK, PriceInv
<1>4. ASSUME NEW c \in Calls, AnswerDuplicate(c) \/ CancelDuplicate(c)
      PROVE  UNCHANGED Paid!paidVars
  BY <1>0, <1>4, <1>a
     DEF AnswerDuplicate, CancelDuplicate, Return, Goto, TypeOK, PriceInv, jVars
<1>5. ASSUME NEW c \in Calls, RefuseEarly(c) \/ RefuseUnpaid(c)
      PROVE  UNCHANGED Paid!paidVars
  BY <1>3, <1>5 DEF RefuseEarly, RefuseUnpaid, jVars
<1>7. ASSUME NEW c \in Calls, NEW atoms \in Prices, Price(c, atoms)
      PROVE  UNCHANGED Paid!paidVars
  BY <1>0, <1>7, <1>a DEF Price, Goto, TypeOK, PriceInv, jVars
<1>10. ASSUME NEW c \in Calls, NEW ok \in BOOLEAN, journalCharged(c, ok)
       PROVE  UNCHANGED Paid!paidVars
  <2>1. phase = "up" /\ phase' = "up"
    BY <1>0, <1>10 DEF journalCharged, ClaimInv
  <2> QED BY <1>0, <1>10, <1>b, <2>1 DEF journalCharged, Goto, TypeOK
<1>11. ASSUME NEW c \in Calls, NEW o \in {"ok", "err"}, Run(c, o)
       PROVE  UNCHANGED Paid!paidVars
  BY <1>0, <1>11, <1>a DEF Run, Goto, TypeOK, jVars
<1>14. ASSUME NEW p \in Peers, NEW atoms \in Tips, NEW ok \in BOOLEAN,
              TopUp(p, atoms, ok)
       PROVE  UNCHANGED Paid!paidVars
  BY <1>0, <1>14, <1>a DEF TopUp, jVars
<1>15. ASSUME Restart PROVE UNCHANGED Paid!paidVars
  BY <1>0, <1>15, <1>a DEF Restart
<1>21. CASE UNCHANGED vars
  BY <1>0, <1>21, <1>a DEF vars, jVars
<1>9. ASSUME NEW c \in Calls, NEW ok \in BOOLEAN, charge(c, ok) PROVE Paid!Hold(c)
  <2>1. /\ ok /\ Executing(c) /\ pc[c] = "debit" /\ phase = "up" /\ phase' = "up"
        /\ charged' = charged \cup {c} /\ c \notin charged /\ refunds[c] = 0
        /\ pc'[c] # "done" /\ c \notin dead
        /\ \A d \in Calls \ {c} : pc'[d] = pc[d]
        /\ UNCHANGED <<dead, refunds, result, rec, calls, now, crashes>>
    <3>1. ok
      BY <1>0, <1>9, LedgerEffect DEF charge
    <3>2. Executing(c) /\ pc[c] = "debit" /\ c \notin dead
      BY <1>9 DEF charge, Executing
    <3>3. phase = "up" /\ c \notin charged /\ refunds[c] = 0
      BY <1>0, <3>2 DEF ClaimInv, PriceInv, Books, RefundInv
    <3> QED BY <1>0, <1>9, <3>1, <3>2, <3>3 DEF charge, Goto, TypeOK
  <2>2. BillOf(c) = "none" /\ BillOf(c)' = "held"
    BY <1>upp, <2>1 DEF BillOf
  <2>3. \A d \in Calls \ {c} : BillOf(d)' = BillOf(d)
    BY <1>up, <1>upp, <2>1, BillKeeps
  <2>4. Replayed' = Replayed
    BY <2>1, ReplayedKeeps DEF Settled
  <2>5. KeyOf[c] \notin Replayed
    BY <1>0, <2>1 DEF Replayed, Settled, Books, FinalInv, ClaimInv, Keyed
  <2>6. ASSUME NEW d \in Calls, d # c, KeyOf[c] \in Keys, KeyOf[d] = KeyOf[c],
               BillOf(d) = "held"
        PROVE  FALSE
    <3>1. /\ d \in charged /\ refunds[d] <= 0 /\ d \notin dead
          /\ ~(pc[d] = "done" /\ result[d] = "ok")
      BY <1>0, <1>up, <2>1, <2>6 DEF BillOf, TypeOK
    <3>2. pc[d] \notin {"new", "wait", "admit", "debit", "done"}
      BY <1>0, <3>1 DEF PriceInv, TypeOK
    <3>3. Executing(d)
      BY <1>0, <3>1, <3>2 DEF Executing, TypeOK, Steps
    <3> QED BY <1>0, <2>1, <2>6, <3>3 DEF ClaimInv, Keyed
  <2>7. servingBar = TRUE /\ (~Sound) = FALSE /\ UNCHANGED <<servingBar, ~Sound>>
    BY <1>0, <2>1 DEF servingBar
  <2>8. /\ billBar[c] = "none" /\ KeyOf[c] \notin settledBar
        /\ \A d \in Calls : Paid!Rival(c, d) => billBar[d] # "held"
    BY <1>0, <2>2, <2>5, <2>6 DEF billBar, settledBar, Paid!Rival
  <2>9. billBar' = [billBar EXCEPT ![c] = "held"]
    BY <1>0, <2>2, <2>3 DEF billBar
  <2>10. UNCHANGED <<givenBar, settledBar, crashedBar>>
    BY <1>0, <2>1, <2>4 DEF givenBar, settledBar, crashedBar
  <2> QED BY <2>7, <2>8, <2>9, <2>10 DEF Paid!Hold
<1>12. ASSUME NEW c \in Calls, NEW ok \in BOOLEAN, RefundFailure(c, ok)
       PROVE  Paid!GiveBack(c)
  <2>1. /\ Executing(c) /\ pc[c] = "refund" /\ phase = "up" /\ phase' = "up"
        /\ c \in charged /\ refunds[c] = 0 /\ pc'[c] # "done" /\ c \notin dead
        /\ refunds' = [refunds EXCEPT ![c] = @ + 1]
        /\ \A d \in Calls \ {c} : pc'[d] = pc[d]
        /\ UNCHANGED <<dead, charged, result, rec, now, crashes>>
    BY <1>0, <1>12
       DEF RefundFailure, Executing, ClaimInv, PriceInv, Books, RefundInv, Goto, TypeOK
  <2>2. BillOf(c) = "held" /\ BillOf(c)' = "returned" /\ refunds' \in [Calls -> Nat]
    BY <1>0, <1>up, <1>upp, <2>1 DEF BillOf, TypeOK
  <2>3. \A d \in Calls \ {c} : BillOf(d)' = BillOf(d)
    BY <1>0, <1>up, <1>upp, <2>1, BillKeeps DEF TypeOK
  <2>4. Replayed' = Replayed
    BY <2>1, ReplayedKeeps DEF Settled
  <2>5. (~Sound) = FALSE /\ UNCHANGED <<servingBar, ~Sound, settledBar, crashedBar>>
    BY <1>0, <2>1, <2>4 DEF servingBar, settledBar, crashedBar
  <2>6. billBar[c] = "held" /\ billBar' = [billBar EXCEPT ![c] = "returned"]
    BY <1>0, <2>2, <2>3 DEF billBar
  <2>7. givenBar' = [givenBar EXCEPT ![c] = @ + 1]
    BY <1>0, <2>1 DEF givenBar, TypeOK
  <2> QED BY <2>5, <2>6, <2>7 DEF Paid!GiveBack
<1>13. ASSUME NEW c \in Calls, NEW kept \in BOOLEAN, NEW ok \in BOOLEAN,
              completeCall(c, kept, ok)
       PROVE  Paid!Settle(c) \/ UNCHANGED Paid!paidVars
  <2>1. /\ Executing(c) /\ pc[c] = "finish" /\ phase = "up" /\ phase' = "up"
        /\ c \notin dead /\ pc'[c] = "done"
        /\ \A d \in Calls \ {c} : pc'[d] = pc[d] /\ rec'[d] = rec[d]
        /\ Keyed(c) => rec'[c].expires = now + CallKeyTTL
        /\ UNCHANGED <<dead, charged, refunds, result, now, crashes>>
    BY <1>0, <1>13 DEF completeCall, Executing, ClaimInv, Return, Goto, TypeOK
  <2>2. CASE c \notin charged
    BY <1>b, <2>1, <2>2
  <2>3. CASE c \in charged
    <3>1. /\ result[c] = "ok" => refunds[c] = 0
          /\ result[c] # "ok" => refunds[c] > 0
      BY <1>0, <2>1, <2>3 DEF PriceInv, Books, RefundInv, TypeOK
    <3>2. /\ BillOf(c) = IF result[c] = "ok" THEN "held" ELSE "returned"
          /\ BillOf(c)' = IF result[c] = "ok" THEN "kept" ELSE "returned"
      BY <1>up, <1>upp, <2>1, <2>3, <3>1 DEF BillOf
    <3>3. \A d \in Calls \ {c} : BillOf(d)' = BillOf(d)
      BY <1>up, <1>upp, <2>1, BillKeeps
    <3>4. Replayed' = Replayed \cup ({KeyOf[c]} \cap Keys)
      <4>1. Keyed(c) <=> KeyOf[c] \in Keys
        BY DEF Keyed
      <4>2. Settled(c)' <=> Keyed(c)
        BY <2>1, <2>3 DEF Settled
      <4>3. Keyed(c) => now' <= rec'[c].expires
        BY <1>0, <2>1 DEF TypeOK
      <4>4. ~Settled(c) /\ \A d \in Calls \ {c} : /\ Settled(d)' <=> Settled(d)
                                                /\ rec'[d] = rec[d]
        BY <2>1 DEF Settled
      <4> QED BY <2>1, <4>1, <4>2, <4>3, <4>4 DEF Replayed
    <3>5. (~Sound) = FALSE /\ UNCHANGED <<servingBar, ~Sound, givenBar, crashedBar>>
      BY <1>0, <2>1 DEF servingBar, givenBar, crashedBar
    <3>6. /\ billBar[c] \in {"held", "returned"}
          /\ billBar' = [billBar EXCEPT ![c] = IF @ = "held" THEN "kept" ELSE @]
      BY <1>0, <3>2, <3>3 DEF billBar
    <3>7. settledBar' = settledBar \cup ({KeyOf[c]} \cap Keys)
      BY <1>0, <3>4 DEF settledBar
    <3> QED BY <3>5, <3>6, <3>7 DEF Paid!Settle
  <2> QED BY <2>2, <2>3
<1>16. ASSUME Tick PROVE Paid!Lapse
  <2>1. /\ now' = now + 1 /\ now \in Nat
        /\ UNCHANGED <<callsFile, credited, dead, charged, refunds, pc, result, rec,
                       phase, crashes>>
    BY <1>0, <1>16 DEF Tick, TypeOK, jVars
  <2>2. \A d \in Calls : BillOf(d)' = BillOf(d)
    BY <2>1 DEF BillOf, Owed
  <2>3. Replayed' \subseteq Replayed
    BY <1>0, <2>1 DEF Replayed, Settled, TypeOK, Record
  <2>4. (~Sound) = FALSE
        /\ UNCHANGED <<servingBar, ~Sound, billBar, givenBar, crashedBar>>
    BY <1>0, <2>1, <2>2 DEF servingBar, billBar, givenBar, crashedBar
  <2>5. settledBar' \subseteq settledBar
    BY <1>0, <2>3 DEF settledBar
  <2> QED BY <2>4, <2>5 DEF Paid!Lapse
<1>17. ASSUME Crash PROVE Paid!Crash
  <2>1. /\ phase' = "down" /\ crashes' = crashes + 1 /\ credited' = NoKey
        /\ dead' = dead \cup {c \in Calls : pc[c] \notin {"new", "done"}}
        /\ UNCHANGED <<callsFile, charged, refunds, pc, result, rec, now>>
    BY <1>17 DEF Crash, jVars
  <2> DEFINE step(d) == \/ BillOf(d)' = BillOf(d) /\ BillOf(d) # "held"
                        \/ BillOf(d) = "held" /\ BillOf(d)' \in {"owed", "lost"}
                        \/ BillOf(d) = "returned" /\ BillOf(d)' = "owed"
  <2>2. ASSUME NEW d \in Calls PROVE step(d)
    <3>1. CASE d \notin charged
      BY <2>1, <3>1 DEF BillOf
    <3>2. CASE d \in charged /\ Owed(d)
      <4>1. Owed(d)'
        BY <2>1, <3>2 DEF Owed, Keyed
      <4> QED BY <2>1, <3>2, <4>1 DEF BillOf
    <3>3. CASE d \in charged /\ ~Owed(d) /\ refunds[d] > 0
      BY <2>1, <3>3 DEF BillOf
    <3>4. CASE d \in charged /\ ~Owed(d) /\ ~(refunds[d] > 0)
      <4>1. CASE d \in dead
        <5>1. ~Owed(d)'
          BY <1>0, <2>1, <3>4, <4>1 DEF Owed, Books, RecoveryInv, Keyed, TypeOK
        <5> QED BY <2>1, <3>4, <4>1, <5>1 DEF BillOf
      <4>2. CASE d \notin dead /\ pc[d] = "done"
        <5>1. result[d] = "ok"
          BY <1>0, <3>4, <4>2 DEF PriceInv, TypeOK
        <5>2. ~Owed(d)' /\ d \notin dead'
          BY <2>1, <4>2 DEF Owed
        <5> QED BY <2>1, <3>4, <4>2, <5>1, <5>2 DEF BillOf
      <4>3. CASE d \notin dead /\ pc[d] # "done"
        <5>1. d \in dead'
          BY <1>0, <2>1, <3>4, <4>3 DEF PriceInv
        <5> QED BY <2>1, <3>4, <4>3, <5>1 DEF BillOf
      <4> QED BY <4>1, <4>2, <4>3
    <3> QED BY <3>1, <3>2, <3>3, <3>4
  <2>3. Replayed' = Replayed
    BY <2>1, ReplayedKeeps DEF Settled
  <2>4. /\ (~Sound) = FALSE /\ servingBar' = FALSE /\ crashedBar' = crashedBar + 1
        /\ UNCHANGED <<~Sound, givenBar, settledBar>>
    BY <1>0, <2>1, <2>3 DEF servingBar, crashedBar, givenBar, settledBar
  <2>5. billBar' \in [Calls -> Paid!Bills]
    BY <1>0 DEF billBar, BillOf, Paid!Bills
  <2>6. \A c \in Calls :
          \/ billBar'[c] = billBar[c] /\ billBar[c] # "held"
          \/ billBar[c] = "held" /\ billBar'[c] \in {"owed", "lost"}
          \/ billBar[c] = "returned" /\ billBar'[c] = "owed"
    BY <1>0, <2>2 DEF billBar
  <2> QED BY <2>4, <2>5, <2>6 DEF Paid!Crash
<1>18. ASSUME NEW k \in Keys, NEW ok \in BOOLEAN, RefundInterrupted(k, ok)
       PROVE  \E c \in Calls : Paid!MakeGood(c)
  <2>0. journal[k].owner \in Calls
    BY <1>0, <1>18
       DEF RefundInterrupted, Books, RecoveryInv, OpenInv, Open, TypeOK, Entry
  <2> PICK c \in Calls : c = journal[k].owner
    BY <2>0
  <2>1. /\ phase = "recovering" /\ phase' = phase /\ credited = NoKey /\ k \in owed
        /\ journal = callsFile
        /\ ok /\ credited' = k
        /\ refunds' = [refunds EXCEPT ![c] = @ + 1]
        /\ UNCHANGED <<callsFile, dead, charged, pc, result, rec, now, crashes>>
    BY <1>0, <1>18, LedgerEffect DEF RefundInterrupted, Books, OpenInv, jVars
  <2>2. /\ callsFile[k].owner = c /\ ~callsFile[k].done
        /\ KeyOf[c] = k /\ Keyed(c) /\ c \in charged /\ pc[c] \in InFlight
    BY <1>0, <2>1
       DEF Books, RecoveryInv, OpenInv, Open, EntryOf, FileInv, TypeOK, Entry, Keyed
  <2>3. c \in dead
    BY <1>0, <2>1, <2>2 DEF ClaimInv, Executing, InFlight
  <2>4. Owed(c) /\ ~Owed(c)'
    BY <2>1, <2>2, <2>3 DEF Owed
  <2>5. refunds'[c] > 0 /\ \A d \in Calls \ {c} : refunds'[d] = refunds[d]
    BY <1>0, <2>1, <2>2 DEF TypeOK
  <2>6. BillOf(c) = "owed" /\ BillOf(c)' = "returned"
    BY <2>1, <2>2, <2>4, <2>5 DEF BillOf
  <2>7. ASSUME NEW d \in Calls \ {c} PROVE BillOf(d)' = BillOf(d)
    <3>1. Owed(d)' <=> Owed(d)
      BY <2>1, <2>2, <2>7 DEF Owed, Keyed
    <3> QED BY <2>1, <2>5, <3>1, BillKeeps
  <2>8. Replayed' = Replayed
    BY <2>1, ReplayedKeeps DEF Settled
  <2>9. /\ (~Sound) = FALSE /\ servingBar = FALSE
        /\ UNCHANGED <<servingBar, ~Sound, settledBar, crashedBar>>
    BY <1>0, <2>1, <2>8 DEF servingBar, settledBar, crashedBar
  <2>10. billBar[c] = "owed" /\ billBar' = [billBar EXCEPT ![c] = "returned"]
    BY <1>0, <2>2, <2>6, <2>7 DEF billBar
  <2>11. givenBar' = [givenBar EXCEPT ![c] = @ + 1]
    BY <1>0, <2>1, <2>2 DEF givenBar, TypeOK
  <2> QED BY <2>2, <2>9, <2>10, <2>11 DEF Paid!MakeGood
<1>19. ASSUME NEW ok \in BOOLEAN, RemoveInterrupted(ok)
       PROVE  UNCHANGED Paid!paidVars
  <2> DEFINE j == [journal EXCEPT ![credited] = NoEntry]
  <2>1. /\ phase = "recovering" /\ phase' = phase
        /\ credited \in Keys /\ credited' = NoKey
        /\ persistJournal(j, ok) /\ journal = callsFile
        /\ UNCHANGED <<dead, charged, refunds, pc, result, rec, now, crashes>>
    BY <1>0, <1>19 DEF RemoveInterrupted, Books, OpenInv, TypeOK
  <2>2. callsFile' = j
    <3> HIDE DEF j
    <3> QED BY <1>0, <2>1, PersistEffect
  <2>3. \A i \in Keys : callsFile'[i] = IF i = credited THEN NoEntry ELSE callsFile[i]
    BY <1>0, <2>1, <2>2 DEF TypeOK
  <2>4. \A d \in Calls : Owed(d)' <=> Owed(d)
    BY <2>1, <2>3 DEF Owed, Keyed, NoEntry
  <2>5. \A d \in Calls : BillOf(d)' = BillOf(d)
    BY <2>1, <2>4, BillKeeps
  <2>6. Replayed' = Replayed
    BY <2>1, ReplayedKeeps DEF Settled
  <2> QED BY <2>1, <2>5, <2>6, Stutters
<1>20. ASSUME NEW ok \in BOOLEAN, Serve(ok) PROVE Paid!Serve
  <2>1. /\ phase = "recovering" /\ phase' = "up" /\ owed = {} /\ credited = NoKey
        /\ journal = callsFile
        /\ UNCHANGED <<dead, charged, refunds, pc, result, now, crashes>>
    BY <1>0, <1>20 DEF Serve, Books, OpenInv
  <2>2. \A d \in Calls : ~Owed(d)
    BY <1>0, <2>1 DEF Books, RecoveryInv, Open, Owed, Keyed
  <2>3. \A d \in Calls : BillOf(d)' = BillOf(d)
    BY <1>upp, <2>1, <2>2, BillKeeps
  <2>4. ASSUME NEW d \in Calls, Settled(d) PROVE rec'[d].expires = rec[d].expires
    BY <1>0, <1>20, <2>1, <2>4 DEF Serve, FileInv, Settled, Keyed, TypeOK
  <2>5. Replayed' = Replayed
    BY <2>1, <2>4, ReplayedKeeps DEF Settled
  <2>6. /\ (~Sound) = FALSE /\ servingBar = FALSE /\ servingBar' = TRUE
        /\ UNCHANGED <<~Sound, billBar, givenBar, settledBar, crashedBar>>
    BY <1>0, <2>1, <2>3, <2>5 DEF servingBar, billBar, givenBar, settledBar, crashedBar
  <2>7. \A c \in Calls : billBar[c] # "owed"
    BY <1>0, <2>2 DEF billBar, BillOf
  <2> QED BY <2>6, <2>7 DEF Paid!Serve
<1> QED
  BY <1>1, <1>2, <1>4, <1>5, <1>7, <1>9, <1>10, <1>11, <1>12, <1>13, <1>14, <1>15,
     <1>16, <1>17, <1>18, <1>19, <1>20, <1>21
     DEF Next, HandlerStep, RecoveryStep, Paid!PaidNext

\* The harness implements its promise, for every number of deliveries, keys,
\* callers, crashes and failing writes (AddToolPriced, completeCall, openJournal).
THEOREM HarnessImplementsPaidCall == Spec => ImplementsPaidCall
<1>1. RInv /\ RInv' /\ [Next]_vars => [Paid!PaidNext]_Paid!paidVars
  <2> SUFFICES ASSUME RInv, RInv', [Next]_vars
               PROVE  [Paid!PaidNext]_Paid!paidVars
    OBVIOUS
  <2>1. CASE Sound /\ Sound'
    BY <2>1, SoundStepMaps
  <2>2. CASE Sound /\ ~Sound'
    BY <2>2, FaultMaps DEF Paid!PaidNext
  <2>3. CASE ~Sound
    <3>1. ~Sound'
      BY <2>3, FaultsGrow DEF RInv, IInv, TypeOK, LedgerTypeOK, Sound
    <3> QED BY <2>3, <3>1, FaultyStays
  <2> QED BY <2>1, <2>2, <2>3
<1> QED
  BY <1>1, InitMaps, RInvCorrect, PTL DEF Spec, ImplementsPaidCall, Paid!PaidSpec

(***************************************************************************)
(* How often a charge is given back, argued on PaidCall's steps alone.     *)
(***************************************************************************)
GivenInv ==
    /\ billBar \in [Calls -> Paid!Bills]
    /\ givenBar \in [Calls -> Nat]
    /\ crashedBar \in Nat
    /\ \A c \in Calls :
          /\ billBar[c] \notin {"owed", "returned"} => givenBar[c] = 0
          /\ billBar[c] = "owed" => givenBar[c] <= crashedBar
          /\ givenBar[c] <= 1 + crashedBar

\* Each of the promise's steps keeps the count within the crashes (openJournal).
LEMMA GivenStep == GivenInv /\ [Paid!PaidNext]_Paid!paidVars => GivenInv'
<1> SUFFICES ASSUME GivenInv, [Paid!PaidNext]_Paid!paidVars PROVE GivenInv'
  OBVIOUS
<1> USE DEF GivenInv, Paid!Bills
<1>1. ASSUME NEW c \in Calls, Paid!Hold(c) PROVE GivenInv'
  BY <1>1 DEF Paid!Hold
<1>2. ASSUME NEW c \in Calls, Paid!GiveBack(c) PROVE GivenInv'
  BY <1>2 DEF Paid!GiveBack
<1>3. ASSUME NEW c \in Calls, Paid!Settle(c) PROVE GivenInv'
  BY <1>3 DEF Paid!Settle
<1>4. ASSUME NEW c \in Calls, Paid!MakeGood(c) PROVE GivenInv'
  BY <1>4 DEF Paid!MakeGood
<1>5. CASE Paid!Lapse \/ Paid!Serve
  BY <1>5 DEF Paid!Lapse, Paid!Serve
<1>6. CASE Paid!Crash
  BY <1>6 DEF Paid!Crash
<1>7. CASE Paid!Fault
  BY <1>7 DEF Paid!Fault
<1>8. CASE UNCHANGED Paid!paidVars
  BY <1>8 DEF Paid!paidVars
<1> QED
  BY <1>1, <1>2, <1>3, <1>4, <1>5, <1>6, <1>7, <1>8 DEF Paid!PaidNext

\* A charge is given back at most once, plus once for every crash: only a
\* crash between the credit and the removal of its entry repeats it.
THEOREM GivenBackOncePerCrashCorrect == Spec => []GivenBackOncePerCrash
<1>1. Paid!PaidInit => GivenInv
  BY DEF Paid!PaidInit, GivenInv, Paid!Bills
<1>2. TypeOK /\ GivenInv => GivenBackOncePerCrash
  BY DEF GivenInv, GivenBackOncePerCrash, givenBar, crashedBar, Sound, TypeOK
<1>3. ImplementsPaidCall => []GivenInv
  BY <1>1, GivenStep, PTL DEF ImplementsPaidCall, Paid!PaidSpec
<1> QED
  BY <1>2, <1>3, HarnessImplementsPaidCall, TypeCorrect, PTL

(***************************************************************************)
(* The ledger adds up.                                                     *)
(***************************************************************************)
\* What a delivery has taken from its caller so far: its charge, less what was
\* given back of it, which crashes may do more than once.
NetOf == [c \in Calls |-> IF c \in charged THEN price[c] * (1 - refunds[c]) ELSE 0]

Net(p) == SumFunctionOnSet(NetOf, Mine(p))

\* The balances are what was deposited less what the deliveries took, and an
\* entry says what its delivery was charged.
Audited ==
    /\ ledgerFile = balances
    /\ \A p \in Peers : balances[p] = deposited[p] - Net(p)
    /\ \A k \in Keys : callsFile[k].owner # NoCall =>
                           callsFile[k].atoms = price[callsFile[k].owner]
    /\ \A c \in Calls : c \notin dead => refunds[c] <= 1
    /\ \A c \in Calls : result[c] # "none" /\ c \notin charged => price[c] = 0
    /\ crashes = 0 => dead = {}

AuditInv == RInv /\ ToldInv /\ (Sound => Audited)

LEMMA NetType ==
    ASSUME TypeOK
    PROVE  /\ \A c \in Calls : NetOf[c] \in Int
           /\ \A p : Mine(p) \in SUBSET Calls /\ IsFiniteSet(Mine(p))
           /\ \A p : Net(p) \in Int
<1>1. \A c \in Calls : NetOf[c] \in Int
  <2> SUFFICES ASSUME NEW c \in Calls PROVE NetOf[c] \in Int
    OBVIOUS
  <2>1. price[c] \in Int /\ 1 - refunds[c] \in Int
    BY DEF TypeOK
  <2>2. price[c] * (1 - refunds[c]) \in Int
    BY <2>1
  <2> QED BY <2>2 DEF NetOf
<1>2. \A p : Mine(p) \in SUBSET Calls /\ IsFiniteSet(Mine(p))
  BY FiniteDeliveries, FS_Subset DEF Mine
<1>3. \A p : Net(p) \in Int
  BY <1>1, <1>2, SumInt DEF Net
<1> QED BY <1>1, <1>2, <1>3

\* Steps that neither charge nor give back take nothing.
LEMMA NetSame ==
    ASSUME TypeOK, TypeOK', UNCHANGED <<charged, refunds>>,
           \A c \in charged : price'[c] = price[c]
    PROVE  \A p : Net(p)' = Net(p)
<1>1. NetOf' = NetOf
  BY DEF NetOf, TypeOK
<1> QED BY <1>1 DEF Net, Mine

\* Steps that charge one delivery, or give its charge back, take that much.
LEMMA NetChange ==
    ASSUME TypeOK, TypeOK', NEW c \in Calls, NEW x \in Int,
           \A d \in Calls \ {c} : NetOf'[d] = NetOf[d],
           NetOf'[c] = NetOf[c] + x
    PROVE  \A p : Net(p)' = Net(p) + (IF p = CallerOf[c] THEN x ELSE 0)
<1> SUFFICES ASSUME NEW p PROVE Net(p)' = Net(p) + (IF p = CallerOf[c] THEN x ELSE 0)
  OBVIOUS
<1> DEFINE f == NetOf
           g == NetOf'
           S == Mine(p)
<1>1. /\ \A d \in Calls : f[d] \in Int /\ g[d] \in Int
      /\ S \in SUBSET Calls /\ IsFiniteSet(S) /\ Net(p) \in Int
  <2>1. /\ \A d \in Calls : f[d] \in Int
        /\ S \in SUBSET Calls /\ IsFiniteSet(S) /\ Net(p) \in Int
    BY NetType
  <2>2. \A d \in Calls : g[d] \in Int
    <3> SUFFICES ASSUME NEW d \in Calls PROVE g[d] \in Int
      OBVIOUS
    <3>1. CASE d = c
      BY <2>1, <3>1
    <3>2. CASE d # c
      BY <2>1, <3>2
    <3> QED BY <3>1, <3>2
  <2> QED BY <2>1, <2>2
<1>2. \A d \in Calls \ {c} : g[d] = f[d]
  OBVIOUS
<1>3. g[c] = f[c] + x
  OBVIOUS
<1>4. c \in S <=> p = CallerOf[c]
  BY DEF Mine
<1>5. Net(p) = SumFunctionOnSet(f, S) /\ Net(p)' = SumFunctionOnSet(g, S)
  BY DEF Net, Mine
<1> HIDE DEF f, g, S
<1>6. CASE c \in S
  <2>1. \A d \in S : f[d] \in Int /\ g[d] \in Int
    BY <1>1
  <2>2. \A d \in S \ {c} : f[d] = g[d]
    BY <1>1, <1>2
  <2>3. SumFunctionOnSet(g, S) = SumFunctionOnSet(f, S) - f[c] + g[c]
    BY <1>1, <1>6, <2>1, <2>2, SumChange
  <2> QED BY <1>1, <1>3, <1>4, <1>5, <1>6, <2>3
<1>7. CASE c \notin S
  <2>1. \A d \in S : f[d] \in Int /\ f[d] = g[d]
    BY <1>1, <1>2, <1>7
  <2>2. SumFunctionOnSet(f, S) = SumFunctionOnSet(g, S)
    BY <1>1, <2>1, SumSame
  <2> QED BY <1>1, <1>4, <1>5, <1>7, <2>2
<1> QED BY <1>6, <1>7

\* An empty ledger adds up (OpenLedger, openJournal).
LEMMA AuditInit == Init => Audited
<1> SUFFICES ASSUME Init PROVE Audited
  OBVIOUS
<1>1. \A c \in Calls : NetOf[c] = 0
  BY DEF Init, NetOf
<1>2. \A p : IsFiniteSet(Mine(p)) /\ Mine(p) \subseteq Calls
  BY FiniteDeliveries, FS_Subset DEF Mine
<1>3. \A p \in Peers : Net(p) = 0
  BY <1>1, <1>2, SumZero DEF Net
<1> QED BY <1>3 DEF Init, Audited, NoEntry

\* While no write has failed, every step keeps the ledger adding up, one step
\* per action that moves money or entries.
LEMMA AuditStep == AuditInv /\ [Next]_vars /\ diskFaults' = 0 => Audited'
<1> SUFFICES ASSUME AuditInv, [Next]_vars, diskFaults' = 0 PROVE Audited'
  OBVIOUS
<1>0. /\ TypeOK /\ TypeOK' /\ ClaimInv /\ PriceInv
      /\ diskFaults = 0 /\ Books /\ FileInv /\ Audited
      /\ \A c \in Calls : pc[c] \in {"new", "wait", "admit", "debit", "journal", "run"}
                              => result[c] = "none"
      /\ \A k \in Keys : callsFile[k] \in Entry
  <2>1. TypeOK /\ TypeOK' /\ ClaimInv /\ PriceInv
    BY TypeStep DEF AuditInv, RInv, IInv
  <2>2. diskFaults = 0
    BY <2>1, FaultsGrow DEF TypeOK, LedgerTypeOK
  <2> QED BY <2>1, <2>2 DEF AuditInv, RInv, IInv, Sound, TypeOK, ToldInv
<1> USE HarnessAssumption DEF procVars, callVars, claimVars, openVars, histVars
\* What is left of the claim for a step that moves no money.
<1>a. ASSUME UNCHANGED <<balances, ledgerFile, deposited, charged, refunds, price, result>>,
             dead \subseteq dead', crashes' = 0 => crashes = 0 /\ dead' = dead,
             \A k \in Keys : callsFile'[k].owner # NoCall =>
                                 /\ callsFile'[k].owner = callsFile[k].owner
                                 /\ callsFile'[k].atoms = callsFile[k].atoms
      PROVE  Audited'
  <2>1. \A p : Net(p)' = Net(p)
    BY <1>0, <1>a, NetSame
  <2> QED BY <1>0, <1>a, <2>1 DEF Audited
<1>b. ASSUME UNCHANGED <<balances, ledgerFile, deposited, charged, refunds, price, result,
                         dead, crashes, callsFile>>
      PROVE  Audited'
  BY <1>a, <1>b
\* One delivery's charge is taken, or given back.
<1>c. ASSUME NEW c \in Calls, NEW x \in Int,
             \A d \in Calls \ {c} : NetOf'[d] = NetOf[d],
             NetOf'[c] = NetOf[c] + x,
             balances' = [balances EXCEPT ![CallerOf[c]] = @ - x],
             ledgerFile' = balances',
             UNCHANGED <<deposited, price, result, dead, crashes, callsFile>>,
             charged \subseteq charged',
             \A d \in Calls : d \notin dead => refunds'[d] <= 1
      PROVE  Audited'
  <2>1. \A p : Net(p)' = Net(p) + (IF p = CallerOf[c] THEN x ELSE 0)
    BY <1>0, <1>c, NetChange
  <2>2. \A p \in Peers : Net(p) \in Int /\ balances[p] \in Int /\ deposited[p] \in Int
    BY <1>0, NetType DEF TypeOK, LedgerTypeOK
  <2>3. \A p \in Peers : balances'[p] = balances[p] - (IF p = CallerOf[c] THEN x ELSE 0)
    BY <1>0, <1>c DEF TypeOK, LedgerTypeOK
  <2>4. \A p \in Peers : balances'[p] = deposited'[p] - Net(p)'
    <3> SUFFICES ASSUME NEW p \in Peers PROVE balances'[p] = deposited'[p] - Net(p)'
      OBVIOUS
    <3> DEFINE n == Net(p)
               m == Net(p)'
    <3>1. m = n + (IF p = CallerOf[c] THEN x ELSE 0) /\ n \in Int
      BY <2>1, <2>2
    <3>2. balances[p] = deposited[p] - n
      BY <1>0 DEF Audited
    <3> HIDE DEF n, m
    <3>3. balances'[p] = deposited[p] - m
      BY <1>c, <2>2, <2>3, <3>1, <3>2
    <3> QED BY <1>c, <3>3 DEF m
  <2> QED BY <1>0, <1>c, <2>4 DEF Audited
<1>1. ASSUME NEW c \in Calls, ArriveUnkeyed(c) PROVE Audited'
  BY <1>1, <1>b DEF ArriveUnkeyed, ledgerVars, jVars
\* Dropping expired entries.
<1>g. ASSUME NEW ok \in BOOLEAN, gc(ok), phase # "down"
      PROVE  /\ UNCHANGED <<balances, ledgerFile>>
             /\ \A k \in Keys : callsFile'[k].owner # NoCall => callsFile'[k] = callsFile[k]
  <2>1. \A k \in Keys :
            callsFile'[k] = IF EntryExpired(callsFile[k]) THEN NoEntry ELSE callsFile[k]
    BY <1>0, <1>g, GcEffect DEF Books, OpenInv
  <2>2. UNCHANGED <<balances, ledgerFile>>
    BY <1>g DEF gc, persistJournal, ledgerVars
  <2> QED BY <2>1, <2>2 DEF NoEntry
<1>2. ASSUME NEW c \in Calls, NEW ok \in BOOLEAN, claimCall(c, ok) PROVE Audited'
  <2>1. gc(ok) /\ phase # "down"
        /\ UNCHANGED <<deposited, charged, refunds, price, result, dead, crashes>>
    BY <1>2 DEF claimCall
  <2> QED BY <1>a, <1>g, <2>1
<1>4. ASSUME NEW c \in Calls, AnswerDuplicate(c) \/ CancelDuplicate(c) PROVE Audited'
  BY <1>4, <1>b DEF AnswerDuplicate, CancelDuplicate, ledgerVars, jVars
<1>5. ASSUME NEW c \in Calls, RefuseEarly(c) \/ RefuseUnpaid(c) PROVE Audited'
  BY <1>5, <1>b DEF RefuseEarly, RefuseUnpaid, ledgerVars, jVars
<1>7. ASSUME NEW c \in Calls, NEW atoms \in Prices, Price(c, atoms) PROVE Audited'
  <2>1. c \notin charged /\ result[c] = "none"
    BY <1>0, <1>7 DEF Price, PriceInv
  <2>2. /\ \A d \in Calls \ {c} : price'[d] = price[d]
        /\ UNCHANGED <<balances, ledgerFile, deposited, charged, refunds, result, dead,
                       crashes, callsFile>>
    BY <1>0, <1>7 DEF Price, ledgerVars, jVars, TypeOK
  <2>3. \A d \in charged : price'[d] = price[d]
    BY <1>0, <2>1, <2>2 DEF TypeOK
  <2>4. \A p : Net(p)' = Net(p)
    BY <1>0, <2>2, <2>3, NetSame
  <2>5. \A k \in Keys : callsFile[k].owner # NoCall => callsFile[k].owner \in charged
    BY <1>0 DEF FileInv
  <2>6. \A d \in Calls : result[d] # "none" /\ d \notin charged => price'[d] = 0
    BY <1>0, <2>1, <2>2 DEF Audited
  <2> QED BY <1>0, <2>2, <2>3, <2>4, <2>5, <2>6 DEF Audited
<1>9. ASSUME NEW c \in Calls, NEW ok \in BOOLEAN, charge(c, ok) PROVE Audited'
  <2>1. ok /\ Executing(c) /\ pc[c] = "debit" /\ c \notin charged
    BY <1>0, <1>9, LedgerEffect DEF charge, PriceInv
  <2>2. /\ charged' = charged \cup {c}
        /\ balances' = [balances EXCEPT ![CallerOf[c]] = @ - price[c]]
        /\ ledgerFile' = balances'
        /\ UNCHANGED <<deposited, price, result, dead, crashes, callsFile, refunds>>
    BY <1>9, <2>1 DEF charge, Debit, persistLocked, jVars
  <2>3. refunds[c] = 0
    BY <1>0, <2>1 DEF Books, RefundInv, Executing
  <2>4. price[c] \in Int /\ price[c] * (1 - 0) = price[c]
    BY <1>0 DEF TypeOK
  <2>5. NetOf[c] = 0 /\ NetOf'[c] = price[c]
    BY <2>1, <2>2, <2>3, <2>4 DEF NetOf
  <2>6. \A d \in Calls \ {c} : NetOf'[d] = NetOf[d]
    BY <2>2 DEF NetOf
  <2>7. \A d \in Calls : d \notin dead => refunds'[d] <= 1
    BY <1>0, <2>2 DEF Audited
  <2>8. NetOf'[c] = NetOf[c] + price[c]
    BY <2>4, <2>5
  <2> QED BY <1>c, <2>2, <2>4, <2>6, <2>7, <2>8
<1>10. ASSUME NEW c \in Calls, NEW ok \in BOOLEAN, journalCharged(c, ok) PROVE Audited'
  <2> DEFINE j == [journal EXCEPT ![KeyOf[c]] = Charge(c)]
  <2>1. persistJournal(j, ok) /\ journal = callsFile
    BY <1>0, <1>10 DEF journalCharged, ClaimInv, Books, OpenInv
  <2>2. callsFile' = j
    <3> HIDE DEF j
    <3> QED BY <1>0, <2>1, PersistEffect
  <2>3. \A k \in Keys : callsFile'[k] \in {callsFile[k], Charge(c)}
    BY <1>0, <2>1, <2>2 DEF TypeOK
  <2>4. UNCHANGED <<balances, ledgerFile, deposited, charged, refunds, price, result, dead,
                    crashes>>
    BY <1>10 DEF journalCharged, persistJournal
  <2>5. \A p : Net(p)' = Net(p)
    BY <1>0, <2>4, NetSame
  <2> QED BY <1>0, <2>3, <2>4, <2>5 DEF Audited, Charge
<1>11. ASSUME NEW c \in Calls, NEW o \in {"ok", "err"}, Run(c, o) PROVE Audited'
  <2>1. UNCHANGED <<balances, ledgerFile, deposited, charged, refunds, price, dead, crashes,
                    callsFile>>
    BY <1>11 DEF Run, ledgerVars, jVars
  <2>2. \A p : Net(p)' = Net(p)
    BY <1>0, <2>1, NetSame
  <2>3. c \notin charged => price[c] = 0
    BY <1>0, <1>11 DEF Run, PriceInv, TypeOK
  <2>4. \A d \in Calls \ {c} : result'[d] = result[d]
    BY <1>0, <1>11 DEF Run, TypeOK
  <2> QED BY <1>0, <2>1, <2>2, <2>3, <2>4 DEF Audited
\* A charge given back, by the handler or by the reconciliation.
<1>r. ASSUME NEW c \in Calls, c \in charged, NEW ok \in BOOLEAN,
             Credit(CallerOf[c], price[c], ok),
             refunds' = [refunds EXCEPT ![c] = @ + 1],
             UNCHANGED <<deposited, price, result, dead, crashes, callsFile, charged>>,
             c \in dead \/ refunds[c] = 0
      PROVE  Audited'
  <2>1. price[c] > 0 /\ ok
    BY <1>0, <1>r, LedgerEffect DEF PriceInv
  <2> DEFINE x == 0 - price[c]
  <2>2. x \in Int
    BY <1>0 DEF TypeOK
  <2>3. /\ balances' = [balances EXCEPT ![CallerOf[c]] = @ - x]
        /\ ledgerFile' = balances'
    <3>1. balances' = [balances EXCEPT ![CallerOf[c]] = @ + price[c]] /\ ledgerFile' = balances'
      <4>1. ~(price[c] <= 0)
        BY <1>0, <2>1 DEF TypeOK
      <4> QED BY <1>r, <2>1, <4>1 DEF Credit, persistLocked
    <3>2. CallerOf[c] \in Peers /\ balances[CallerOf[c]] + price[c] = balances[CallerOf[c]] - x
      BY <1>0 DEF TypeOK, LedgerTypeOK
    <3> QED BY <3>1, <3>2
  <2>4. NetOf'[c] = NetOf[c] + x
    <3> DEFINE r == refunds[c]
               a == price[c]
    <3>1. r \in Int /\ a \in Int /\ refunds'[c] = r + 1
      BY <1>0, <1>r DEF TypeOK
    <3>2. NetOf[c] = a * (1 - r) /\ NetOf'[c] = a * (1 - (r + 1))
      BY <1>r, <3>1 DEF NetOf
    <3> HIDE DEF r
    <3>3. a * (1 - (r + 1)) = a * (1 - r) + (0 - a)
      <4> HIDE DEF a
      <4> QED BY <3>1
    <3> QED BY <3>2, <3>3
  <2>5. \A d \in Calls \ {c} : NetOf'[d] = NetOf[d]
    BY <1>0, <1>r DEF NetOf, TypeOK
  <2>6. \A d \in Calls : d \notin dead => refunds'[d] <= 1
    BY <1>0, <1>r DEF Audited, TypeOK
  <2> HIDE DEF x
  <2> QED BY <1>c, <1>r, <2>2, <2>3, <2>4, <2>5, <2>6
<1>12. ASSUME NEW c \in Calls, NEW ok \in BOOLEAN, RefundFailure(c, ok) PROVE Audited'
  <2>1. c \in charged /\ refunds[c] = 0
    BY <1>0, <1>12 DEF RefundFailure, Executing, PriceInv, Books, RefundInv
  <2> QED BY <1>12, <1>r, <2>1 DEF RefundFailure, jVars
<1>13. ASSUME NEW c \in Calls, NEW kept \in BOOLEAN, NEW ok \in BOOLEAN,
              completeCall(c, kept, ok)
       PROVE  Audited'
  <2>1. /\ Executing(c)
        /\ UNCHANGED <<deposited, charged, refunds, price, result, dead, crashes>>
    BY <1>13 DEF completeCall
  <2>2. CASE ~Keyed(c)
    BY <1>13, <1>b, <2>1, <2>2 DEF completeCall, ledgerVars, jVars
  <2>3. CASE Keyed(c)
    <3>1. complete(KeyOf[c], result[c], kept, now + CallKeyTTL, ok) /\ journal = callsFile
      BY <1>0, <1>13, <2>1, <2>3 DEF completeCall, ClaimInv, Books, OpenInv
    <3>2. UNCHANGED <<balances, ledgerFile>>
      BY <3>1 DEF complete, persistJournal, ledgerVars
    <3>3. \A k \in Keys : /\ callsFile'[k].owner = callsFile[k].owner
                          /\ callsFile'[k].atoms = callsFile[k].atoms
      <4>1. CASE journal[KeyOf[c]] = NoEntry
        BY <3>1, <4>1 DEF complete, jVars
      <4>2. CASE journal[KeyOf[c]] # NoEntry
        <5> DEFINE e == Done(journal[KeyOf[c]], IF kept THEN result[c] ELSE "notRetained",
                             now + CallKeyTTL)
                   j == [journal EXCEPT ![KeyOf[c]] = e]
        <5>1. persistJournal(j, ok)
          BY <3>1, <4>2 DEF complete
        <5>2. callsFile' = j
          <6> HIDE DEF j
          <6> QED BY <1>0, <5>1, PersistEffect
        <5>3. e.owner = journal[KeyOf[c]].owner /\ e.atoms = journal[KeyOf[c]].atoms
          BY DEF Done
        <5> HIDE DEF e
        <5> QED BY <1>0, <3>1, <5>2, <5>3 DEF TypeOK
      <4> QED BY <4>1, <4>2
    <3> QED BY <1>a, <2>1, <3>2, <3>3
  <2> QED BY <2>2, <2>3
<1>14. ASSUME NEW p \in Peers, NEW atoms \in Tips, NEW ok \in BOOLEAN,
              TopUp(p, atoms, ok)
       PROVE  Audited'
  <2>a. Credit(p, atoms, ok)
    BY <1>14 DEF TopUp
  <2>b. ok
    BY <1>0, <2>a, LedgerEffect
  <2>0. ok /\ atoms \in Nat
    BY <2>b
  <2>1. /\ ok /\ atoms \in Nat
        /\ deposited' = [deposited EXCEPT ![p] = @ + atoms]
        /\ UNCHANGED <<charged, refunds, price, result, dead, crashes, callsFile>>
    BY <1>14, <2>0 DEF TopUp, jVars
  <2>2. /\ balances' = [balances EXCEPT ![p] = @ + atoms]
        /\ ledgerFile' = balances'
    <3>1. CASE atoms <= 0
      <4>1. atoms = 0 /\ balances[p] + 0 = balances[p]
        BY <1>0, <2>1, <3>1 DEF TypeOK, LedgerTypeOK
      <4> QED BY <1>0, <1>14, <3>1, <4>1
              DEF TopUp, Credit, ledgerVars, Audited, TypeOK, LedgerTypeOK
    <3>2. CASE ~(atoms <= 0)
      BY <1>14, <2>1, <3>2 DEF TopUp, Credit, persistLocked
    <3> QED BY <3>1, <3>2
  <2>3. \A q : Net(q)' = Net(q)
    BY <1>0, <2>1, NetSame
  <2>4. \A q \in Peers : balances'[q] = deposited'[q] - Net(q)'
    <3> SUFFICES ASSUME NEW q \in Peers PROVE balances'[q] = deposited'[q] - Net(q)'
      OBVIOUS
    <3> DEFINE n == Net(q)
    <3>1. n \in Int /\ Net(q)' = n
      BY <1>0, <2>3, NetType
    <3>2. balances[q] = deposited[q] - n
      BY <1>0 DEF Audited
    <3> HIDE DEF n
    <3>3. balances'[q] = deposited'[q] - n
      BY <1>0, <2>1, <2>2, <3>1, <3>2 DEF TypeOK, LedgerTypeOK
    <3> QED BY <3>1, <3>3
  <2> QED BY <1>0, <2>1, <2>2, <2>4 DEF Audited
<1>15. CASE Tick
  BY <1>15, <1>b DEF Tick, ledgerVars, jVars
<1>16. CASE Crash
  <2>1. crashes' # 0
    BY <1>0, <1>16 DEF Crash, TypeOK
  <2> QED BY <1>16, <1>a, <2>1 DEF Crash, ledgerVars, jVars
<1>17. CASE Restart
  <2>1. balances' = balances
    BY <1>0, <1>17 DEF Restart, OpenLedger, Audited
  <2> QED BY <1>17, <1>b, <2>1 DEF Restart, OpenLedger
<1>18. ASSUME NEW k \in Keys, NEW ok \in BOOLEAN, RefundInterrupted(k, ok) PROVE Audited'
  <2> DEFINE c == journal[k].owner
  <2>1. phase = "recovering" /\ k \in owed /\ journal = callsFile
    BY <1>0, <1>18 DEF RefundInterrupted, Books, OpenInv
  <2>2. Open(callsFile[k])
    BY <1>0, <2>1 DEF Books, RecoveryInv
  <2>3. c \in Calls /\ c \in charged /\ journal[k].atoms = price[c] /\ pc[c] \in InFlight
    BY <1>0, <2>1, <2>2 DEF Open, Entry, FileInv, Audited, Books, OpenInv
  <2>4. c \in dead
    BY <1>0, <2>1, <2>3 DEF ClaimInv, Executing, InFlight
  <2>5. /\ Credit(CallerOf[c], price[c], ok)
        /\ refunds' = [refunds EXCEPT ![c] = @ + 1]
        /\ UNCHANGED <<deposited, price, result, dead, crashes, callsFile, charged>>
    BY <1>18, <2>3 DEF RefundInterrupted, jVars
  <2> HIDE DEF c
  <2> QED BY <1>r, <2>3, <2>4, <2>5
<1>19. ASSUME NEW ok \in BOOLEAN, RemoveInterrupted(ok) PROVE Audited'
  <2> DEFINE j == [journal EXCEPT ![credited] = NoEntry]
  <2>1. persistJournal(j, ok) /\ journal = callsFile
    BY <1>0, <1>19 DEF RemoveInterrupted, Books, OpenInv
  <2>2. callsFile' = j
    <3> HIDE DEF j
    <3> QED BY <1>0, <2>1, PersistEffect
  <2>3. \A k \in Keys : callsFile'[k] \in {callsFile[k], NoEntry}
    BY <1>0, <2>1, <2>2 DEF TypeOK
  <2>4. UNCHANGED <<balances, ledgerFile, deposited, charged, refunds, price, result, dead,
                    crashes>>
    BY <1>19 DEF RemoveInterrupted, persistJournal
  <2>5. \A k \in Keys : callsFile'[k].owner # NoCall => callsFile'[k] = callsFile[k]
    BY <2>3 DEF NoEntry
  <2> QED BY <1>a, <2>4, <2>5
<1>20. ASSUME NEW ok \in BOOLEAN, Serve(ok) PROVE Audited'
  <2>1. gc(ok) /\ phase # "down"
        /\ UNCHANGED <<deposited, charged, refunds, price, result, dead, crashes>>
    BY <1>20 DEF Serve
  <2> QED BY <1>a, <1>g, <2>1
<1>21. CASE UNCHANGED vars
  BY <1>21, <1>b DEF vars, ledgerVars, jVars
<1> QED
  BY <1>1, <1>2, <1>4, <1>5, <1>7, <1>9, <1>10, <1>11, <1>12, <1>13, <1>14, <1>15,
     <1>16, <1>17, <1>18, <1>19, <1>20, <1>21
     DEF Next, HandlerStep, RecoveryStep

\* No delivery has taken more than it may cost, and before any crash each has
\* taken just that (AddToolPriced, openJournal).
LEMMA NetIsCost ==
    ASSUME AuditInv, Sound, NEW c \in Calls
    PROVE  /\ Cost(c) \in Int
           /\ crashes = 0 => NetOf[c] = Cost(c)
           /\ phase = "up" => NetOf[c] <= Cost(c)
<1> USE HarnessAssumption
<1>0. /\ TypeOK /\ ClaimInv /\ PriceInv /\ Books /\ Audited
      /\ pc[c] \in {"new", "wait", "admit", "debit", "journal", "run"} => result[c] = "none"
  BY DEF AuditInv, RInv, IInv, Sound, ToldInv
<1> DEFINE a == price[c]
           r == refunds[c]
<1>1. a \in Nat /\ r \in Nat /\ pc[c] \in Steps
  BY <1>0 DEF TypeOK
<1>2. /\ a * (1 - 0) = a /\ a * (1 - 1) = 0 /\ a * (1 - r) \in Int
      /\ a * (1 - r) <= a
      /\ r >= 1 => a * (1 - r) <= 0
  <2> HIDE DEF a, r
  <2>1. a * r \in Nat /\ a * (1 - r) = a - a * r
    BY <1>1
  <2>2. r >= 1 => a * r >= a
    BY <1>1
  <2> QED BY <1>1, <2>1, <2>2
<1>3. Cost(c) \in Int
  BY <1>1 DEF Cost
<1>4. CASE c \notin charged
  <2>1. NetOf[c] = 0
    BY <1>4 DEF NetOf
  <2>2. result[c] = "ok" => a = 0
    BY <1>0, <1>4 DEF Audited
  <2>3. Cost(c) = 0
    BY <1>4, <2>2 DEF Cost
  <2> QED BY <1>3, <2>1, <2>3
<1>5. CASE c \in charged
  <2>1. NetOf[c] = a * (1 - r)
    BY <1>5 DEF NetOf
  <2>2. pc[c] \in {"journal", "run", "refund", "finish", "done"}
    BY <1>0, <1>1, <1>5 DEF PriceInv, Steps
  <2>3. CASE c \notin dead
    <3>1. CASE pc[c] \in {"journal", "run", "refund"}
      <4>1. r = 0 /\ Cost(c) = a
        BY <1>0, <1>5, <2>3, <3>1 DEF Books, RefundInv, Cost
      <4> QED BY <1>1, <1>2, <1>3, <2>1, <4>1
    <3>2. CASE pc[c] \in {"finish", "done"} /\ result[c] = "ok"
      <4>1. r = 0 /\ Cost(c) = a
        BY <1>0, <1>5, <2>3, <3>2 DEF Books, RefundInv, Cost
      <4> QED BY <1>1, <1>2, <1>3, <2>1, <4>1
    <3>3. CASE pc[c] \in {"finish", "done"} /\ result[c] # "ok"
      <4>1. r = 1 /\ Cost(c) = 0
        BY <1>0, <1>1, <1>5, <2>3, <3>3 DEF PriceInv, Audited, Cost
      <4> QED BY <1>1, <1>2, <1>3, <2>1, <4>1
    <3> QED BY <2>2, <3>1, <3>2, <3>3
  <2>4. CASE c \in dead
    <3>1. crashes # 0
      BY <1>0, <2>4 DEF Audited
    <3>2. CASE ~Keyed(c) \/ pc[c] = "journal"
      BY <1>1, <1>2, <1>3, <1>5, <2>1, <2>4, <3>1, <3>2 DEF Cost
    <3>3. CASE Keyed(c) /\ pc[c] # "journal"
      <4>1. pc[c] \in InFlight
        BY <1>0, <2>2, <2>4, <3>3 DEF ClaimInv, InFlight
      <4>2. phase = "up" => r >= 1
        BY <1>0, <1>5, <2>4, <3>3, <4>1 DEF Books, RecoveryInv
      <4>3. Cost(c) = 0
        BY <2>4, <3>3 DEF Cost
      <4> QED BY <1>2, <1>3, <2>1, <3>1, <4>2, <4>3
    <3> QED BY <3>2, <3>3
  <2> QED BY <2>3, <2>4
<1> QED BY <1>4, <1>5

\* What the ledger says follows from what each delivery took.
LEMMA AuditAddsUp == AuditInv => LedgerAddsUp
<1> SUFFICES ASSUME AuditInv, Sound, NEW p \in Peers
             PROVE  /\ crashes = 0 => balances[p] = deposited[p] - AllCosts(p)
                    /\ phase = "up" => balances[p] >= deposited[p] - AllCosts(p)
  BY DEF LedgerAddsUp, Sound
<1> DEFINE costs == [c \in Calls |-> Cost(c)]
           net == NetOf
           S == Mine(p)
<1>1. /\ \A c \in Calls : net[c] \in Int
      /\ S \in SUBSET Calls /\ IsFiniteSet(S) /\ Net(p) \in Int
      /\ balances[p] \in Int /\ deposited[p] \in Int
      /\ balances[p] = deposited[p] - Net(p)
  <2>1. TypeOK /\ Audited
    BY DEF AuditInv, RInv, IInv
  <2> QED BY <2>1, NetType DEF Audited, TypeOK, LedgerTypeOK
<1>2. \A c \in S : /\ net[c] \in Int /\ costs[c] \in Int
                   /\ crashes = 0 => net[c] = costs[c]
                   /\ phase = "up" => net[c] <= costs[c]
  BY <1>1, NetIsCost
<1>3. Net(p) = SumFunctionOnSet(net, S) /\ AllCosts(p) = SumFunctionOnSet(costs, S)
  BY DEF Net, AllCosts
<1> HIDE DEF costs, net, S
<1>4. SumFunctionOnSet(costs, S) \in Int
  BY <1>1, <1>2, SumInt
<1>5. crashes = 0 => SumFunctionOnSet(net, S) = SumFunctionOnSet(costs, S)
  BY <1>1, <1>2, SumSame
<1>6. phase = "up" => SumFunctionOnSet(net, S) <= SumFunctionOnSet(costs, S)
  BY <1>1, <1>2, SumMonotone
<1> QED BY <1>1, <1>3, <1>4, <1>5, <1>6

\* The books, what was told and what was paid agree in every state (Harness).
THEOREM AuditInvCorrect == Spec => []AuditInv
<1>1. Init => AuditInv
  BY TypeInit, ClaimInit, BooksInit, TraceInit, ToldInit, AuditInit
     DEF AuditInv, RInv, IInv
<1>2. AuditInv /\ [Next]_vars => AuditInv'
  <2> SUFFICES ASSUME AuditInv, [Next]_vars PROVE AuditInv'
    OBVIOUS
  <2>1. RInv'
    BY RInvStep DEF AuditInv
  <2>2. ToldInv'
    BY ToldStep DEF AuditInv, RInv, IInv
  <2> QED BY <2>1, <2>2, AuditStep DEF AuditInv, Sound
<1> QED BY <1>1, <1>2, PTL DEF Spec

\* As long as every write succeeds, what a caller has left is what he tipped
\* less what his calls cost; after crashes he is short by no more than that.
THEOREM LedgerAddsUpCorrect == Spec => []LedgerAddsUp
BY AuditInvCorrect, AuditAddsUp, PTL

-----------------------------------------------------------------------------

(***************************************************************************)
(* The composition implements the harness.                                 *)
(***************************************************************************)

\* A step of the relay is a step of the harness or a stutter of it, and takes
\* no time: nothing here outlives a replay window (passthrough).
LEMMA RelayStepsHarness ==
    [RelayNext]_<<vars, relayVars>> => [Next]_vars /\ now' = now
<1> SUFFICES ASSUME [RelayNext]_<<vars, relayVars>>
             PROVE  [Next]_vars /\ now' = now
  OBVIOUS
<1> USE DEF vars, procVars
<1>1. ASSUME NEW r \in Relays, RelayStep(r) \/ Disconnect(r)
      PROVE  [Next]_vars /\ now' = now
  BY <1>1 DEF RelayStep, Disconnect
<1>2. ASSUME \/ \E allow \in BOOLEAN : ApplySettings(allow)
             \/ \E l \in Links : DropLink(l) \/ CloseLink(l) \/ NeighbourFails(l)
             \/ Close \/ CloseRouter
      PROVE  [Next]_vars /\ now' = now
  BY <1>2 DEF ApplySettings, DropLink, CloseLink, NeighbourFails, Close, CloseRouter
<1>3. ASSUME NEW s \in Sessions, Break(s) \/ BotSweeps(s)
      PROVE  [Next]_vars /\ now' = now
  BY <1>3 DEF Break, BotSweeps
<1>4. ASSUME NEW d \in Calls, Arrive(d) PROVE [Next]_vars /\ now' = now
  BY <1>4 DEF Arrive, Next, claimCall
<1>5. ASSUME NEW d \in Calls, BotStep(d) PROVE [Next]_vars /\ now' = now
  BY <1>5 DEF BotStep, Next, HandlerStep, AnswerDuplicate, RefuseEarly, Price,
              RefuseUnpaid, charge, journalCharged, Run, RefundFailure,
              completeCall
<1>6. ASSUME NEW d \in Calls, BotCancels(d) PROVE [Next]_vars /\ now' = now
  BY <1>6 DEF BotCancels, Next, CancelDuplicate
<1>7. ASSUME NEW ok \in BOOLEAN, TipLands(ok) PROVE [Next]_vars /\ now' = now
  <2>1. Bridge \in Peers /\ Tip \in Tips
    BY RelayAssumption
  <2> QED BY <1>7, <2>1 DEF TipLands, Next, TopUp
<1>8. CASE BotCrash
  BY <1>8 DEF BotCrash, Next, Crash
<1>9. CASE BotRecovers
  BY <1>9 DEF BotRecovers, Next, RecoveryStep, Restart, RefundInterrupted,
              RemoveInterrupted, Serve
<1>10. CASE UNCHANGED <<vars, relayVars>>
  BY <1>10
<1> QED
  BY <1>1, <1>2, <1>3, <1>4, <1>5, <1>6, <1>7, <1>8, <1>9, <1>10 DEF RelayNext

\* The bot at the end of the link is the serving harness: whatever the bridge
\* does, its calls arrive as deliveries and its payments as tips.
THEOREM RelayImplementsHarness == RelaySpec => Spec
<1>1. RelayInit => Init
  BY DEF RelayInit
<1> QED BY <1>1, RelayStepsHarness, PTL DEF RelaySpec, Spec

\* So its charges are those of the promise (AddToolPriced under passthrough).
THEOREM RelayImplementsPaidCall == RelaySpec => ImplementsPaidCall
BY RelayImplementsHarness, HarnessImplementsPaidCall, PTL

(***************************************************************************)
(* One charge per call.                                                    *)
(***************************************************************************)

\* What was settled is inside its window, and is the only one of its key.
Unlapsed == \A c \in Calls : Settled(c) => now <= rec[c].expires
OnlyOne  == \A c, d \in Calls :
                Settled(c) /\ Settled(d) /\ KeyOf[c] = KeyOf[d] => c = d
OnceInv  == Sound => Unlapsed /\ OnlyOne

\* Only completeCall settles a call, and its record is kept from then on.
LEMMA SettledBy ==
    ASSUME RInv, [Next]_vars, Sound, NEW c \in Calls, Settled(c)',
           \A kept, ok \in BOOLEAN : ~completeCall(c, kept, ok)
    PROVE  Settled(c)
<1> USE HarnessAssumption DEF procVars, callVars, claimVars, openVars, histVars
<1>0. TypeOK /\ PriceInv
  BY DEF RInv, IInv
<1>1. ASSUME NEW d \in Calls, ArriveUnkeyed(d) PROVE Settled(c)
  BY <1>0, <1>1 DEF ArriveUnkeyed, Goto, Settled, TypeOK
<1>2. ASSUME NEW d \in Calls, NEW ok \in BOOLEAN, claimCall(d, ok)
      PROVE  Settled(c)
  BY <1>0, <1>2 DEF claimCall, Goto, Settled, TypeOK
<1>3. ASSUME NEW d \in Calls, CancelDuplicate(d) \/ AnswerDuplicate(d)
      PROVE  Settled(c)
  BY <1>0, <1>3 DEF CancelDuplicate, AnswerDuplicate, Return, Goto, Settled, TypeOK,
                    PriceInv
<1>4. ASSUME NEW d \in Calls, RefuseEarly(d) \/ RefuseUnpaid(d)
      PROVE  Settled(c)
  BY <1>0, <1>4 DEF RefuseEarly, RefuseUnpaid, refuse, Return, Goto, Settled,
                    TypeOK, PriceInv
<1>5. ASSUME NEW d \in Calls, NEW a \in Prices, Price(d, a) PROVE Settled(c)
  BY <1>0, <1>5 DEF Price, Goto, Settled, TypeOK
<1>6. ASSUME NEW d \in Calls, NEW ok \in BOOLEAN, charge(d, ok)
      PROVE  Settled(c)
  BY <1>0, <1>6 DEF charge, refuse, Return, Goto, Settled, TypeOK, PriceInv
<1>7. ASSUME NEW d \in Calls, NEW ok \in BOOLEAN,
             journalCharged(d, ok) \/ RefundFailure(d, ok)
      PROVE  Settled(c)
  BY <1>0, <1>7 DEF journalCharged, RefundFailure, Goto, Settled, TypeOK
<1>8. ASSUME NEW d \in Calls, NEW o \in {"ok", "err"}, Run(d, o)
      PROVE  Settled(c)
  BY <1>0, <1>8 DEF Run, Goto, Settled, TypeOK
<1>9. ASSUME NEW d \in Calls, NEW kept \in BOOLEAN, NEW ok \in BOOLEAN,
             completeCall(d, kept, ok)
      PROVE  Settled(c)
  BY <1>0, <1>9 DEF completeCall, Return, Goto, Settled, TypeOK
<1>10. ASSUME UNCHANGED <<pc, charged>> PROVE Settled(c)
  BY <1>10 DEF Settled, Keyed
<1>11. ASSUME NEW p \in Peers, NEW a \in Tips, NEW ok \in BOOLEAN, TopUp(p, a, ok)
       PROVE  Settled(c)
  BY <1>10, <1>11 DEF TopUp
<1>12. CASE Tick \/ Crash \/ RecoveryStep \/ UNCHANGED vars
  BY <1>10, <1>12 DEF Tick, Crash, RecoveryStep, Restart, RefundInterrupted,
                      RemoveInterrupted, Serve, vars
<1> QED
  BY <1>1, <1>2, <1>3, <1>4, <1>5, <1>6, <1>7, <1>8, <1>9, <1>11, <1>12
     DEF Next, HandlerStep

\* A record that settled a call keeps its expiry, except that a restart reads
\* it back from an entry inside its window (completedRecords).
LEMMA ExpiryKept ==
    ASSUME RInv, [Next]_vars, now' = now, Sound, NEW c \in Calls, Settled(c),
           now <= rec[c].expires
    PROVE  now' <= rec'[c].expires
<1> USE HarnessAssumption DEF procVars, callVars, claimVars, openVars, histVars
<1>0. TypeOK /\ PriceInv /\ pc[c] = "done" /\ c \in charged
  BY DEF RInv, IInv, Settled
<1>1. ASSUME UNCHANGED rec PROVE now' <= rec'[c].expires
  BY <1>1
<1>2. ASSUME NEW d \in Calls, NEW ok \in BOOLEAN, claimCall(d, ok)
      PROVE  now' <= rec'[c].expires
  BY <1>0, <1>2 DEF claimCall, TypeOK
<1>3. ASSUME NEW d \in Calls, ArriveUnkeyed(d) \/ CancelDuplicate(d) \/ AnswerDuplicate(d)
      PROVE  now' <= rec'[c].expires
  BY <1>1, <1>3 DEF ArriveUnkeyed, CancelDuplicate, AnswerDuplicate
<1>4. ASSUME NEW d \in Calls, releaseCall(d), pc[d] # "done"
      PROVE  rec'[c] = rec[c]
  BY <1>0, <1>4 DEF releaseCall, TypeOK
<1>5. ASSUME NEW d \in Calls, RefuseEarly(d) \/ RefuseUnpaid(d)
      PROVE  now' <= rec'[c].expires
  BY <1>0, <1>4, <1>5 DEF RefuseEarly, RefuseUnpaid, refuse
<1>6. ASSUME NEW d \in Calls, NEW a \in Prices, Price(d, a)
      PROVE  now' <= rec'[c].expires
  BY <1>1, <1>6 DEF Price
<1>7. ASSUME NEW d \in Calls, NEW ok \in BOOLEAN, charge(d, ok)
      PROVE  now' <= rec'[c].expires
  BY <1>0, <1>1, <1>4, <1>7 DEF charge, refuse
<1>8. ASSUME NEW d \in Calls, NEW ok \in BOOLEAN,
             journalCharged(d, ok) \/ RefundFailure(d, ok)
      PROVE  now' <= rec'[c].expires
  BY <1>1, <1>8 DEF journalCharged, RefundFailure
<1>9. ASSUME NEW d \in Calls, NEW o \in {"ok", "err"}, Run(d, o)
      PROVE  now' <= rec'[c].expires
  BY <1>1, <1>9 DEF Run
<1>10. ASSUME NEW d \in Calls, NEW kept \in BOOLEAN, NEW ok \in BOOLEAN,
              completeCall(d, kept, ok)
       PROVE  now' <= rec'[c].expires
  BY <1>0, <1>10 DEF completeCall, TypeOK
<1>11. ASSUME NEW p \in Peers, NEW a \in Tips, NEW ok \in BOOLEAN, TopUp(p, a, ok)
       PROVE  now' <= rec'[c].expires
  BY <1>1, <1>11 DEF TopUp
<1>12. ASSUME NEW ok \in BOOLEAN, Serve(ok) PROVE now' <= rec'[c].expires
  BY <1>0, <1>12 DEF Serve, EntryExpired, TypeOK, Entry, Keyed
<1>13. CASE Tick \/ Crash \/ UNCHANGED vars
  BY <1>1, <1>13 DEF Tick, Crash, vars
<1>14. CASE RecoveryStep
  BY <1>1, <1>12, <1>14 DEF RecoveryStep, Restart, RefundInterrupted, RemoveInterrupted
<1> QED
  BY <1>2, <1>3, <1>5, <1>6, <1>7, <1>8, <1>9, <1>10, <1>11, <1>13, <1>14
     DEF Next, HandlerStep

\* While no time passes, a key is settled once: what was settled keeps every
\* other delivery of its key from executing (claimCall, openJournal).
LEMMA OnceStep ==
    ASSUME RInv, RInv', [Next]_vars, now' = now, OnceInv PROVE OnceInv'
<1> SUFFICES ASSUME Sound' PROVE Unlapsed' /\ OnlyOne'
  BY DEF OnceInv
<1>0. /\ TypeOK /\ Sound /\ Unlapsed /\ OnlyOne
      /\ now \in Nat /\ CallKeyTTL \in Nat
  BY FaultsGrow, HarnessAssumption
     DEF RInv, IInv, Sound, OnceInv, TypeOK, LedgerTypeOK
<1>1. SettledIsFinal
  BY DEF RInv, IInv, Books, FinalInv, ClaimInv, SettledIsFinal, Settled,
         Executing, Keyed
<1>2. ASSUME NEW c \in Calls, NEW kept \in BOOLEAN, NEW ok \in BOOLEAN,
             completeCall(c, kept, ok), Keyed(c)
      PROVE  /\ now <= rec'[c].expires
             /\ Executing(c)
  BY <1>0, <1>2 DEF completeCall, TypeOK
<1>3. ASSUME NEW c \in Calls, Settled(c)', ~Settled(c)
      PROVE  /\ Executing(c) /\ now <= rec'[c].expires
             /\ \E kept, ok \in BOOLEAN : completeCall(c, kept, ok)
  BY <1>0, <1>2, <1>3, SettledBy DEF Settled, Keyed
<1>4. ASSUME NEW c \in Calls, Settled(c)' PROVE now' <= rec'[c].expires
  BY <1>0, <1>3, <1>4, ExpiryKept DEF Unlapsed
<1>5. ASSUME NEW c \in Calls, NEW d \in Calls, Settled(c)', Settled(d)',
             KeyOf[c] = KeyOf[d], c # d, Settled(c)
      PROVE  FALSE
  <2>1. ~Settled(d)
    BY <1>0, <1>5 DEF OnlyOne
  <2>2. Executing(d)
    BY <1>3, <1>5, <2>1
  <2> QED
    BY <1>0, <1>1, <1>5, <2>2 DEF SettledIsFinal, Sound, Unlapsed
<1>6. ASSUME NEW c \in Calls, NEW d \in Calls, c # d, ~Settled(c), ~Settled(d),
             Settled(c)', Settled(d)'
      PROVE  FALSE
  <2>1. PICK kept, ok \in BOOLEAN : completeCall(c, kept, ok)
    BY <1>3, <1>6
  <2>2. pc[d] = "finish"
    BY <1>3, <1>6 DEF completeCall
  <2>3. pc'[d] = "done"
    BY <1>6 DEF Settled
  <2> QED
    BY <1>0, <1>6, <2>1, <2>2, <2>3 DEF completeCall, Return, Goto, TypeOK
<1>7. OnlyOne'
  BY <1>5, <1>6 DEF OnlyOne
<1> QED BY <1>4, <1>7 DEF Unlapsed

\* Nothing is settled at the start, and the composition takes no time.
THEOREM OnceCorrect == RelaySpec => []OnceInv
<1>1. RelayInit => OnceInv
  BY DEF RelayInit, Init, OnceInv, Unlapsed, OnlyOne, Settled
<1>2. RelaySpec => []RInv
  BY RelayImplementsHarness, RInvCorrect, PTL
<1>3. RInv /\ RInv' /\ OnceInv /\ [RelayNext]_<<vars, relayVars>> => OnceInv'
  BY RelayStepsHarness, OnceStep
<1> QED BY <1>1, <1>2, <1>3, PTL DEF RelaySpec

\* A charge that is held belongs to the execution in progress; one that is
\* kept, to a settled call.
LEMMA BillsOfCalls ==
    ASSUME RInv, Sound, NEW c \in Calls, Keyed(c)
    PROVE  /\ BillOf(c) = "held" => Executing(c)
           /\ BillOf(c) = "kept" => Settled(c)
BY DEF RInv, IInv, TypeOK, PriceInv, BillOf, Executing, Settled, Steps

\* One logical call costs its price once at most, whatever is retried, paid,
\* polled or crashes (passthrough, claimCall, openJournal).
THEOREM ChargedOnceCorrect == RelaySpec => []ChargedOnce
<1>1. RInv /\ OnceInv => ChargedOnce
  <2> SUFFICES ASSUME RInv, OnceInv, diskFaults = 0, NEW r \in Relays,
                      NEW i \in 1..(MaxPolls + 1), NEW j \in 1..(MaxPolls + 1),
                      BillOf(Attempts[r][i]) \in {"held", "kept"},
                      BillOf(Attempts[r][j]) \in {"held", "kept"}
               PROVE  i = j
    BY DEF ChargedOnce
  <2> DEFINE c == Attempts[r][i]
             d == Attempts[r][j]
  <2>1. /\ c \in Calls /\ d \in Calls
        /\ Keyed(c) /\ Keyed(d) /\ KeyOf[c] = KeyOf[d]
        /\ c = d => i = j
    BY RelayAssumption
  <2>2. SingleFlight /\ SettledIsFinal /\ Sound /\ Unlapsed /\ OnlyOne
    BY DEF RInv, IInv, Books, FinalInv, ClaimInv, SettledIsFinal, Settled,
           SingleFlight, Executing, Keyed, OnceInv, Sound
  <2>3. c = d
    BY <2>1, <2>2, BillsOfCalls DEF SingleFlight, SettledIsFinal, Unlapsed, OnlyOne
  <2> QED BY <2>1, <2>3
<1>2. RelaySpec => []RInv
  BY RelayImplementsHarness, RInvCorrect, PTL
<1> QED BY <1>1, <1>2, OnceCorrect, PTL

(***************************************************************************)
(* The links and their sessions.                                           *)
(***************************************************************************)

\* An attempt is a poll's predecessor only while polls are left, and before
\* the payment there was one retry at most.
PollInv ==
    \A r \in Relays :
        /\ rpc[r] = "poll" => attempt[r] < MaxPolls
        /\ rpc[r] = "poll" => paid[r]
        /\ rpc[r] = "settle" => ~paid[r]
        /\ ~paid[r] => attempt[r] <= 1

\* A link is made when the table has none, and leaves it when settings are
\* saved; it has a session only in the table, before its reset, or astray; and
\* while the bot is allowed, a call works on the table's link or on one astray.
TableInv ==
    /\ made <= changes + 1
    /\ bridge = "open" =>
          /\ entry = NoLink => made <= changes
          /\ open \subseteq {link[l] : l \in Links}
          /\ \A l \in Links : link[l] # NoSession => l \in {entry} \cup dropped \cup astray
          /\ \A r \in Relays : listed /\ Holds(r) => held[r] \in {entry} \cup astray
    /\ bridge = "closed" => open = {}

LinkInv == RelayTypeOK /\ PollInv /\ TableInv

\* The bounds of polls, sessions and settings.
LEMMA LinkBounds ==
    /\ MaxPolls \in Nat /\ MaxPolls >= 2 /\ MaxSessions \in Nat /\ MaxBreaks \in Nat
    /\ MaxSettings \in Nat
    /\ NoSession \notin 1..MaxSessions
BY RelayAssumption

\* One attempt more stays within the polls.
LEMMA Bounded ==
    ASSUME NEW n \in 0..MaxPolls, n < MaxPolls PROVE n + 1 \in 0..MaxPolls
BY LinkBounds

\* Every attempt is a delivery.
LEMMA DeliveryIsCall ==
    ASSUME NEW r \in Relays, attempt[r] \in 0..MaxPolls PROVE Delivery(r) \in Calls
<1>1. attempt[r] + 1 \in 1..Len(Attempts[r])
  BY RelayAssumption
<1> QED BY <1>1, RelayAssumption DEF Delivery

\* A link other than "none" is one.
LEMMA LinkIs == NoLink \notin Links
BY LinkBounds DEF NoLink, Links

\* How a link gets a session, loses it, or is left alone.
Dialed(l, s) ==
    /\ link[l] = NoSession /\ listed /\ bridge # "closed"
    /\ s \in Sessions /\ dialed < MaxSessions /\ s = dialed + 1 /\ dialed' = s
    /\ link' = [link EXCEPT ![l] = s]
    /\ open' = open \cup {s} /\ served' = served \cup {s}

\* dialLocked hands out the link's session, a new one, or none.
LEMMA DialCases ==
    ASSUME RelayTypeOK, NEW l \in Links, NEW s, dialLocked(l, s)
    PROVE  /\ s \in Sessions \cup {NoSession}
           /\ \/ s \in {link[l], NoSession} /\ UNCHANGED <<link, open, dialed, served>>
              \/ Dialed(l, s)
<1>1. /\ dialed \in 0..MaxSessions /\ link[l] \in Sessions \cup {NoSession}
      /\ MaxSessions \in Nat
  BY LinkBounds DEF RelayTypeOK
<1>2. CASE link[l] # NoSession
  BY <1>1, <1>2 DEF dialLocked
<1>3. CASE link[l] = NoSession
  <2>1. CASE s = NoSession /\ UNCHANGED <<link, open, dialed, served>>
    BY <2>1
  <2>2. CASE /\ listed /\ bridge # "closed" /\ dialed < MaxSessions /\ s = dialed + 1
             /\ dialed' = s /\ link' = [link EXCEPT ![l] = s]
             /\ open' = open \cup {s} /\ served' = served \cup {s}
    <3>1. s \in Sessions
      BY <1>1, <2>2 DEF Sessions
    <3> QED BY <1>3, <2>2, <3>1 DEF Dialed
  <2> QED BY <1>3, <2>1, <2>2 DEF dialLocked
<1> QED BY <1>2, <1>3

\* Its types.
LEMMA DialTypes ==
    ASSUME RelayTypeOK, NEW l \in Links, NEW s, dialLocked(l, s)
    PROVE  /\ link' \in [Links -> Sessions \cup {NoSession}]
           /\ open' \subseteq Sessions /\ served' \subseteq Sessions
           /\ dialed' \in 0..MaxSessions
           /\ s \in Sessions \cup {NoSession}
<1>1. CASE UNCHANGED <<link, open, dialed, served>>
  BY <1>1, DialCases DEF RelayTypeOK
<1>2. CASE Dialed(l, s)
  BY <1>2, LinkBounds DEF Dialed, RelayTypeOK, Sessions
<1> QED BY <1>1, <1>2, DialCases

\* ... and of a reset.
LEMMA ResetTypes ==
    ASSUME RelayTypeOK, NEW l \in Links, reset(l)
    PROVE  /\ link' \in [Links -> Sessions \cup {NoSession}]
           /\ mirrored' \in [Links -> BOOLEAN]
           /\ open' \subseteq Sessions
BY DEF RelayTypeOK, reset

\* A call that holds a link holds one of them.
LEMMA HoldsLink ==
    ASSUME RelayTypeOK, NEW r \in Relays, Holds(r) PROVE held[r] \in Links
BY DEF RelayTypeOK

\* Each step of a call keeps its types and its count of attempts (dialLocked,
\* reset, passthrough).
LEMMA TypesOfCall ==
    ASSUME TypeOK, LinkInv, NEW r \in Relays, RelayStep(r)
    PROVE  RelayTypeOK' /\ PollInv'
<1> USE LinkBounds
    DEF LinkInv, RelayTypeOK, PollInv, RpcSteps, Results, Replies, Outcomes, Holds,
        linkVars, ruleVars, callState, wireVars
<1>0. ASSUME Holds(r) PROVE held[r] \in Links
  BY <1>0
<1>1. CASE Gate(r)
  BY <1>1 DEF Gate, GoOn
<1>2. CASE Find(r)
  <2>1. CASE bridge # "open"
    BY <1>2, <2>1 DEF Find, Finish
  <2>2. CASE bridge = "open"
    <3>1. /\ made' \in 0..(MaxSettings + 1) /\ entry' \in Links
      <4>1. CASE entry = NoLink
        <5>1. made <= changes /\ changes \in 0..MaxSettings /\ made \in 0..(MaxSettings + 1)
          BY <2>2, <4>1 DEF TableInv
        <5>2. made' = made + 1 /\ entry' = made'
          BY <1>2, <2>2, <4>1 DEF Find
        <5> QED BY <5>1, <5>2 DEF Links
      <4>2. CASE entry # NoLink
        BY <1>2, <2>2, <4>2 DEF Find
      <4> QED BY <4>1, <4>2
    <3>2. /\ held' = [held EXCEPT ![r] = entry'] /\ UNCHANGED out
          /\ \/ rpc' = [rpc EXCEPT ![r] = "mirror"]
             \/ rpc' = [rpc EXCEPT ![r] = "mirrorAgain"]
      BY <1>2, <2>2 DEF Find, GoOn
    <3>3. \A q \in Relays : Holds(q)' => held'[q] # NoLink
      BY <3>1, <3>2, LinkIs
    <3>4. /\ held' \in [Relays -> Links \cup {NoLink}] /\ rpc' \in [Relays -> RpcSteps]
      BY <3>1, <3>2
    <3> QED BY <1>2, <3>1, <3>2, <3>3, <3>4 DEF Find
  <2> QED BY <2>1, <2>2
<1>3. CASE Mirror(r)
  <2>1. held[r] \in Links
    BY <1>0, <1>3 DEF Mirror
  <2>2. /\ rpc' \in [Relays -> RpcSteps] /\ out' \in [Relays -> Results]
        /\ \A q \in Relays : /\ rpc'[q] = "poll" => rpc[q] = "poll"
                             /\ rpc'[q] = "settle" => rpc[q] = "settle"
                             /\ Holds(q)' => Holds(q)
    BY <1>3 DEF Mirror, Mirrored, GoOn, Finish
  <2>3. /\ link' \in [Links -> Sessions \cup {NoSession}]
        /\ mirrored' \in [Links -> BOOLEAN]
        /\ open' \subseteq Sessions /\ served' \subseteq Sessions
        /\ dialed' \in 0..MaxSessions
    <3>1. CASE mirrored[held[r]]
      BY <1>3, <3>1 DEF Mirror
    <3>2. CASE ~mirrored[held[r]]
      <4>1. PICK s : dialLocked(held[r], s)
        BY <1>3, <3>2 DEF Mirror
      <4>2. mirrored' \in [Links -> BOOLEAN]
        BY <1>3, <3>2 DEF Mirror
      <4> HIDE DEF RelayTypeOK
      <4>3. RelayTypeOK
        OBVIOUS
      <4> QED BY <2>1, <4>1, <4>2, <4>3, DialTypes
    <3> QED BY <3>1, <3>2
  <2>4. UNCHANGED <<made, entry, attempt, paid, held, via, gone, ruleVars, sentOn, tips,
                    breaks>>
    BY <1>3 DEF Mirror
  <2> QED BY <2>2, <2>3, <2>4
<1>4. CASE MirrorFails(r)
  <2>1. held[r] \in Links
    BY <1>0, <1>4 DEF MirrorFails
  <2>2. /\ link' \in [Links -> Sessions \cup {NoSession}]
        /\ mirrored' \in [Links -> BOOLEAN]
        /\ open' \subseteq Sessions
    BY <1>4, <2>1, ResetTypes DEF MirrorFails
  <2> QED BY <1>4, <2>2 DEF MirrorFails, Finish
<1>5. CASE Dial(r)
  <2>1. held[r] \in Links
    BY <1>0, <1>5 DEF Dial
  <2>2. PICK s : /\ dialLocked(held[r], s)
                 /\ IF s = NoSession
                    THEN Finish(r, "unavailable") /\ UNCHANGED <<via, sentOn>>
                    ELSE /\ GoOn(r, "call")
                         /\ via' = [via EXCEPT ![r] = s]
                         /\ sentOn' = [sentOn EXCEPT ![Delivery(r)] =
                                          IF s \in open' THEN s ELSE NoSession]
                         /\ UNCHANGED out
    BY <1>5 DEF Dial
  <2>3. /\ link' \in [Links -> Sessions \cup {NoSession}]
        /\ open' \subseteq Sessions /\ served' \subseteq Sessions
        /\ dialed' \in 0..MaxSessions
        /\ s \in Sessions \cup {NoSession}
    <3> HIDE DEF RelayTypeOK
    <3>1. RelayTypeOK
      OBVIOUS
    <3> QED BY <2>1, <2>2, <3>1, DialTypes
  <2>4. /\ via' \in [Relays -> Sessions \cup {NoSession}]
        /\ sentOn' \in [Calls -> Sessions \cup {NoSession}]
        /\ rpc' \in [Relays -> RpcSteps] /\ out' \in [Relays -> Results]
        /\ \A q \in Relays : /\ rpc'[q] = "poll" => rpc[q] = "poll"
                             /\ rpc'[q] = "settle" => rpc[q] = "settle"
                             /\ Holds(q)' => Holds(q)
    BY <1>5, <2>2, <2>3 DEF Dial, GoOn, Finish
  <2>5. UNCHANGED <<attempt, paid, held, gone, mirrored, made, entry, ruleVars, tips,
                    breaks>>
    BY <1>5 DEF Dial
  <2> QED BY <2>3, <2>4, <2>5
<1>6. CASE CallFails(r)
  <2>0. held[r] \in Links
    BY <1>0, <1>6 DEF CallFails
  <2>1. /\ link' \in [Links -> Sessions \cup {NoSession}]
        /\ mirrored' \in [Links -> BOOLEAN]
        /\ open' \subseteq Sessions
    BY <1>6, <2>0, ResetTypes DEF CallFails
  <2>2. attempt' \in [Relays -> 0..MaxPolls]
    BY <1>6, Bounded DEF CallFails, Again, GoOn
  <2>3. rpc' \in [Relays -> RpcSteps] /\ out' \in [Relays -> Results]
    BY <1>6 DEF CallFails, Again, GoOn, Finish
  <2>4. \A q \in Relays : /\ rpc'[q] = "poll" => attempt'[q] < MaxPolls
                          /\ rpc'[q] = "poll" => paid'[q]
                          /\ rpc'[q] = "settle" => ~paid'[q]
                          /\ ~paid'[q] => attempt'[q] <= 1
                          /\ Holds(q)' => Holds(q)
    BY <1>6 DEF CallFails, Again, GoOn, Finish
  <2> QED BY <1>6, <2>1, <2>2, <2>3, <2>4 DEF CallFails
<1>7. CASE CallReturns(r)
  <2>1. reply[Delivery(r)] \in Results
    BY <1>7, DeliveryIsCall DEF CallReturns, TypeOK
  <2>2. rpc' \in [Relays -> RpcSteps] /\ out' \in [Relays -> Results]
    BY <1>7, <2>1 DEF CallReturns, AfterRefusal, GoOn, Finish
  <2>3. \A q \in Relays : /\ rpc'[q] = "poll" => attempt'[q] < MaxPolls
                          /\ rpc'[q] = "poll" => paid'[q]
                          /\ rpc'[q] = "settle" => ~paid'[q]
                          /\ ~paid'[q] => attempt'[q] <= 1
                          /\ Holds(q)' => Holds(q)
    BY <1>7 DEF CallReturns, AfterRefusal, GoOn, Finish
  <2> QED BY <1>7, <2>2, <2>3 DEF CallReturns
<1>8. CASE Settle(r)
  <2>1. attempt[r] <= 1 /\ ~paid[r]
    BY <1>8 DEF Settle
  <2>2. attempt' \in [Relays -> 0..MaxPolls]
    BY <1>8, <2>1, Bounded DEF Settle, Again
  <2>3. paid' \in [Relays -> BOOLEAN]
    BY <1>8 DEF Settle
  <2>4. tips' = tips \/ tips' = tips + 1
    BY <1>8 DEF Settle
  <2>5. tips' \in Nat
    BY <2>4
  <2>6. rpc' \in [Relays -> RpcSteps] /\ out' \in [Relays -> Results]
    BY <1>8 DEF Settle, Again, GoOn, Finish
  <2>7. \A q \in Relays : /\ rpc'[q] = "poll" => attempt'[q] < MaxPolls
                          /\ rpc'[q] = "poll" => paid'[q]
                          /\ rpc'[q] = "settle" => ~paid'[q]
                          /\ ~paid'[q] => attempt'[q] <= 1
                          /\ Holds(q)' => Holds(q)
    BY <1>8 DEF Settle, Again, GoOn, Finish
  <2> QED BY <1>8, <2>2, <2>3, <2>5, <2>6, <2>7 DEF Settle
<1>9. CASE Poll(r)
  <2>1. attempt[r] < MaxPolls /\ paid[r]
    BY <1>9 DEF Poll
  <2>2. attempt' \in [Relays -> 0..MaxPolls]
    BY <1>9, <2>1, Bounded DEF Poll, Again
  <2>3. rpc' \in [Relays -> RpcSteps] /\ out' \in [Relays -> Results]
    BY <1>9 DEF Poll, Again, GoOn, Finish
  <2>4. \A q \in Relays : /\ rpc'[q] = "poll" => attempt'[q] < MaxPolls
                          /\ rpc'[q] = "poll" => paid'[q]
                          /\ rpc'[q] = "settle" => ~paid'[q]
                          /\ ~paid'[q] => attempt'[q] <= 1
                          /\ Holds(q)' => Holds(q)
    BY <1>9, <2>1 DEF Poll, Again, GoOn, Finish
  <2> QED BY <1>9, <2>2, <2>3, <2>4 DEF Poll
<1> QED
  BY <1>1, <1>2, <1>3, <1>4, <1>5, <1>6, <1>7, <1>8, <1>9 DEF RelayStep

\* The table stays right when no link, rule or hold changes, ...
Kept == /\ UNCHANGED <<made, entry, held, ruleVars>>
        /\ \A q \in Relays : Holds(q)' => Holds(q)

LEMMA TableUntouched ==
    ASSUME LinkInv, Kept, UNCHANGED <<link, open>> PROVE TableInv'
BY DEF LinkInv, TableInv, Kept, ruleVars

\* ... when a connection closes, ...
LEMMA TableBroken ==
    ASSUME LinkInv, Kept, UNCHANGED link, open' \subseteq open PROVE TableInv'
BY DEF LinkInv, TableInv, Kept, ruleVars

\* ... when a link is reset, whoever holds it, ...
LEMMA ResetKeeps ==
    ASSUME RelayTypeOK, NEW l \in Links, reset(l)
    PROVE  /\ \A k \in Links : link'[k] # NoSession => link[k] # NoSession
           /\ open \subseteq {link[k] : k \in Links} => open' \subseteq {link'[k] : k \in Links}
           /\ open' \subseteq open
<1>1. /\ link'[l] = NoSession /\ \A k \in Links \ {l} : link'[k] = link[k]
      /\ open' = open \ {link[l]}
  BY DEF RelayTypeOK, reset
<1> QED BY <1>1

LEMMA TableReset ==
    ASSUME LinkInv, Kept, NEW l \in Links, reset(l) PROVE TableInv'
BY ResetKeeps DEF LinkInv, TableInv, Kept, ruleVars

\* ... and when a session is dialed on the link a call holds.
LEMMA TableDialed ==
    ASSUME LinkInv, Kept, NEW r \in Relays, Holds(r), NEW s, dialLocked(held[r], s)
    PROVE  TableInv'
<1>1. RelayTypeOK /\ TableInv /\ held[r] \in Links
  BY HoldsLink DEF LinkInv
<1>2. CASE UNCHANGED <<link, open>>
  BY <1>2, TableUntouched
<1>3. CASE Dialed(held[r], s)
  <2>1. /\ link'[held[r]] = s /\ \A k \in Links \ {held[r]} : link'[k] = link[k]
        /\ open' = open \cup {s} /\ listed /\ bridge # "closed"
        /\ link[held[r]] = NoSession
    BY <1>1, <1>3 DEF Dialed, RelayTypeOK
  <2>2. UNCHANGED <<made, entry, held, listed, changes, dropped, bridge, astray>>
    BY DEF Kept, ruleVars
  <2>3. CASE bridge # "open"
    BY <1>1, <2>1, <2>2, <2>3 DEF TableInv
  <2>4. CASE bridge = "open"
    <3>1. held[r] \in {entry} \cup astray
      BY <1>1, <2>1, <2>4 DEF TableInv
    <3>2. NoSession \notin open
      BY <1>1, LinkBounds DEF RelayTypeOK, Sessions
    <3>3. open' \subseteq {link'[k] : k \in Links}
      <4> SUFFICES ASSUME NEW n \in open' PROVE \E k \in Links : n = link'[k]
        OBVIOUS
      <4>1. CASE n = s
        BY <1>1, <2>1, <4>1
      <4>2. CASE n \in open
        <5>1. PICK k \in Links : n = link[k]
          BY <1>1, <2>4, <4>2 DEF TableInv
        <5> QED BY <2>1, <3>2, <4>2, <5>1
      <4> QED BY <2>1, <4>1, <4>2
    <3>4. \A k \in Links : link'[k] # NoSession => k \in {entry} \cup dropped \cup astray
      BY <1>1, <2>1, <2>4, <3>1 DEF TableInv
    <3> QED BY <1>1, <2>2, <2>4, <3>3, <3>4 DEF TableInv, Kept
  <2> QED BY <2>3, <2>4
<1> QED BY <1>1, <1>2, <1>3, DialCases

\* Each step of a call keeps the table right (proxyServerFor, passthrough).
LEMMA TableOfCall ==
    ASSUME LinkInv, NEW r \in Relays, RelayStep(r) PROVE TableInv'
<1> USE DEF linkVars
<1>0. RelayTypeOK /\ TableInv
  BY DEF LinkInv
<1>1. ASSUME NEW n, rpc' = [rpc EXCEPT ![r] = n],
             Holds(r) \/ n \in {"idle", "find", "findAgain", "done"},
             UNCHANGED <<made, entry, held, ruleVars>>
      PROVE  Kept
  BY <1>0, <1>1 DEF Kept, Holds, RelayTypeOK
<1>2. CASE Gate(r)
  BY <1>1, <1>2, TableUntouched DEF Gate, GoOn
<1>3. CASE Find(r)
  <2>1. CASE bridge # "open"
    <3>1. Kept /\ UNCHANGED <<link, open>>
      BY <1>1, <1>3, <2>1 DEF Find, Finish
    <3> QED BY <3>1, TableUntouched
  <2>2. CASE bridge = "open"
    <3>1. /\ UNCHANGED <<link, open, ruleVars>>
          /\ IF entry = NoLink THEN made' = made + 1 /\ entry' = made'
                               ELSE UNCHANGED <<made, entry>>
          /\ held' = [held EXCEPT ![r] = entry']
          /\ \E n : rpc' = [rpc EXCEPT ![r] = n]
      BY <1>3, <2>2 DEF Find, GoOn
    <3>2. made' <= changes + 1 /\ entry' # NoLink
      <4>1. made \in 0..(MaxSettings + 1) /\ changes \in 0..MaxSettings
        BY <1>0 DEF RelayTypeOK
      <4>2. entry = NoLink => made <= changes
        BY <1>0, <2>2 DEF TableInv
      <4>3. made <= changes + 1
        BY <1>0 DEF TableInv
      <4> QED BY <3>1, <4>1, <4>2, <4>3, LinkBounds DEF NoLink
    <3>3. \A l \in Links : link[l] # NoSession => l \in {entry'} \cup dropped \cup astray
      BY <1>0, <2>2, <3>1, LinkIs DEF TableInv
    <3>4. ASSUME NEW q \in Relays, listed, Holds(q)'
          PROVE  held'[q] \in {entry'} \cup astray
      <4>1. CASE q = r
        BY <1>0, <3>1, <4>1 DEF RelayTypeOK
      <4>2. CASE q # r
        <5>1. Holds(q) /\ held'[q] = held[q]
          BY <1>0, <3>1, <3>4, <4>2 DEF RelayTypeOK, Holds
        <5>2. held[q] \in {entry} \cup astray /\ held[q] \in Links
          BY <1>0, <2>2, <3>4, <5>1, HoldsLink DEF TableInv
        <5> QED BY <3>1, <5>1, <5>2, LinkIs
      <4> QED BY <4>1, <4>2
    <3> QED BY <1>0, <2>2, <3>1, <3>2, <3>3, <3>4 DEF TableInv, ruleVars
  <2> QED BY <2>1, <2>2
<1>4. CASE Mirror(r)
  <2>1. Holds(r)
    BY <1>4 DEF Mirror, Holds
  <2>2. Kept
    BY <1>1, <1>4, <2>1 DEF Mirror, Mirrored, GoOn, Finish
  <2>3. CASE mirrored[held[r]]
    BY <1>4, <2>2, <2>3, TableUntouched DEF Mirror
  <2>4. CASE ~mirrored[held[r]]
    BY <1>4, <2>1, <2>2, <2>4, TableDialed DEF Mirror
  <2> QED BY <2>3, <2>4
<1>5. CASE MirrorFails(r)
  <2>1. Holds(r) /\ reset(held[r])
    BY <1>5 DEF MirrorFails, Holds
  <2>2. Kept
    BY <1>1, <1>5, <2>1 DEF MirrorFails, Finish
  <2> QED BY <1>0, <2>1, <2>2, HoldsLink, TableReset
<1>6. CASE Dial(r)
  <2>1. Holds(r)
    BY <1>6 DEF Dial, Holds
  <2>2. PICK s : dialLocked(held[r], s)
    BY <1>6 DEF Dial
  <2>3. Kept
    BY <1>1, <1>6, <2>1 DEF Dial, GoOn, Finish
  <2> QED BY <2>1, <2>2, <2>3, TableDialed
<1>7. CASE CallFails(r)
  <2>1. Holds(r) /\ reset(held[r])
    BY <1>7 DEF CallFails, Holds
  <2>2. Kept
    BY <1>1, <1>7, <2>1 DEF CallFails, Again, GoOn, Finish
  <2> QED BY <1>0, <2>1, <2>2, HoldsLink, TableReset
<1>8. CASE CallReturns(r)
  <2>1. Holds(r)
    BY <1>8 DEF CallReturns, Holds
  <2>2. Kept
    BY <1>1, <1>8, <2>1 DEF CallReturns, AfterRefusal, GoOn, Finish
  <2> QED BY <1>8, <2>2, TableUntouched DEF CallReturns
<1>9. CASE Settle(r)
  <2>1. Holds(r)
    BY <1>9 DEF Settle, Holds
  <2>2. Kept
    BY <1>1, <1>9, <2>1 DEF Settle, Again, GoOn, Finish
  <2> QED BY <1>9, <2>2, TableUntouched DEF Settle
<1>10. CASE Poll(r)
  <2>1. Holds(r)
    BY <1>10 DEF Poll, Holds
  <2>2. Kept
    BY <1>1, <1>10, <2>1 DEF Poll, Again, GoOn, Finish
  <2> QED BY <1>10, <2>2, TableUntouched DEF Poll
<1> QED
  BY <1>2, <1>3, <1>4, <1>5, <1>6, <1>7, <1>8, <1>9, <1>10 DEF RelayStep

\* Settings that are saved keep it right: a bot taken off the list leaves its
\* link to be reset, one that is allowed again those its calls still hold.
LEMMA TableOfSettings ==
    ASSUME LinkInv, NEW allow \in BOOLEAN, ApplySettings(allow) PROVE LinkInv'
<1>1. RelayTypeOK /\ PollInv /\ TableInv
  BY DEF LinkInv
<1>2. /\ changes < MaxSettings /\ changes' = changes + 1 /\ listed' = allow
      /\ IF allow \/ entry = NoLink
         THEN UNCHANGED <<entry, dropped>>
         ELSE entry' = NoLink /\ dropped' = dropped \cup {entry}
      /\ astray' = IF allow /\ ~listed
                   THEN astray \cup ({held[r] : r \in {q \in Relays : Holds(q)}} \ {entry})
                   ELSE astray
      /\ UNCHANGED <<link, mirrored, made, open, dialed, bridge, closing, callState,
                     wireVars>>
  BY DEF ApplySettings
<1>3. changes \in 0..MaxSettings /\ made \in 0..(MaxSettings + 1)
  BY <1>1 DEF RelayTypeOK
<1>4. \A r \in Relays : (Holds(r)' <=> Holds(r)) /\ held'[r] = held[r]
  BY <1>2 DEF Holds, callState
<1>5. astray \subseteq astray' /\ astray' \subseteq Links
  BY <1>1, <1>2, HoldsLink DEF RelayTypeOK
<1>6. /\ entry' \in Links \cup {NoLink} /\ dropped' \subseteq Links
      /\ changes' \in 0..MaxSettings /\ listed' \in BOOLEAN
  BY <1>1, <1>2, <1>3, LinkBounds DEF RelayTypeOK
<1>7. RelayTypeOK' /\ PollInv'
  <2>1. RelayTypeOK'
    BY <1>1, <1>2, <1>4, <1>5, <1>6 DEF RelayTypeOK, callState, wireVars
  <2>2. PollInv'
    BY <1>1, <1>2 DEF PollInv, callState
  <2> QED BY <2>1, <2>2
<1>8. made' <= changes' + 1 /\ (bridge = "open" /\ entry' = NoLink => made' <= changes')
  <2>1. made <= changes + 1
    BY <1>1 DEF TableInv
  <2> QED BY <1>2, <1>3, <2>1, LinkBounds
<1>9. bridge = "open" => \A l \in Links :
          link[l] # NoSession => l \in {entry'} \cup dropped' \cup astray'
  BY <1>1, <1>2, <1>5, LinkIs DEF TableInv
<1>10. bridge = "open" => \A r \in Relays :
           allow /\ Holds(r) => held[r] \in {entry'} \cup astray'
  BY <1>1, <1>2, <1>5 DEF TableInv
<1>11. TableInv'
  BY <1>1, <1>2, <1>4, <1>8, <1>9, <1>10 DEF TableInv
<1> QED BY <1>7, <1>11 DEF LinkInv

\* So do the resets ApplySettings, Close and other calls make.
LEMMA LinkResets ==
    ASSUME LinkInv, NEW l \in Links, DropLink(l) \/ CloseLink(l) \/ NeighbourFails(l)
    PROVE  LinkInv'
<1>1. /\ reset(l) /\ RelayTypeOK /\ PollInv /\ TableInv
      /\ UNCHANGED <<made, entry, dialed, listed, changes, bridge, astray, callState,
                     wireVars>>
      /\ dropped' \subseteq dropped /\ closing' \subseteq closing
      /\ dropped' = dropped \/ dropped' = dropped \ {l}
  BY DEF DropLink, CloseLink, NeighbourFails, LinkInv, ruleVars
<1>2. /\ link' \in [Links -> Sessions \cup {NoSession}] /\ mirrored' \in [Links -> BOOLEAN]
      /\ open' \subseteq Sessions
      /\ link'[l] = NoSession /\ \A k \in Links : link'[k] # NoSession => link[k] # NoSession
      /\ open \subseteq {link[k] : k \in Links} => open' \subseteq {link'[k] : k \in Links}
      /\ open' \subseteq open
  <2>1. link'[l] = NoSession
    BY <1>1 DEF reset, RelayTypeOK
  <2> QED BY <1>1, <2>1, ResetTypes, ResetKeeps
<1>3. \A r \in Relays : (Holds(r)' <=> Holds(r)) /\ held'[r] = held[r]
  BY <1>1 DEF Holds, callState
<1>4. RelayTypeOK'
  BY <1>1, <1>2, <1>3 DEF RelayTypeOK, callState, wireVars
<1>5. PollInv'
  BY <1>1 DEF PollInv, callState
<1>6. \A k \in Links : link'[k] # NoSession /\ k \in dropped => k \in dropped'
  BY <1>1, <1>2
<1>7. TableInv'
  BY <1>1, <1>2, <1>3, <1>6 DEF TableInv
<1> QED BY <1>4, <1>5, <1>7 DEF LinkInv

\* Bridge.Close ends with no connection open.
LEMMA LinkCloses ==
    ASSUME LinkInv, Close \/ CloseRouter PROVE LinkInv'
<1>1. /\ RelayTypeOK /\ PollInv /\ TableInv
      /\ UNCHANGED <<link, mirrored, made, dialed, listed, changes, dropped, astray,
                     callState, wireVars>>
      /\ bridge' # "closing" => bridge' = "closed" /\ open' = {}
      /\ entry' \in {entry, NoLink} /\ closing' \subseteq closing \cup ({entry} \ {NoLink})
      /\ open' \subseteq open
  BY DEF Close, CloseRouter, LinkInv
<1>2. \A r \in Relays : (Holds(r)' <=> Holds(r)) /\ held'[r] = held[r]
  BY <1>1 DEF Holds, callState
<1>3. RelayTypeOK'
  BY <1>1, <1>2 DEF RelayTypeOK, callState, wireVars
<1>4. PollInv' /\ TableInv'
  BY <1>1 DEF PollInv, TableInv, callState
<1> QED BY <1>3, <1>4 DEF LinkInv

\* ... and so does whatever happens to link, network and bot meanwhile.
LEMMA LinkStep == TypeOK /\ LinkInv /\ [RelayNext]_<<vars, relayVars>> => LinkInv'
<1> SUFFICES ASSUME TypeOK, LinkInv, [RelayNext]_<<vars, relayVars>>
             PROVE  LinkInv'
  OBVIOUS
<1>0. RelayTypeOK /\ PollInv /\ TableInv
  BY DEF LinkInv
<1>1. ASSUME NEW r \in Relays, RelayStep(r) PROVE LinkInv'
  BY <1>1, TypesOfCall, TableOfCall DEF LinkInv
\* Steps at which calls, links and rules rest.
<1>2. ASSUME UNCHANGED <<rpc, attempt, paid, held, via, out, link, mirrored, made, entry,
                         dialed, ruleVars>>,
             open' \subseteq open, gone' \subseteq Relays, served' \subseteq Sessions,
             sentOn' = sentOn, tips' \in Nat, breaks' \in 0..MaxBreaks
      PROVE  LinkInv'
  <2>1. RelayTypeOK'
    BY <1>0, <1>2 DEF RelayTypeOK, Holds, ruleVars
  <2>2. PollInv'
    BY <1>0, <1>2 DEF PollInv
  <2>3. TableInv'
    BY <1>2, TableBroken DEF Kept, Holds
  <2> QED BY <2>1, <2>2, <2>3 DEF LinkInv
<1> USE DEF linkVars, callState, wireVars
<1>3. ASSUME NEW r \in Relays, Disconnect(r) PROVE LinkInv'
  BY <1>0, <1>2, <1>3 DEF Disconnect, RelayTypeOK
<1>4. ASSUME NEW s \in Sessions, Break(s) \/ BotSweeps(s) PROVE LinkInv'
  <2>1. CASE Break(s)
    BY <1>0, <1>2, <2>1, LinkBounds DEF Break, RelayTypeOK
  <2>2. CASE BotSweeps(s)
    BY <1>0, <1>2, <2>2 DEF BotSweeps, RelayTypeOK
  <2> QED BY <1>4, <2>1, <2>2
<1>5. ASSUME UNCHANGED relayVars PROVE LinkInv'
  BY <1>0, <1>2, <1>5 DEF relayVars, RelayTypeOK
<1>6. ASSUME NEW d \in Calls, Arrive(d) \/ BotStep(d) \/ BotCancels(d)
      PROVE  LinkInv'
  BY <1>5, <1>6 DEF Arrive, BotStep, BotCancels
<1>7. ASSUME NEW ok \in BOOLEAN, TipLands(ok) PROVE LinkInv'
  BY <1>0, <1>2, <1>7 DEF TipLands, RelayTypeOK
<1>8. CASE BotCrash
  BY <1>0, <1>2, <1>8 DEF BotCrash, RelayTypeOK
<1>9. CASE BotRecovers \/ UNCHANGED <<vars, relayVars>>
  BY <1>5, <1>9 DEF BotRecovers
<1> QED
  BY <1>1, <1>3, <1>4, <1>6, <1>7, <1>8, <1>9, TableOfSettings, LinkResets, LinkCloses
     DEF RelayNext

\* Types, no attempt beyond the polls a paid call may make (passthrough), and
\* sessions only on links that somebody will look at or that went astray.
THEOREM LinkInvCorrect == RelaySpec => []LinkInv
<1>1. RelayInit => LinkInv
  <2> SUFFICES ASSUME RelayInit PROVE LinkInv
    OBVIOUS
  <2>1. /\ attempt \in [Relays -> 0..MaxPolls] /\ dialed \in 0..MaxSessions
        /\ breaks \in 0..MaxBreaks /\ tips \in Nat
        /\ made \in 0..(MaxSettings + 1) /\ changes \in 0..MaxSettings
        /\ made <= changes
    BY LinkBounds DEF RelayInit
  <2>2. /\ rpc \in [Relays -> RpcSteps] /\ paid \in [Relays -> BOOLEAN]
        /\ via \in [Relays -> Sessions \cup {NoSession}]
        /\ held \in [Relays -> Links \cup {NoLink}]
        /\ out \in [Relays -> Results]
        /\ sentOn \in [Calls -> Sessions \cup {NoSession}]
        /\ link \in [Links -> Sessions \cup {NoSession}]
        /\ mirrored \in [Links -> BOOLEAN]
    BY DEF RelayInit, RpcSteps, Results, Replies, Outcomes
  <2>3. /\ gone \subseteq Relays /\ entry \in Links \cup {NoLink}
        /\ open = {} /\ served \subseteq Sessions
        /\ dropped \subseteq Links /\ closing \subseteq Links /\ astray \subseteq Links
        /\ listed \in BOOLEAN /\ bridge = "open"
        /\ \A l \in Links : link[l] = NoSession
    BY DEF RelayInit
  <2>4. \A r \in Relays : rpc[r] = "idle" /\ attempt[r] = 0 /\ ~Holds(r)
    BY DEF RelayInit, Holds
  <2>5. RelayTypeOK
    BY <2>1, <2>2, <2>3, <2>4 DEF RelayTypeOK
  <2>6. PollInv
    BY <2>4 DEF PollInv
  <2>7. made <= changes + 1
    BY <2>1, LinkBounds
  <2> QED BY <2>1, <2>3, <2>4, <2>5, <2>6, <2>7 DEF LinkInv, TableInv
<1>2. RelaySpec => []TypeOK
  BY RelayImplementsHarness, TypeCorrect, PTL
<1> QED BY <1>1, <1>2, LinkStep, PTL DEF RelaySpec

\* Links, calls, attempts and sessions have their types, for any number of
\* calls, retries, polls, settings and crashes (passthrough, botLink).
THEOREM RelayTypeCorrect == RelaySpec => []RelayTypeOK
<1>1. LinkInv => RelayTypeOK
  BY DEF LinkInv
<1> QED BY <1>1, LinkInvCorrect, PTL

\* No session leaks except on a link that a call held when its bot was taken
\* off the list and allowed again, and none outlives the bridge, however often
\* settings are saved (botLink.reset, dialLocked, ApplySettings, Close).
THEOREM NoSessionLeaksCorrect == RelaySpec => []NoSessionLeaks
<1>1. LinkInv => NoSessionLeaks
  <2> SUFFICES ASSUME LinkInv PROVE NoSessionLeaks
    OBVIOUS
  <2>1. ASSUME bridge = "open", NEW s \in open PROVE s \in Reachable
    <3>1. PICK l \in Links : s = link[l]
      BY <2>1 DEF LinkInv, TableInv
    <3>2. s # NoSession
      BY <2>1, LinkBounds DEF LinkInv, RelayTypeOK, Sessions
    <3>3. l \in {entry} \cup dropped \cup astray
      BY <2>1, <3>1, <3>2 DEF LinkInv, TableInv
    <3> QED BY <3>1, <3>3 DEF Reachable
  <2> QED BY <2>1 DEF NoSessionLeaks, LinkInv, TableInv
<1> QED BY <1>1, LinkInvCorrect, PTL

(***************************************************************************)
(* What an agent is told.                                                  *)
(***************************************************************************)
\* A claim's owner executes, or its record answers for the key.
Answers(c) == pc[c] = "done" /\ rec[c].outcome # "none" /\ now <= rec[c].expires

ClaimsOK ==
    /\ phase # "up" => \A k \in Keys : calls[k] = NoCall
    /\ \A k \in Keys : calls[k] # NoCall => /\ KeyOf[calls[k]] = k
                                            /\ Executing(calls[k]) \/ Answers(calls[k])

\* An entry is completed with its owner's own outcome, or with the remark that
\* it was not retained.
EntryOK(e, r) == /\ e.done <=> e.outcome # "none"
                 /\ e.owner # NoCall /\ e.outcome \in Told => r[e.owner] = e.outcome

EntriesOK == \A k \in Keys : EntryOK(journal[k], result) /\ EntryOK(callsFile[k], result)

\* So is a record; one closed without an outcome is that of a refused call.
RecordsOK ==
    \A c \in Calls :
        /\ rec[c].outcome # "none" => rec[c].closed
        /\ rec[c].closed => pc[c] = "done"
        /\ rec[c].closed /\ rec[c].outcome = "none" => c \notin charged
        /\ rec[c].outcome \in Told => result[c] = rec[c].outcome

\* A living duplicate waits for the claim, or for a record that was closed
\* without an outcome.
WaitsOK ==
    \A c \in Calls :
        pc[c] = "wait" /\ c \notin dead =>
            /\ phase = "up" /\ Keyed(c) /\ KeyOf[waits[c]] = KeyOf[c]
            /\ \/ calls[KeyOf[c]] = waits[c]
               \/ rec[waits[c]].closed /\ rec[waits[c]].outcome = "none"

\* A delivery's reply, once there is one, is backed by what was executed.
ReplyOK(c) ==
    /\ pc[c] \in {"refund", "finish"} => result[c] \in Told
    /\ reply[c] # "none" => pc[c] = "done"
    /\ reply[c] = "unpaid" => c \notin charged /\ rec[c].outcome = "none"
    /\ reply[c] = "empty" =>
          /\ c \notin charged
          /\ waits[c] \in Calls /\ pc[waits[c]] = "done" /\ waits[c] \notin charged
    /\ reply[c] = "ok" => \E e \in Calls : /\ e = c \/ (Keyed(c) /\ KeyOf[e] = KeyOf[c])
                                           /\ pc[e] = "done" /\ result[e] = "ok"

RepliesOK == \A c \in Calls : ReplyOK(c)

HeardInv == ClaimsOK /\ EntriesOK /\ RecordsOK /\ WaitsOK /\ RepliesOK

\* Nothing is claimed and nothing answered before the first delivery.
LEMMA HeardInit == Init => HeardInv
BY HarnessAssumption
   DEF Init, HeardInv, ClaimsOK, EntriesOK, EntryOK, RecordsOK, WaitsOK, RepliesOK, ReplyOK, Told,
       NoEntry, NewRecord, Executing

\* Every step of the harness that takes no time keeps that, one step per action.
LEMMA HeardStep ==
    ASSUME RInv, RInv', HeardInv, [Next]_vars, now' = now, Sound, Sound'
    PROVE  HeardInv'
<1> USE HarnessAssumption DEF procVars, callVars, claimVars, openVars, histVars, jVars, ledgerVars
<1>0. /\ TypeOK /\ TypeOK' /\ ClaimInv /\ PriceInv /\ FileInv /\ Books /\ Books' /\ FileInv'
      /\ ClaimsOK /\ EntriesOK /\ RecordsOK /\ WaitsOK /\ RepliesOK
      /\ diskFaults' = 0 /\ diskFaults = 0
      /\ now \in Nat /\ CallKeyTTL \in Nat
      /\ \A k \in Keys : callsFile[k] \in Entry
  BY DEF RInv, IInv, HeardInv, Sound, TypeOK
\* The result of an execution in progress is in no record and in no entry.
<1>x. ASSUME NEW c \in Calls, Executing(c)
      PROVE  /\ phase = "up" /\ c \notin dead /\ pc[c] \notin {"new", "wait", "done"}
             /\ rec[c].outcome = "none" /\ ~rec[c].closed
             /\ journal = callsFile
             /\ Keyed(c) => calls[KeyOf[c]] = c /\ KeyOf[c] \in Keys
             /\ reply[c] = "none"
             /\ \A k \in Keys : callsFile[k].owner = c => callsFile[k].outcome = "none"
  <2>1. phase = "up" /\ c \notin dead /\ pc[c] \notin {"new", "wait", "done"}
    BY <1>0, <1>x DEF ClaimInv, Executing
  <2>2. /\ rec[c].outcome = "none" /\ ~rec[c].closed /\ reply[c] = "none"
    BY <1>0, <2>1 DEF RecordsOK, RepliesOK, ReplyOK
  <2>3. journal = callsFile
    BY <1>0, <2>1 DEF Books, OpenInv
  <2>4. Keyed(c) => calls[KeyOf[c]] = c /\ KeyOf[c] \in Keys
    BY <1>0, <1>x DEF ClaimInv, Keyed
  <2>5. \A k \in Keys : callsFile[k].owner = c => callsFile[k].outcome = "none"
    BY <1>0, <2>1 DEF FileInv, EntriesOK, EntryOK
  <2> QED BY <2>1, <2>2, <2>3, <2>4, <2>5
\* Replies given before stay backed while another delivery takes a step.
<1>r. ASSUME NEW c \in Calls, pc[c] # "done", charged' \subseteq charged \cup {c},
             \A d \in Calls \ {c} :
                /\ pc'[d] = pc[d] /\ reply'[d] = reply[d] /\ waits'[d] = waits[d]
                /\ result'[d] = result[d] /\ rec'[d].outcome = rec[d].outcome,
             ReplyOK(c)'
      PROVE  RepliesOK'
  <2> SUFFICES ASSUME NEW d \in Calls, d # c PROVE ReplyOK(d)'
    BY <1>r DEF RepliesOK
  <2>1. ReplyOK(d)
    BY <1>0 DEF RepliesOK
  <2>2. /\ pc'[d] \in {"refund", "finish"} => result'[d] \in Told
        /\ reply'[d] # "none" => pc'[d] = "done"
        /\ reply'[d] = "unpaid" => d \notin charged' /\ rec'[d].outcome = "none"
    BY <1>r, <2>1 DEF ReplyOK
  <2>3. ASSUME reply'[d] = "empty"
        PROVE  /\ d \notin charged'
               /\ waits'[d] \in Calls /\ pc'[waits'[d]] = "done" /\ waits'[d] \notin charged'
    <3>1. /\ d \notin charged /\ waits[d] \in Calls /\ pc[waits[d]] = "done"
          /\ waits[d] \notin charged
      BY <1>r, <2>1, <2>3 DEF ReplyOK
    <3>2. waits'[d] = waits[d] /\ waits[d] # c
      BY <1>r, <3>1
    <3> QED BY <1>r, <3>1, <3>2
  <2>4. ASSUME reply'[d] = "ok"
        PROVE  \E e \in Calls : /\ e = d \/ (Keyed(d) /\ KeyOf[e] = KeyOf[d])
                                /\ pc'[e] = "done" /\ result'[e] = "ok"
    <3>1. PICK e \in Calls : /\ e = d \/ (Keyed(d) /\ KeyOf[e] = KeyOf[d])
                             /\ pc[e] = "done" /\ result[e] = "ok"
      BY <1>r, <2>1, <2>4 DEF ReplyOK
    <3>2. e # c /\ pc'[e] = "done" /\ result'[e] = "ok"
      BY <1>r, <3>1
    <3> QED BY <3>1, <3>2
  <2> QED BY <2>2, <2>3, <2>4 DEF ReplyOK, Keyed
\* No claim has expired.
<1>y. Claims = calls
  <2>1. \A k \in Keys : calls[k] # NoCall => ~RecordExpired(rec[calls[k]])
    BY <1>0, <1>x DEF ClaimsOK, Answers, RecordExpired, TypeOK, Record
  <2> QED BY <1>0, <2>1 DEF Claims, TypeOK
\* Steps of one execution that neither answer nor complete it.
<1>z. ASSUME NEW c \in Calls, Executing(c),
             UNCHANGED <<phase, dead, calls, rec, reply, waits, result>>,
             \A d \in Calls \ {c} : pc'[d] = pc[d],
             pc'[c] \in {"debit", "journal", "run", "finish"},
             pc'[c] = "finish" => result[c] \in Told,
             charged' \subseteq charged \cup {c},
             EntriesOK'
      PROVE  HeardInv'
  <2>1. Executing(c)'
    BY <1>x, <1>z DEF Executing
  <2>2. \A d \in Calls \ {c} : Executing(d)' <=> Executing(d)
    BY <1>z DEF Executing
  <2>3. ClaimsOK'
    BY <1>0, <1>x, <1>z, <2>1, <2>2 DEF ClaimsOK, Answers, TypeOK
  <2>4. RecordsOK'
    BY <1>0, <1>x, <1>z DEF RecordsOK
  <2>5. WaitsOK'
    BY <1>0, <1>z DEF WaitsOK, Keyed
  <2>6. ReplyOK(c)'
    BY <1>x, <1>z DEF ReplyOK
  <2>7. RepliesOK'
    BY <1>r, <1>x, <1>z, <2>6
  <2> QED BY <1>z, <2>3, <2>4, <2>5, <2>7 DEF HeardInv
<1>1. ASSUME NEW c \in Calls, ArriveUnkeyed(c) PROVE HeardInv'
  <2>1. /\ pc[c] = "new" /\ ~Keyed(c)
        /\ \A d \in Calls : pc'[d] = IF d = c THEN "admit" ELSE pc[d]
        /\ UNCHANGED <<phase, dead, calls, rec, reply, waits, result, charged, journal,
                       callsFile>>
    BY <1>0, <1>1 DEF ArriveUnkeyed, Goto, TypeOK
  <2>2. \A d \in Calls \ {c} : Executing(d)' <=> Executing(d)
    BY <2>1 DEF Executing
  <2>3. ClaimsOK'
    BY <1>0, <2>1, <2>2 DEF ClaimsOK, Answers, Executing, TypeOK
  <2>4. EntriesOK' /\ RecordsOK'
    BY <1>0, <2>1 DEF EntriesOK, RecordsOK
  <2>5. WaitsOK'
    BY <1>0, <2>1 DEF WaitsOK, Keyed
  <2>6. reply[c] = "none"
    BY <1>0, <2>1 DEF RepliesOK, ReplyOK
  <2>7. ReplyOK(c)'
    BY <2>1, <2>6 DEF ReplyOK
  <2>8. RepliesOK'
    BY <1>r, <2>1, <2>7
  <2> QED BY <2>3, <2>4, <2>5, <2>8 DEF HeardInv
\* Dropping expired entries loses no outcome but theirs.
<1>g. ASSUME NEW ok \in BOOLEAN, gc(ok), phase # "down", result' = result PROVE EntriesOK'
  <2>1. /\ journal' = callsFile'
        /\ \A k \in Keys : callsFile'[k] = IF EntryExpired(callsFile[k]) THEN NoEntry
                                           ELSE callsFile[k]
    BY <1>0, <1>g, GcEffect DEF Books, OpenInv
  <2> QED BY <1>0, <1>g, <2>1 DEF EntriesOK, EntryOK, NoEntry
<1>2. ASSUME NEW c \in Calls, NEW ok \in BOOLEAN, claimCall(c, ok) PROVE HeardInv'
  <2> DEFINE k == KeyOf[c]
  <2>1. /\ pc[c] = "new" /\ Keyed(c) /\ k \in Keys /\ c \notin dead /\ phase = "up"
        /\ UNCHANGED <<phase, dead, reply, result, charged>>
        /\ rec[c].outcome = "none" /\ ~rec[c].closed /\ reply[c] = "none"
    BY <1>0, <1>2 DEF claimCall, Keyed, ClaimInv, RecordsOK, RepliesOK, ReplyOK
  <2>2. EntriesOK'
    BY <1>2, <1>g, <2>1 DEF claimCall
  <2>3. CASE calls[k] = NoCall
    <3>1. /\ calls' = [calls EXCEPT ![k] = c]
          /\ rec' = [rec EXCEPT ![c] = NewRecord]
          /\ pc' = [pc EXCEPT ![c] = "admit"]
          /\ UNCHANGED waits
      BY <1>2, <1>y, <2>3 DEF claimCall, Goto
    <3>2. /\ \A d \in Calls \ {c} : pc'[d] = pc[d] /\ rec'[d] = rec[d]
          /\ pc'[c] = "admit" /\ rec'[c] = NewRecord
          /\ calls'[k] = c /\ \A j \in Keys \ {k} : calls'[j] = calls[j]
      BY <1>0, <2>1, <3>1 DEF TypeOK
    <3>3. Executing(c)' /\ \A d \in Calls \ {c} : Executing(d)' <=> Executing(d)
      BY <2>1, <3>2 DEF Executing
    <3>4. \A j \in Keys : calls[j] # c
      BY <1>0, <2>1 DEF ClaimsOK, Answers, Executing
    <3>5. ClaimsOK'
      BY <1>0, <2>1, <3>2, <3>3, <3>4 DEF ClaimsOK, Answers, TypeOK
    <3>6. RecordsOK'
      BY <1>0, <2>1, <3>2 DEF RecordsOK, NewRecord, Told
    <3>7. WaitsOK'
      <4> SUFFICES ASSUME NEW d \in Calls, pc'[d] = "wait", d \notin dead
                   PROVE  /\ KeyOf[waits[d]] = KeyOf[d] /\ Keyed(d)
                          /\ \/ calls'[KeyOf[d]] = waits[d]
                             \/ rec'[waits[d]].closed /\ rec'[waits[d]].outcome = "none"
        BY <2>1, <3>1 DEF WaitsOK, Keyed
      <4>1. pc[d] = "wait" /\ d # c
        BY <3>2
      <4>2. /\ KeyOf[waits[d]] = KeyOf[d] /\ Keyed(d) /\ waits[d] \in Calls
            /\ \/ calls[KeyOf[d]] = waits[d]
               \/ rec[waits[d]].closed /\ rec[waits[d]].outcome = "none"
        BY <1>0, <4>1 DEF WaitsOK, TypeOK
      <4>3. KeyOf[d] \in Keys
        BY <4>2 DEF Keyed
      <4>4. calls[KeyOf[d]] = waits[d] => KeyOf[d] # k
        BY <2>3, <4>2, <4>3
      <4> QED BY <2>1, <3>2, <4>2, <4>3, <4>4
    <3>8. ReplyOK(c)'
      BY <2>1, <3>2 DEF ReplyOK
    <3>9. RepliesOK'
      BY <1>r, <2>1, <3>1, <3>2, <3>8
    <3> QED BY <2>2, <3>5, <3>6, <3>7, <3>9 DEF HeardInv
  <2>4. CASE calls[k] # NoCall
    <3>1. /\ UNCHANGED <<calls, rec>>
          /\ pc' = [pc EXCEPT ![c] = "wait"]
          /\ waits' = [waits EXCEPT ![c] = calls[k]]
      BY <1>2, <1>y, <2>4 DEF claimCall, Goto
    <3>2. /\ \A d \in Calls \ {c} : pc'[d] = pc[d] /\ waits'[d] = waits[d]
          /\ pc'[c] = "wait" /\ waits'[c] = calls[k]
      BY <1>0, <3>1 DEF TypeOK
    <3>3. \A d \in Calls : Executing(d)' <=> Executing(d)
      BY <2>1, <3>2 DEF Executing
    <3>4. ClaimsOK'
      BY <1>0, <2>1, <3>1, <3>2, <3>3 DEF ClaimsOK, Answers, Executing, TypeOK
    <3>5. RecordsOK'
      BY <1>0, <2>1, <3>1, <3>2 DEF RecordsOK
    <3>6. WaitsOK'
      BY <1>0, <2>1, <2>4, <3>1, <3>2 DEF WaitsOK, ClaimsOK, Keyed
    <3>7. ReplyOK(c)'
      BY <2>1, <3>2 DEF ReplyOK
    <3>8. RepliesOK'
      BY <1>r, <2>1, <3>1, <3>2, <3>7
    <3> QED BY <2>2, <3>4, <3>5, <3>6, <3>8 DEF HeardInv
  <2> QED BY <2>3, <2>4
<1>3. ASSUME NEW c \in Calls, AnswerDuplicate(c) \/ CancelDuplicate(c) PROVE HeardInv'
  <2>1. /\ pc[c] = "wait" /\ c \notin dead
        /\ \A d \in Calls : pc'[d] = IF d = c THEN "done" ELSE pc[d]
        /\ \A d \in Calls \ {c} : reply'[d] = reply[d]
        /\ UNCHANGED <<phase, dead, calls, rec, waits, result, charged, journal, callsFile>>
    BY <1>0, <1>3 DEF AnswerDuplicate, CancelDuplicate, Return, Goto, TypeOK
  <2>2. \/ reply'[c] = "cancelled"
        \/ rec[waits[c]].closed
           /\ reply'[c] = IF rec[waits[c]].outcome = "none" THEN "empty"
                          ELSE rec[waits[c]].outcome
    BY <1>0, <1>3 DEF AnswerDuplicate, CancelDuplicate, Return, TypeOK
  <2>3. c \notin charged /\ rec[c].outcome = "none"
    BY <1>0, <2>1 DEF PriceInv, RecordsOK
  <2>4. \A d \in Calls : Executing(d)' <=> Executing(d)
    BY <2>1 DEF Executing
  <2>5. ClaimsOK'
    BY <1>0, <2>1, <2>4 DEF ClaimsOK, Answers, Executing, TypeOK
  <2>6. EntriesOK' /\ RecordsOK'
    BY <1>0, <2>1, <2>3 DEF EntriesOK, RecordsOK
  <2>7. WaitsOK'
    BY <1>0, <2>1 DEF WaitsOK, Keyed
  <2>8. waits[c] \in Calls /\ Keyed(c) /\ KeyOf[waits[c]] = KeyOf[c]
    BY <1>0, <2>1 DEF WaitsOK, TypeOK
  <2>9. rec[waits[c]].outcome \in Outcomes
    BY <1>0, <2>8 DEF TypeOK, Record
  <2>10. /\ reply'[c] # "unpaid"
         /\ reply'[c] = "empty" => pc[waits[c]] = "done" /\ waits[c] \notin charged
         /\ reply'[c] = "ok" => pc[waits[c]] = "done" /\ result[waits[c]] = "ok"
    BY <1>0, <2>2, <2>8, <2>9 DEF RecordsOK, Outcomes, Told
  <2>11. RepliesOK'
    <3>1. waits[c] # c => pc'[waits[c]] = pc[waits[c]]
      BY <2>1, <2>8
    <3>2. reply'[c] \in {"empty", "ok"} =>
              pc'[waits'[c]] = "done" /\ waits'[c] \in Calls
      BY <2>1, <2>8, <2>10, <3>1
    <3>3. reply'[c] = "ok" =>
              \E e \in Calls : /\ e = c \/ (Keyed(c) /\ KeyOf[e] = KeyOf[c])
                               /\ pc'[e] = "done" /\ result'[e] = "ok"
      BY <2>1, <2>8, <2>10, <3>2
    <3>4. ReplyOK(c)'
      BY <2>1, <2>3, <2>10, <3>2, <3>3 DEF ReplyOK, Keyed
    <3> QED BY <1>r, <2>1, <3>4
  <2> QED BY <2>5, <2>6, <2>7, <2>11 DEF HeardInv
\* A refusal before execution.
<1>4. ASSUME NEW c \in Calls, NEW r \in {"refused", "unpaid"}, Executing(c),
             pc[c] \in {"admit", "debit"}, refuse(c, r),
             UNCHANGED <<phase, dead, waits, result, charged, journal, callsFile>>
      PROVE  HeardInv'
  <2>1. /\ \A d \in Calls : pc'[d] = IF d = c THEN "done" ELSE pc[d]
        /\ \A d \in Calls \ {c} : reply'[d] = reply[d] /\ rec'[d] = rec[d]
        /\ reply'[c] = r
        /\ ~Keyed(c) => rec'[c] = rec[c] /\ calls' = calls
        /\ Keyed(c) => /\ rec'[c] = Abandoned /\ calls'[KeyOf[c]] = NoCall
                       /\ \A k \in Keys \ {KeyOf[c]} : calls'[k] = calls[k]
    BY <1>0, <1>4, <1>x DEF refuse, Return, Goto, releaseCall, TypeOK
  <2>2. c \notin charged
    BY <1>0, <1>4 DEF PriceInv
  <2>3. \A d \in Calls \ {c} : Executing(d)' <=> Executing(d)
    BY <1>4, <2>1 DEF Executing
  <2>4. \A k \in Keys : calls'[k] # NoCall => calls'[k] = calls[k] /\ calls[k] # c
    BY <1>0, <1>4, <1>x, <2>1 DEF ClaimsOK, Keyed
  <2>5. ClaimsOK'
    BY <1>0, <1>4, <1>x, <2>1, <2>3, <2>4 DEF ClaimsOK, Answers, TypeOK
  <2>6. EntriesOK'
    BY <1>0, <1>4 DEF EntriesOK
  <2>7. RecordsOK'
    BY <1>0, <1>4, <1>x, <2>1, <2>2 DEF RecordsOK, Abandoned, Told
  <2>8. WaitsOK'
    <3> SUFFICES ASSUME NEW d \in Calls, pc'[d] = "wait", d \notin dead
                 PROVE  /\ KeyOf[waits[d]] = KeyOf[d] /\ Keyed(d)
                        /\ \/ calls'[KeyOf[d]] = waits[d]
                           \/ rec'[waits[d]].closed /\ rec'[waits[d]].outcome = "none"
      BY <1>4, <1>x DEF WaitsOK, Keyed
    <3>1. pc[d] = "wait" /\ d # c
      BY <2>1
    <3>2. /\ KeyOf[waits[d]] = KeyOf[d] /\ Keyed(d) /\ waits[d] \in Calls /\ KeyOf[d] \in Keys
          /\ \/ calls[KeyOf[d]] = waits[d]
             \/ rec[waits[d]].closed /\ rec[waits[d]].outcome = "none"
      BY <1>0, <3>1 DEF WaitsOK, TypeOK, Keyed
    <3>3. CASE waits[d] = c
      <4>1. Keyed(c)
        BY <3>2, <3>3 DEF Keyed
      <4> QED BY <2>1, <3>2, <3>3, <4>1 DEF Abandoned
    <3>4. CASE waits[d] # c
      <4>1. CASE calls[KeyOf[d]] = waits[d]
        <5>1. Keyed(c) => KeyOf[d] # KeyOf[c]
          BY <1>4, <1>x, <3>4, <4>1
        <5> QED BY <2>1, <3>2, <4>1, <5>1
      <4> QED BY <2>1, <3>2, <3>4, <4>1
    <3> QED BY <3>2, <3>3, <3>4
  <2>9. RepliesOK'
    <3>1. /\ pc'[c] = "done" /\ reply'[c] \notin {"empty", "ok", "none"}
          /\ c \notin charged' /\ rec'[c].outcome = "none"
      BY <1>4, <1>x, <2>1, <2>2 DEF Abandoned
    <3>2. ReplyOK(c)'
      BY <3>1 DEF ReplyOK
    <3> QED BY <1>4, <1>r, <1>x, <2>1, <3>2
  <2> QED BY <2>5, <2>6, <2>7, <2>8, <2>9 DEF HeardInv
<1>5. ASSUME NEW c \in Calls, RefuseEarly(c) \/ RefuseUnpaid(c) PROVE HeardInv'
  BY <1>4, <1>5 DEF RefuseEarly, RefuseUnpaid
<1>7. ASSUME NEW c \in Calls, NEW atoms \in Prices, Price(c, atoms) PROVE HeardInv'
  <2>1. EntriesOK'
    BY <1>0, <1>7 DEF Price, EntriesOK
  <2> QED BY <1>0, <1>7, <1>z, <2>1 DEF Price, Goto, TypeOK
<1>9. ASSUME NEW c \in Calls, NEW ok \in BOOLEAN, charge(c, ok) PROVE HeardInv'
  <2>1. ok
    BY <1>0, <1>9, LedgerEffect DEF charge
  <2>2. EntriesOK'
    BY <1>0, <1>9 DEF charge, EntriesOK
  <2> QED BY <1>0, <1>9, <1>z, <2>1, <2>2 DEF charge, Goto, TypeOK
<1>10. ASSUME NEW c \in Calls, NEW ok \in BOOLEAN, journalCharged(c, ok) PROVE HeardInv'
  <2> DEFINE j == [journal EXCEPT ![KeyOf[c]] = Charge(c)]
  <2>1. persistJournal(j, ok) /\ Executing(c) /\ result' = result
    BY <1>10 DEF journalCharged
  <2>2. journal' = j /\ callsFile' = j
    <3> HIDE DEF j
    <3> QED BY <1>0, <2>1, PersistEffect
  <2>3. \A k \in Keys : j[k] \in {callsFile[k], Charge(c)}
    BY <1>0, <1>x, <2>1 DEF TypeOK
  <2>4. EntriesOK'
    <3> HIDE DEF j
    <3> QED BY <1>0, <2>1, <2>2, <2>3 DEF EntriesOK, EntryOK, Charge, Told
  <2> QED BY <1>0, <1>10, <1>z, <2>4 DEF journalCharged, Goto, TypeOK
<1>11. ASSUME NEW c \in Calls, NEW o \in {"ok", "err"}, Run(c, o) PROVE HeardInv'
  <2>1. /\ Executing(c)
        /\ \A d \in Calls \ {c} : pc'[d] = pc[d] /\ result'[d] = result[d]
        /\ pc'[c] \in {"refund", "finish"} /\ result'[c] \in Told
        /\ UNCHANGED <<phase, dead, calls, rec, waits, reply, charged, journal, callsFile>>
    BY <1>0, <1>11 DEF Run, Goto, TypeOK, Told
  <2>2. Executing(c)' /\ \A d \in Calls \ {c} : Executing(d)' <=> Executing(d)
    BY <1>x, <2>1 DEF Executing
  <2>3. ClaimsOK'
    BY <1>0, <1>x, <2>1, <2>2 DEF ClaimsOK, Answers, TypeOK
  <2>4. EntriesOK'
    BY <1>0, <1>x, <2>1 DEF EntriesOK, EntryOK, Told, Entry
  <2>5. RecordsOK'
    BY <1>0, <1>x, <2>1 DEF RecordsOK, Told
  <2>6. WaitsOK'
    BY <1>0, <2>1 DEF WaitsOK, Keyed
  <2>7. ReplyOK(c)'
    BY <1>x, <2>1 DEF ReplyOK
  <2>8. RepliesOK'
    BY <1>r, <1>x, <2>1, <2>7
  <2> QED BY <2>3, <2>4, <2>5, <2>6, <2>8 DEF HeardInv
<1>12. ASSUME NEW c \in Calls, NEW ok \in BOOLEAN, RefundFailure(c, ok) PROVE HeardInv'
  <2>1. result[c] \in Told
    BY <1>0, <1>12 DEF RefundFailure, RepliesOK, ReplyOK
  <2>2. EntriesOK'
    BY <1>0, <1>12 DEF RefundFailure, EntriesOK
  <2> QED BY <1>0, <1>12, <1>z, <2>1, <2>2 DEF RefundFailure, Goto, TypeOK
<1>13. ASSUME NEW c \in Calls, NEW kept \in BOOLEAN, NEW ok \in BOOLEAN,
              completeCall(c, kept, ok)
       PROVE  HeardInv'
  <2>1. /\ Executing(c) /\ pc[c] = "finish" /\ result[c] \in Told
        /\ \A d \in Calls : pc'[d] = IF d = c THEN "done" ELSE pc[d]
        /\ \A d \in Calls \ {c} : reply'[d] = reply[d] /\ rec'[d] = rec[d]
        /\ reply'[c] = result[c]
        /\ UNCHANGED <<phase, dead, calls, waits, result, charged>>
    BY <1>0, <1>13 DEF completeCall, Return, Goto, TypeOK, RepliesOK, ReplyOK
  <2>2. \A d \in Calls \ {c} : Executing(d)' <=> Executing(d)
    BY <2>1 DEF Executing
  <2>3. /\ Keyed(c) => rec'[c] = [closed |-> TRUE, outcome |-> result[c],
                                  expires |-> now + CallKeyTTL]
        /\ ~Keyed(c) => rec'[c] = rec[c] /\ journal' = journal /\ callsFile' = callsFile
    BY <1>0, <1>13 DEF completeCall, TypeOK
  <2>4. ClaimsOK'
    <3>1. \A k \in Keys : calls[k] = c => Keyed(c)
      BY <1>0 DEF ClaimsOK, Keyed
    <3>2. now <= now + CallKeyTTL /\ result[c] # "none"
      BY <1>0, <2>1 DEF Told
    <3>3. Keyed(c) => Answers(c)'
      BY <2>1, <2>3, <3>2 DEF Answers
    <3> QED BY <1>0, <1>x, <2>1, <2>2, <3>1, <3>3 DEF ClaimsOK, Answers, TypeOK
  <2>5. EntriesOK'
    <3>1. CASE ~Keyed(c)
      BY <1>0, <2>1, <2>3, <3>1 DEF EntriesOK
    <3>2. CASE Keyed(c)
      <4> DEFINE k == KeyOf[c]
                 o == result[c]
                 x == now + CallKeyTTL
      <4>1. /\ complete(k, o, kept, x, ok) /\ journal = callsFile /\ k \in Keys
        BY <1>13, <1>x, <2>1, <3>2 DEF completeCall
      <4>2. o \in Told
        BY <2>1
      <4>3. calls'[k] = c /\ phase' = "up"
        BY <1>x, <2>1, <3>2
      <4> HIDE DEF k, o, x
      <4>4. /\ journal' = callsFile'
            /\ \A i \in Keys \ {k} : callsFile'[i] = callsFile[i]
            /\ callsFile[k] = NoEntry => callsFile'[k] = NoEntry
            /\ callsFile[k] # NoEntry => /\ callsFile'[k].done
                                         /\ callsFile'[k].outcome \in {o, "notRetained"}
        BY <1>0, <4>1, CompleteEffect
      <4>5. callsFile[k] # NoEntry /\ callsFile'[k].owner # NoCall => callsFile'[k].owner = c
        BY <1>0, <4>1, <4>3, <4>4 DEF FileInv
      <4>6. EntryOK(callsFile'[k], result')
        <5>1. CASE callsFile[k] = NoEntry
          BY <1>0, <2>1, <4>1, <4>4, <5>1 DEF EntriesOK
        <5>2. CASE callsFile[k] # NoEntry
          <6>1. result'[c] = o
            BY <2>1 DEF o
          <6> QED BY <4>2, <4>4, <4>5, <5>2, <6>1 DEF EntryOK, Told
        <5> QED BY <5>1, <5>2
      <4> QED BY <1>0, <2>1, <4>1, <4>4, <4>6 DEF EntriesOK
    <3> QED BY <3>1, <3>2
  <2>6. RecordsOK'
    BY <1>0, <1>x, <2>1, <2>3 DEF RecordsOK, Told
  <2>7. WaitsOK'
    <3> SUFFICES ASSUME NEW d \in Calls, pc'[d] = "wait", d \notin dead
                 PROVE  /\ KeyOf[waits[d]] = KeyOf[d] /\ Keyed(d)
                        /\ \/ calls[KeyOf[d]] = waits[d]
                           \/ rec'[waits[d]].closed /\ rec'[waits[d]].outcome = "none"
      BY <1>x, <2>1 DEF WaitsOK, Keyed
    <3>1. pc[d] = "wait" /\ d # c
      BY <2>1
    <3>2. /\ KeyOf[waits[d]] = KeyOf[d] /\ Keyed(d) /\ waits[d] \in Calls /\ KeyOf[d] \in Keys
          /\ \/ calls[KeyOf[d]] = waits[d]
             \/ rec[waits[d]].closed /\ rec[waits[d]].outcome = "none"
      BY <1>0, <3>1 DEF WaitsOK, TypeOK, Keyed
    <3> QED BY <1>x, <2>1, <3>2
  <2>8. RepliesOK'
    <3>1. /\ pc'[c] = "done" /\ reply'[c] = result'[c] /\ reply'[c] \in Told
      BY <2>1
    <3>2. ReplyOK(c)'
      BY <3>1 DEF ReplyOK, Told
    <3>3. \A d \in Calls \ {c} : rec'[d].outcome = rec[d].outcome
      BY <2>1
    <3> QED BY <1>r, <2>1, <3>2, <3>3
  <2> QED BY <2>4, <2>5, <2>6, <2>7, <2>8 DEF HeardInv
\* Steps that touch neither calls nor entries.
<1>u. ASSUME UNCHANGED <<phase, dead, pc, calls, rec, reply, waits, result, charged>>, EntriesOK'
      PROVE  HeardInv'
  BY <1>0, <1>u
     DEF HeardInv, ClaimsOK, Answers, Executing, RecordsOK, WaitsOK, RepliesOK, ReplyOK, Keyed
<1>14. ASSUME NEW p \in Peers, NEW atoms \in Tips, NEW ok \in BOOLEAN, TopUp(p, atoms, ok)
       PROVE  HeardInv'
  <2>1. EntriesOK'
    BY <1>0, <1>14 DEF TopUp, EntriesOK
  <2> QED BY <1>14, <1>u, <2>1 DEF TopUp
<1>15. CASE Tick
  BY <1>0, <1>15 DEF Tick
<1>16. CASE Crash
  <2>1. /\ phase' = "down" /\ \A k \in Keys : calls'[k] = NoCall
        /\ \A c \in Calls : pc[c] = "wait" => c \in dead'
        /\ dead \subseteq dead'
        /\ UNCHANGED <<pc, rec, reply, waits, result, charged, journal, callsFile>>
    BY <1>16 DEF Crash
  <2> QED BY <1>0, <2>1
          DEF HeardInv, ClaimsOK, EntriesOK, RecordsOK, WaitsOK, RepliesOK, ReplyOK, Keyed
\* While the harness does not serve nothing is claimed and nobody waits.
<1>v. ASSUME phase # "up", phase' # "up",
             UNCHANGED <<dead, pc, calls, rec, reply, waits, result, charged>>, EntriesOK'
      PROVE  HeardInv'
  BY <1>0, <1>v DEF HeardInv, ClaimsOK, RecordsOK, WaitsOK, RepliesOK, ReplyOK, Keyed
<1>17. CASE Restart
  <2>1. EntriesOK'
    BY <1>0, <1>17 DEF Restart, EntriesOK
  <2> QED BY <1>17, <1>v, <2>1 DEF Restart
<1>18. ASSUME NEW k \in Keys, NEW ok \in BOOLEAN, RefundInterrupted(k, ok) PROVE HeardInv'
  <2>1. EntriesOK'
    BY <1>0, <1>18 DEF RefundInterrupted, EntriesOK
  <2> QED BY <1>18, <1>u, <2>1 DEF RefundInterrupted
<1>19. ASSUME NEW ok \in BOOLEAN, RemoveInterrupted(ok) PROVE HeardInv'
  <2> DEFINE j == [journal EXCEPT ![credited] = NoEntry]
  <2>1. persistJournal(j, ok) /\ result' = result /\ journal = callsFile
    BY <1>0, <1>19 DEF RemoveInterrupted, Books, OpenInv
  <2>2. journal' = j /\ callsFile' = j
    <3> HIDE DEF j
    <3> QED BY <1>0, <2>1, PersistEffect
  <2>3. \A k \in Keys : j[k] \in {callsFile[k], NoEntry}
    BY <1>0, <2>1 DEF TypeOK
  <2>4. EntriesOK'
    <3> HIDE DEF j
    <3> QED BY <1>0, <2>1, <2>2, <2>3 DEF EntriesOK, EntryOK, NoEntry
  <2> QED BY <1>19, <1>u, <2>4 DEF RemoveInterrupted
<1>20. ASSUME NEW ok \in BOOLEAN, Serve(ok) PROVE HeardInv'
  <2>1. /\ phase = "recovering" /\ phase' = "up" /\ gc(ok) /\ journal = callsFile
        /\ UNCHANGED <<dead, pc, reply, waits, result, charged>>
    BY <1>0, <1>20 DEF Serve, Books, OpenInv
  <2>2. EntriesOK'
    BY <1>g, <2>1
  <2>3. \A k \in Keys :
            calls'[k] = IF callsFile[k].done /\ ~EntryExpired(callsFile[k])
                        THEN callsFile[k].owner ELSE NoCall
    BY <1>20, <2>1 DEF Serve
  <2>4. ASSUME NEW c \in Calls, rec'[c] # rec[c] \/ (Keyed(c) /\ calls'[KeyOf[c]] = c)
        PROVE  /\ KeyOf[c] \in Keys /\ callsFile[KeyOf[c]].done
               /\ callsFile[KeyOf[c]].owner = c /\ c # NoCall
               /\ rec'[c] = [closed  |-> TRUE,
                             outcome |-> callsFile[KeyOf[c]].outcome,
                             expires |-> callsFile[KeyOf[c]].expires]
    BY <1>0, <1>20, <2>1, <2>3, <2>4 DEF Serve, Keyed
  <2>5. \A k \in Keys : callsFile[k].owner # NoCall => KeyOf[callsFile[k].owner] = k
                                                       /\ callsFile[k].owner \in Calls
    BY <1>0 DEF Books, OpenInv, EntryOf, Entry
  <2>6. \A k \in Keys : callsFile[k].owner # NoCall /\ callsFile[k].done =>
                            pc[callsFile[k].owner] = "done" /\ callsFile[k].owner \in charged
    BY <1>0 DEF FileInv
  <2>7. ClaimsOK'
    <3> SUFFICES ASSUME NEW k \in Keys, calls'[k] # NoCall
                 PROVE  /\ KeyOf[calls'[k]] = k /\ pc'[calls'[k]] = "done"
                        /\ rec'[calls'[k]].outcome # "none"
                        /\ now' <= rec'[calls'[k]].expires
      BY <2>1 DEF ClaimsOK, Answers
    <3> DEFINE e == callsFile[k].owner
    <3>1. calls'[k] = e /\ callsFile[k].done /\ ~EntryExpired(callsFile[k])
      BY <2>3
    <3>2. e \in Calls /\ KeyOf[e] = k /\ pc[e] = "done" /\ Keyed(e)
      BY <2>5, <2>6, <3>1 DEF Keyed
    <3>3. /\ rec'[e].outcome = callsFile[k].outcome
          /\ rec'[e].expires = callsFile[k].expires
      <4>1. Keyed(e) /\ calls'[KeyOf[e]] = e /\ callsFile[KeyOf[e]] = callsFile[k]
        BY <3>1, <3>2
      <4>2. e \in Calls
        BY <3>2
      <4> HIDE DEF e
      <4>3. rec'[e] = [closed  |-> TRUE,
                       outcome |-> callsFile[KeyOf[e]].outcome,
                       expires |-> callsFile[KeyOf[e]].expires]
        BY <2>4, <4>1, <4>2
      <4> QED BY <4>1, <4>3
    <3>4. rec'[e].outcome # "none" /\ now <= rec'[e].expires
      BY <1>0, <3>1, <3>3 DEF EntriesOK, EntryOK, EntryExpired, Entry
    <3> QED BY <2>1, <3>1, <3>2, <3>4
  <2>8. RecordsOK'
    <3> SUFFICES ASSUME NEW c \in Calls
                 PROVE  /\ rec'[c].outcome # "none" => rec'[c].closed
                        /\ rec'[c].closed => pc[c] = "done"
                        /\ rec'[c].closed /\ rec'[c].outcome = "none" => c \notin charged
                        /\ rec'[c].outcome \in Told => result[c] = rec'[c].outcome
      BY <2>1 DEF RecordsOK
    <3>1. CASE rec'[c] = rec[c]
      BY <1>0, <3>1 DEF RecordsOK
    <3>2. CASE rec'[c] # rec[c]
      <4> DEFINE e == callsFile[KeyOf[c]]
      <4>0. /\ KeyOf[c] \in Keys /\ e.done /\ e.owner = c /\ c # NoCall
            /\ rec'[c] = [closed |-> TRUE, outcome |-> e.outcome, expires |-> e.expires]
        BY <2>4, <3>2
      <4>1. /\ KeyOf[c] \in Keys /\ e.done /\ e.owner = c /\ c # NoCall
            /\ rec'[c].closed /\ rec'[c].outcome = e.outcome
        BY <4>0
      <4>2. pc[c] = "done" /\ c \in charged
        BY <2>6, <4>1
      <4>3. e.outcome # "none" /\ (e.outcome \in Told => result[c] = e.outcome)
        BY <1>0, <4>1 DEF EntriesOK, EntryOK
      <4> QED BY <4>1, <4>2, <4>3
    <3> QED BY <3>1, <3>2
  <2>9. WaitsOK'
    BY <1>0, <2>1 DEF WaitsOK
  <2>10. ASSUME NEW c \in Calls, c \notin charged PROVE rec'[c] = rec[c]
    <3>1. c # NoCall
      OBVIOUS
    <3> SUFFICES ASSUME rec'[c] # rec[c] PROVE FALSE
      OBVIOUS
    <3>2. /\ KeyOf[c] \in Keys /\ callsFile[KeyOf[c]].done
          /\ callsFile[KeyOf[c]].owner = c
      BY <2>4
    <3> QED BY <2>6, <2>10, <3>1, <3>2
  <2>11. RepliesOK'
    BY <1>0, <2>1, <2>10 DEF RepliesOK, ReplyOK, Keyed
  <2> QED BY <2>2, <2>7, <2>8, <2>9, <2>11 DEF HeardInv
<1>21. CASE UNCHANGED vars
  <2>1. EntriesOK'
    BY <1>0, <1>21 DEF vars, EntriesOK
  <2> QED BY <1>21, <1>u, <2>1 DEF vars
<1> QED
  BY <1>1, <1>2, <1>3, <1>5, <1>7, <1>9, <1>10, <1>11, <1>12, <1>13, <1>14, <1>15,
     <1>16, <1>17, <1>18, <1>19, <1>20, <1>21
     DEF Next, HandlerStep, RecoveryStep
\* What a step does to the other deliveries: nothing.
Others(c) ==
    \A d \in Calls \ {c} :
        /\ pc'[d] = pc[d] /\ reply'[d] = reply[d] /\ waits'[d] = waits[d]
        /\ result'[d] = result[d] /\ rec'[d] = rec[d]
        /\ d \in charged' => d \in charged

\* A delivery is taken up: it claims its key, or waits for the claim there is.
Taken(c) ==
    /\ pc[c] = "new" /\ c \notin dead /\ phase = "up" /\ Keyed(c)
    /\ UNCHANGED <<phase, dead, charged>>
    /\ reply'[c] = reply[c] /\ result'[c] = result[c]
    /\ \/ /\ calls[KeyOf[c]] = NoCall /\ pc'[c] = "admit"
          /\ calls' = [calls EXCEPT ![KeyOf[c]] = c]
       \/ /\ calls[KeyOf[c]] # NoCall /\ pc'[c] = "wait"
          /\ waits'[c] = calls[KeyOf[c]] /\ calls' = calls
    /\ Others(c)

\* An execution goes on, is refused and gives up its claim, or is completed
\* and its record answers for its key.
Worked(c) ==
    /\ Executing(c) /\ pc'[c] \notin {"new", "wait"}
    /\ UNCHANGED <<phase, dead, waits>>
    /\ \/ /\ reply'[c] \in {"none", "refused", "unpaid"}
          /\ \A k \in Keys : calls'[k] = calls[k] \/ (calls[k] = c /\ calls'[k] = NoCall)
          /\ \/ pc'[c] # "done"
             \/ c \notin charged'
       \/ /\ reply'[c] \in Told /\ reply'[c] = result[c] /\ calls' = calls
          /\ pc'[c] = "done"
          /\ Keyed(c) => rec'[c].outcome = result[c]
    /\ Others(c)

\* A duplicate is answered, or gives up.
Answered(c) ==
    /\ pc[c] = "wait" /\ c \notin dead /\ pc'[c] = "done"
    /\ UNCHANGED <<phase, dead, calls, rec, waits, result, charged>>
    /\ \/ reply'[c] = "cancelled"
       \/ /\ rec[waits[c]].closed
          /\ reply'[c] = IF rec[waits[c]].outcome = "none" THEN "empty"
                         ELSE rec[waits[c]].outcome
    /\ Others(c)

\* No delivery takes a step; claims change during a start only.
Rested ==
    /\ UNCHANGED <<pc, reply, waits, result, charged, dead>>
    /\ UNCHANGED <<phase, calls, rec>> \/ phase # "up"

\* The process dies.
Crashed ==
    /\ UNCHANGED <<pc, reply, waits, result, charged, rec>> /\ dead \subseteq dead'
    /\ phase' = "down"

\* No claim has expired.
LEMMA NoneExpired ==
    ASSUME TypeOK, ClaimInv, ClaimsOK PROVE Claims = calls
<1>1. ASSUME NEW k \in Keys, calls[k] # NoCall PROVE ~RecordExpired(rec[calls[k]])
  <2>1. calls[k] \in Calls /\ KeyOf[calls[k]] = k /\ Keyed(calls[k])
    BY <1>1, HarnessAssumption DEF ClaimsOK, TypeOK, Keyed
  <2>2. CASE Executing(calls[k])
    BY <2>1, <2>2 DEF ClaimInv, RecordExpired
  <2>3. CASE Answers(calls[k])
    BY <2>1, <2>3 DEF Answers, RecordExpired, TypeOK, Record
  <2> QED BY <1>1, <2>2, <2>3 DEF ClaimsOK
<1> QED BY <1>1 DEF Claims, TypeOK

\* What the steps of the harness do to one delivery and to the claims.
LEMMA Takes ==
    ASSUME TypeOK, ClaimInv, ClaimsOK, NEW c \in Calls, NEW ok \in BOOLEAN, claimCall(c, ok)
    PROVE  Taken(c)
<1> USE HarnessAssumption DEF procVars, openVars, histVars
<1>1. /\ pc[c] = "new" /\ Keyed(c) /\ phase = "up" /\ c \notin dead /\ KeyOf[c] \in Keys
      /\ UNCHANGED <<phase, dead, charged, reply, result>>
  BY DEF claimCall, Keyed, ClaimInv
<1>2. CASE calls[KeyOf[c]] = NoCall
  <2>1. /\ calls' = [calls EXCEPT ![KeyOf[c]] = c] /\ rec' = [rec EXCEPT ![c] = NewRecord]
        /\ pc' = [pc EXCEPT ![c] = "admit"] /\ UNCHANGED waits
    BY <1>2, NoneExpired DEF claimCall, Goto
  <2> QED BY <1>1, <1>2, <2>1 DEF Taken, Others, TypeOK
<1>3. CASE calls[KeyOf[c]] # NoCall
  <2>1. /\ calls' = calls /\ UNCHANGED rec
        /\ pc' = [pc EXCEPT ![c] = "wait"]
        /\ waits' = [waits EXCEPT ![c] = calls[KeyOf[c]]]
    BY <1>3, NoneExpired DEF claimCall, Goto
  <2> QED BY <1>1, <1>3, <2>1 DEF Taken, Others, TypeOK
<1> QED BY <1>2, <1>3

\* A handler step works on an execution or answers a duplicate.
LEMMA Works ==
    ASSUME RInv, HeardInv, Sound, Sound', NEW c \in Calls, HandlerStep(c)
    PROVE  Worked(c) \/ Answered(c)
<1> USE HarnessAssumption DEF procVars, callVars, openVars, histVars, claimVars
<1>0. /\ TypeOK /\ ClaimInv /\ PriceInv /\ RepliesOK /\ diskFaults' = 0
  BY DEF RInv, IInv, HeardInv, Sound
<1>x. ASSUME Executing(c) PROVE /\ reply[c] = "none" /\ c \notin dead
                                /\ Keyed(c) => calls[KeyOf[c]] = c
                                /\ pc[c] \notin {"new", "wait", "done"}
  BY <1>0, <1>x DEF RepliesOK, ReplyOK, Executing, ClaimInv
<1>1. CASE AnswerDuplicate(c)
  BY <1>0, <1>1 DEF AnswerDuplicate, Return, Goto, Answered, Others, TypeOK
<1>2. ASSUME NEW r \in {"refused", "unpaid"}, refuse(c, r), Executing(c),
             pc[c] \in {"admit", "debit"}, UNCHANGED <<phase, dead, waits, result, charged>>
      PROVE  Worked(c)
  <2>1. c \notin charged
    BY <1>0, <1>2 DEF PriceInv
  <2>2. CASE Keyed(c)
    <3>1. /\ calls' = [calls EXCEPT ![KeyOf[c]] = NoCall]
          /\ rec' = [rec EXCEPT ![c] = Abandoned]
          /\ pc' = [pc EXCEPT ![c] = "done"] /\ reply' = [reply EXCEPT ![c] = r]
      BY <1>2, <2>2 DEF refuse, Return, Goto, releaseCall
    <3> QED BY <1>0, <1>2, <1>x, <2>1, <2>2, <3>1 DEF Worked, Others, TypeOK
  <2>3. CASE ~Keyed(c)
    <3>1. /\ calls' = calls /\ rec' = rec
          /\ pc' = [pc EXCEPT ![c] = "done"] /\ reply' = [reply EXCEPT ![c] = r]
      BY <1>2, <2>3 DEF refuse, Return, Goto, releaseCall
    <3> QED BY <1>0, <1>2, <1>x, <2>1, <3>1 DEF Worked, Others, TypeOK
  <2> QED BY <2>2, <2>3
<1>3. CASE RefuseEarly(c) \/ RefuseUnpaid(c)
  BY <1>2, <1>3 DEF RefuseEarly, RefuseUnpaid
<1>4. ASSUME NEW a \in Prices, Price(c, a) PROVE Worked(c)
  BY <1>0, <1>4, <1>x DEF Price, Goto, Worked, Others, TypeOK
<1>5. ASSUME NEW ok \in BOOLEAN, charge(c, ok) PROVE Worked(c)
  <2>1. Debit(CallerOf[c], price[c], ok)
    BY <1>5 DEF charge
  <2>2. ok
    BY <1>0, <2>1, LedgerEffect
  <2> QED BY <1>0, <1>5, <1>x, <2>2 DEF charge, Goto, Worked, Others, TypeOK
<1>6. ASSUME NEW ok \in BOOLEAN, journalCharged(c, ok) PROVE Worked(c)
  BY <1>0, <1>6, <1>x DEF journalCharged, Goto, Worked, Others, TypeOK
<1>7. ASSUME NEW o \in {"ok", "err"}, Run(c, o) PROVE Worked(c)
  BY <1>0, <1>7, <1>x DEF Run, Goto, Worked, Others, TypeOK
<1>8. ASSUME NEW ok \in BOOLEAN, RefundFailure(c, ok) PROVE Worked(c)
  BY <1>0, <1>8, <1>x DEF RefundFailure, Goto, Worked, Others, TypeOK
<1>9. ASSUME NEW kept \in BOOLEAN, NEW ok \in BOOLEAN, completeCall(c, kept, ok)
      PROVE  Worked(c)
  <2>1. /\ Executing(c) /\ result[c] \in Told
        /\ pc' = [pc EXCEPT ![c] = "done"] /\ reply' = [reply EXCEPT ![c] = result[c]]
        /\ UNCHANGED <<phase, dead, waits, result, charged, calls>>
    BY <1>0, <1>9 DEF completeCall, Return, Goto, RepliesOK, ReplyOK
  <2>2. /\ \A d \in Calls \ {c} : rec'[d] = rec[d]
        /\ Keyed(c) => rec'[c].outcome = result[c]
    BY <1>0, <1>9 DEF completeCall, TypeOK
  <2> QED BY <1>0, <1>x, <2>1, <2>2 DEF Worked, Others, TypeOK
<1> QED BY <1>1, <1>3, <1>4, <1>5, <1>6, <1>7, <1>8, <1>9 DEF HandlerStep

\* Tips and restarts move no delivery.
LEMMA Rests ==
    ASSUME TypeOK,
           \/ \E p \in Peers, a \in Tips, ok \in BOOLEAN : TopUp(p, a, ok)
           \/ RecoveryStep \/ UNCHANGED vars
    PROVE  Rested
BY DEF TopUp, RecoveryStep, Restart, RefundInterrupted, RemoveInterrupted, Serve,
       Rested, vars, procVars, callVars, claimVars, openVars, histVars
(***************************************************************************)
(* Which deliveries were sent, and on which sessions.                      *)
(***************************************************************************)
\* Attempts are sent in their order, the present one when it has a session.
Unsent == {"idle", "find", "mirror", "findAgain", "mirrorAgain", "dial"}

Sent(r, i) == i <= attempt[r] \/ (i = attempt[r] + 1 /\ rpc[r] \notin Unsent)

Posted(d) == \E r \in Relays, i \in 1..(MaxPolls + 1) : d = Attempts[r][i] /\ Sent(r, i)

\* Sessions are dialed in order; what was sent belongs to an attempt; and a
\* delivery taken up on a session the bot still has lives in this process.
SentInv ==
    /\ served \subseteq 1..dialed
    /\ \A l \in Links : link[l] \in {NoSession} \cup 1..dialed
    /\ \A d \in Calls :
          /\ sentOn[d] \in {NoSession} \cup 1..dialed
          /\ pc[d] # "new" \/ sentOn[d] # NoSession => Posted(d)
          /\ pc[d] # "new" /\ sentOn[d] \in served => phase = "up" /\ d \notin dead

\* What happens outside of a call's own steps leaves what was sent alone.
Calm == /\ UNCHANGED <<rpc, attempt, out, dialed, sentOn>>
        /\ served' \subseteq served
        /\ \A l \in Links : link'[l] \in {link[l], NoSession}

\* A step of the composition is one of a call at the bridge, one of a delivery
\* that was sent, or neither.
LEMMA Turns ==
    ASSUME RInv, HeardInv, LinkInv, Sound, Sound', [RelayNext]_<<vars, relayVars>>
    PROVE  \/ \E r \in Relays : RelayStep(r)
           \/ UNCHANGED vars /\ Calm
           \/ \E c \in Calls : Taken(c) /\ sentOn[c] \in served /\ UNCHANGED relayVars
           \/ \E c \in Calls : (Worked(c) \/ Answered(c)) /\ UNCHANGED relayVars
           \/ Rested /\ Calm
           \/ Crashed /\ Calm /\ served' = {}
<1> USE DEF relayVars, linkVars, ruleVars, callState, wireVars
<1>0. TypeOK /\ ClaimInv /\ ClaimsOK
  BY DEF RInv, IInv, HeardInv
<1>1. ASSUME NEW r \in Relays, Disconnect(r) PROVE UNCHANGED vars /\ Calm
  BY <1>1 DEF Disconnect, Calm
<1>2. ASSUME \/ \E allow \in BOOLEAN : ApplySettings(allow)
             \/ Close \/ CloseRouter
      PROVE  UNCHANGED vars /\ Calm
  BY <1>2 DEF ApplySettings, Close, CloseRouter, Calm
<1>3. ASSUME NEW s \in Sessions, Break(s) \/ BotSweeps(s) PROVE UNCHANGED vars /\ Calm
  BY <1>3 DEF Break, BotSweeps, Calm
<1>4. ASSUME NEW d \in Calls, Arrive(d)
      PROVE  Taken(d) /\ sentOn[d] \in served /\ UNCHANGED relayVars
  BY <1>0, <1>4, Takes DEF Arrive
<1>5. ASSUME NEW d \in Calls, BotStep(d)
      PROVE  (Worked(d) \/ Answered(d)) /\ UNCHANGED relayVars
  BY <1>5, Works DEF BotStep
<1>6. ASSUME NEW d \in Calls, BotCancels(d) PROVE Answered(d) /\ UNCHANGED relayVars
  BY <1>0, <1>6
     DEF BotCancels, CancelDuplicate, Return, Goto, Answered, Others, TypeOK, claimVars,
         histVars, procVars
<1>7. ASSUME NEW ok \in BOOLEAN, TipLands(ok) PROVE Rested /\ Calm
  <2>1. Bridge \in Peers /\ Tip \in Tips
    BY RelayAssumption
  <2>2. Rested
    BY <1>0, <1>7, <2>1, Rests DEF TipLands
  <2> QED BY <1>7, <2>2 DEF TipLands, Calm
<1>8. CASE BotCrash
  BY <1>8 DEF BotCrash, Crash, Crashed, Calm, callVars, histVars
<1>9. CASE BotRecovers
  BY <1>0, <1>9, Rests DEF BotRecovers, Calm
<1>10. CASE UNCHANGED <<vars, relayVars>>
  BY <1>10 DEF Calm
<1>11. ASSUME NEW l \in Links, DropLink(l) \/ CloseLink(l) \/ NeighbourFails(l)
       PROVE  UNCHANGED vars /\ Calm
  <2>1. reset(l) /\ UNCHANGED <<vars, rpc, attempt, out, dialed, sentOn, served>>
    BY <1>11 DEF DropLink, CloseLink, NeighbourFails
  <2>2. \A k \in Links : link'[k] \in {link[k], NoSession}
    BY <2>1 DEF reset, LinkInv, RelayTypeOK
  <2> QED BY <2>1, <2>2 DEF Calm
<1> QED
  BY <1>1, <1>2, <1>3, <1>4, <1>5, <1>6, <1>7, <1>8, <1>9, <1>10, <1>11 DEF RelayNext

\* Attempts are deliveries with the key of their call; no other call has it.
LEMMA AttemptIs ==
    ASSUME NEW r \in Relays, NEW i \in 1..(MaxPolls + 1)
    PROVE  /\ Attempts[r][i] \in Calls /\ Keyed(Attempts[r][i])
           /\ KeyOf[Attempts[r][i]] \in Keys
<1>1. Attempts[r] \in Seq(Calls) /\ i \in 1..Len(Attempts[r]) /\ Keyed(Attempts[r][i])
  BY RelayAssumption
<1>2. Attempts[r][i] \in Calls
  BY <1>1
<1> QED BY <1>1, <1>2, HarnessAssumption DEF Keyed

\* A delivery that was sent with the key of a call is one of its attempts.
LEMMA AttemptOfKey ==
    ASSUME NEW r \in Relays, NEW i \in 1..(MaxPolls + 1),
           NEW d \in Calls, Posted(d), KeyOf[d] = KeyOf[Attempts[r][i]]
    PROVE  \E j \in 1..(MaxPolls + 1) : d = Attempts[r][j] /\ Sent(r, j)
<1>1. PICK q \in Relays, j \in 1..(MaxPolls + 1) : d = Attempts[q][j] /\ Sent(q, j)
  BY DEF Posted
<1>2. q = r
  BY <1>1, RelayAssumption
<1> QED BY <1>1, <1>2

\* It is sent as the attempt it is, no delivery being two attempts.
LEMMA PostedSent ==
    ASSUME NEW r \in Relays, NEW i \in 1..(MaxPolls + 1), Posted(Attempts[r][i])
    PROVE  Sent(r, i)
<1>1. PICK j \in 1..(MaxPolls + 1) : Attempts[r][i] = Attempts[r][j] /\ Sent(r, j)
  BY AttemptIs, AttemptOfKey
<1>2. i = j
  BY <1>1, RelayAssumption
<1> QED BY <1>1, <1>2

\* The present attempt is within the polls, so it is a delivery.
LEMMA PresentAttempt ==
    ASSUME RelayTypeOK, NEW r \in Relays
    PROVE  /\ attempt[r] + 1 \in 1..(MaxPolls + 1)
           /\ Delivery(r) = Attempts[r][attempt[r] + 1]
           /\ Delivery(r) \in Calls /\ Keyed(Delivery(r)) /\ KeyOf[Delivery(r)] \in Keys
<1>1. attempt[r] + 1 \in 1..(MaxPolls + 1)
  BY LinkBounds DEF RelayTypeOK
<1> QED BY <1>1, AttemptIs DEF Delivery
\* dialLocked hands out the link's session or the next one.
LEMMA Dialing ==
    ASSUME LinkInv, SentInv, NEW l \in Links, NEW s, dialLocked(l, s)
    PROVE  /\ dialed \in Nat /\ dialed' \in Nat /\ dialed' >= dialed
           /\ served' \subseteq 1..dialed'
           /\ \A k \in Links : link'[k] \in {NoSession} \cup 1..dialed'
           /\ s \in {NoSession} \cup 1..dialed'
           /\ \A n \in {NoSession} \cup 1..dialed : n \in served' => n \in served
<1>1. /\ dialed \in Nat /\ MaxSessions \in Nat /\ NoSession \notin 1..MaxSessions
      /\ dialed <= MaxSessions /\ RelayTypeOK
  BY LinkBounds DEF LinkInv, RelayTypeOK
<1>2. CASE UNCHANGED <<link, open, dialed, served>> /\ s \in {link[l], NoSession}
  BY <1>1, <1>2 DEF SentInv
<1>3. CASE Dialed(l, s)
  <2>0. dialed < MaxSessions /\ s = dialed + 1 /\ dialed' = s /\ served' = served \cup {s}
    BY <1>3 DEF Dialed
  <2>1. s \in 1..MaxSessions /\ s \notin 1..dialed
    BY <1>1, <2>0
  <2>2. served' \subseteq 1..dialed' /\ s \in 1..dialed'
    BY <1>1, <2>0 DEF SentInv
  <2>3. NoSession # s
    BY <1>1, <2>1
  <2>4. \A k \in Links : link'[k] \in {link[k], s}
    BY <1>1, <1>3 DEF Dialed, RelayTypeOK
  <2>5. \A k \in Links : link'[k] \in {NoSession} \cup 1..dialed'
    BY <1>1, <2>0, <2>2, <2>4 DEF SentInv
  <2> QED BY <1>1, <2>0, <2>1, <2>2, <2>3, <2>5
<1> QED BY <1>1, <1>2, <1>3, DialCases

\* A step of a call gives a session to its present attempt at most.
Renews(r) ==
    \A d \in Calls : sentOn'[d] \in served' =>
        sentOn[d] \in served \/ (d = Delivery(r) /\ pc[d] = "new" /\ rpc[r] = "dial")

\* So what was sent stays sent, and no call disturbs another one's attempts.
LEMMA SentByCall ==
    ASSUME LinkInv, SentInv, TypeOK, NEW r \in Relays, RelayStep(r)
    PROVE  SentInv' /\ Renews(r)
<1> USE DEF linkVars, ruleVars, callState, wireVars
<1>0. /\ UNCHANGED <<pc, phase, dead>>
      /\ RelayTypeOK /\ dialed \in Nat
      /\ \A d \in Calls : sentOn[d] \in {NoSession} \cup 1..dialed
      /\ served \subseteq 1..dialed
      /\ \A l \in Links : link[l] \in {NoSession} \cup 1..dialed
      /\ Holds(r) => held[r] \in Links
  BY DEF RelayStep, vars, procVars, callVars, LinkInv, RelayTypeOK, SentInv
\* What was sent stays sent.
<1>1. ASSUME NEW l, rpc' = [rpc EXCEPT ![r] = l],
             \/ attempt' = attempt /\ (l \in Unsent => rpc[r] \in Unsent)
             \/ attempt' = [attempt EXCEPT ![r] = @ + 1]
      PROVE  \A d \in Calls : Posted(d) => Posted(d)'
  <2> SUFFICES ASSUME NEW q \in Relays, NEW i \in 1..(MaxPolls + 1), Sent(q, i)
               PROVE  Sent(q, i)'
    BY DEF Posted
  <2>1. attempt[q] \in Nat /\ i \in Nat
    BY <1>0, LinkBounds DEF RelayTypeOK
  <2>2. CASE q # r
    BY <1>0, <1>1, <2>2 DEF RelayTypeOK, Sent, Unsent
  <2>3. CASE q = r
    BY <1>0, <1>1, <2>1, <2>3 DEF RelayTypeOK, Sent, Unsent
  <2> QED BY <2>2, <2>3
<1>2. ASSUME \A d \in Calls : Posted(d) => Posted(d)',
             sentOn' = sentOn, dialed' \in Nat, dialed' >= dialed,
             served' \subseteq 1..dialed',
             \A l \in Links : link'[l] \in {NoSession} \cup 1..dialed',
             \A n \in {NoSession} \cup 1..dialed : n \in served' => n \in served
      PROVE  SentInv' /\ Renews(r)
  BY <1>0, <1>2 DEF SentInv, Renews
<1>3. ASSUME \A d \in Calls : Posted(d) => Posted(d)', sentOn' = sentOn,
             UNCHANGED <<served, dialed>>,
             \A l \in Links : link'[l] \in {link[l], NoSession}
      PROVE  SentInv' /\ Renews(r)
  BY <1>0, <1>2, <1>3
\* A reset leaves a link with its session or without.
<1>11. ASSUME Holds(r), reset(held[r]) PROVE \A l \in Links : link'[l] \in {link[l], NoSession}
  BY <1>0, <1>11 DEF reset, RelayTypeOK
<1>4. CASE Mirror(r)
  <2>0. held[r] \in Links
    BY <1>0, <1>4 DEF Mirror, Holds
  <2>1. PICK l : rpc' = [rpc EXCEPT ![r] = l] /\ rpc[r] \in Unsent /\ attempt' = attempt
    BY <1>4 DEF Mirror, Mirrored, GoOn, Finish, Unsent
  <2>2. \A d \in Calls : Posted(d) => Posted(d)'
    BY <1>1, <2>1
  <2>3. CASE mirrored[held[r]]
    BY <1>3, <1>4, <2>2, <2>3 DEF Mirror
  <2>4. CASE ~mirrored[held[r]]
    <3>1. PICK s : dialLocked(held[r], s)
      BY <1>4, <2>4 DEF Mirror
    <3>2. sentOn' = sentOn
      BY <1>4 DEF Mirror
    <3> QED BY <1>2, <2>0, <2>2, <3>1, <3>2, Dialing
  <2> QED BY <2>3, <2>4
<1>5. CASE MirrorFails(r)
  <2>1. \A d \in Calls : Posted(d) => Posted(d)'
    BY <1>1, <1>5 DEF MirrorFails, Finish, Unsent
  <2> QED BY <1>3, <1>5, <1>11, <2>1 DEF MirrorFails, Holds
<1>6. CASE Dial(r)
  <2>0. held[r] \in Links
    BY <1>0, <1>6 DEF Dial, Holds
  <2>1. PICK s : /\ dialLocked(held[r], s) /\ rpc[r] = "dial" /\ attempt' = attempt
                 /\ \/ rpc' = [rpc EXCEPT ![r] = "done"] /\ sentOn' = sentOn
                    \/ /\ rpc' = [rpc EXCEPT ![r] = "call"]
                       /\ \E n \in {s, NoSession} :
                             sentOn' = [sentOn EXCEPT ![Delivery(r)] = n]
    BY <1>6 DEF Dial, GoOn, Finish
  <2>2. \A d \in Calls : Posted(d) => Posted(d)'
    BY <1>1, <2>1 DEF Unsent
  <2>3. CASE sentOn' = sentOn
    BY <1>2, <2>0, <2>1, <2>2, <2>3, Dialing
  <2>4. CASE /\ rpc' = [rpc EXCEPT ![r] = "call"]
             /\ \E n \in {s, NoSession} : sentOn' = [sentOn EXCEPT ![Delivery(r)] = n]
    <3>0. PICK D \in Calls : D = Delivery(r)
      BY <1>0, PresentAttempt
    <3>1. PICK n \in {s, NoSession} : sentOn' = [sentOn EXCEPT ![D] = n]
      BY <2>4, <3>0
    <3>2. attempt[r] + 1 \in 1..(MaxPolls + 1) /\ D = Attempts[r][attempt[r] + 1]
      BY <1>0, <3>0, PresentAttempt
    <3>3. ~Sent(r, attempt[r] + 1)
      BY <1>0, <2>1, LinkBounds DEF Sent, Unsent, RelayTypeOK
    <3>4. pc[D] = "new"
      BY <3>2, <3>3, PostedSent DEF SentInv
    <3>5. Sent(r, attempt[r] + 1)'
      BY <1>0, <2>1, <2>4 DEF Sent, Unsent, RelayTypeOK
    <3>6. Posted(D)'
      BY <2>1, <3>2, <3>5 DEF Posted
    <3>7. /\ sentOn'[D] = n /\ \A d \in Calls \ {D} : sentOn'[d] = sentOn[d]
      BY <1>0, <3>1, <3>2 DEF RelayTypeOK
    <3>8. /\ dialed \in Nat /\ dialed' \in Nat /\ dialed' >= dialed
          /\ served' \subseteq 1..dialed'
          /\ \A k \in Links : link'[k] \in {NoSession} \cup 1..dialed'
          /\ s \in {NoSession} \cup 1..dialed'
          /\ \A m \in {NoSession} \cup 1..dialed : m \in served' => m \in served
      BY <2>0, <2>1, Dialing
    <3>9. ASSUME NEW d \in Calls
          PROVE  /\ sentOn'[d] \in {NoSession} \cup 1..dialed'
                 /\ pc'[d] # "new" \/ sentOn'[d] # NoSession => Posted(d)'
                 /\ pc'[d] # "new" /\ sentOn'[d] \in served' => phase' = "up" /\ d \notin dead'
      <4>1. CASE d = D
        BY <1>0, <3>4, <3>6, <3>7, <3>8, <4>1
      <4>2. CASE d # D
        BY <1>0, <2>2, <3>7, <3>8, <4>2 DEF SentInv
      <4> QED BY <4>1, <4>2
    <3>10. Renews(r)
      BY <1>0, <2>1, <3>0, <3>4, <3>7, <3>8 DEF Renews
    <3> QED BY <3>8, <3>9, <3>10 DEF SentInv
  <2> QED BY <2>1, <2>3, <2>4
<1>7. CASE CallFails(r)
  <2>1. \A d \in Calls : Posted(d) => Posted(d)'
    BY <1>1, <1>7 DEF CallFails, Again, GoOn, Finish, Unsent
  <2> QED BY <1>3, <1>7, <1>11, <2>1 DEF CallFails, Holds
<1>8. CASE CallReturns(r)
  <2>1. \A d \in Calls : Posted(d) => Posted(d)'
    BY <1>1, <1>8 DEF CallReturns, AfterRefusal, GoOn, Finish, Unsent
  <2> QED BY <1>3, <1>8, <2>1 DEF CallReturns
<1>9. CASE Settle(r)
  <2>1. \A d \in Calls : Posted(d) => Posted(d)'
    BY <1>1, <1>9 DEF Settle, Again, GoOn, Finish, Unsent
  <2> QED BY <1>3, <1>9, <2>1 DEF Settle
<1>10. CASE Poll(r)
  <2>1. \A d \in Calls : Posted(d) => Posted(d)'
    BY <1>1, <1>10 DEF Poll, Again, GoOn, Finish, Unsent
  <2> QED BY <1>3, <1>10, <2>1 DEF Poll
<1>12. CASE Gate(r)
  <2>1. \A d \in Calls : Posted(d) => Posted(d)'
    BY <1>1, <1>12 DEF Gate, GoOn, Unsent
  <2> QED BY <1>3, <1>12, <2>1 DEF Gate
<1>13. CASE Find(r)
  <2>1. PICK l : rpc' = [rpc EXCEPT ![r] = l] /\ rpc[r] \in Unsent /\ attempt' = attempt
    BY <1>13 DEF Find, GoOn, Finish, Unsent
  <2>2. \A d \in Calls : Posted(d) => Posted(d)'
    BY <1>1, <2>1
  <2> QED BY <1>3, <1>13, <2>2 DEF Find
<1> QED BY <1>4, <1>5, <1>6, <1>7, <1>8, <1>9, <1>10, <1>12, <1>13 DEF RelayStep

\* What was sent was sent by an attempt, and lives while its session does
\* (passthrough, the bot's sessions).
LEMMA SentStep ==
    ASSUME RInv, RInv', HeardInv, LinkInv, SentInv, Sound, Sound',
           [RelayNext]_<<vars, relayVars>>
    PROVE  SentInv'
<1> USE DEF relayVars, linkVars, ruleVars, callState, wireVars
<1>0. /\ TypeOK /\ RelayTypeOK /\ dialed \in Nat
      /\ NoSession \notin 1..dialed
  BY LinkBounds DEF RInv, IInv, LinkInv, RelayTypeOK
<1>1. ASSUME Calm, \A d \in Calls : pc'[d] = pc[d],
             \A d \in Calls : pc[d] # "new" /\ sentOn[d] \in served' =>
                 phase' = phase /\ (d \in dead' => d \in dead)
      PROVE  SentInv'
  <2>1. \A d \in Calls : Posted(d)' <=> Posted(d)
    BY <1>1 DEF Calm, Posted, Sent
  <2> QED BY <1>1, <2>1 DEF Calm, SentInv
<1>2. CASE UNCHANGED vars /\ Calm
  BY <1>1, <1>2 DEF vars, callVars, procVars
<1>3. CASE Rested /\ Calm
  BY <1>1, <1>3 DEF Rested, Calm, SentInv
<1>4. CASE Crashed /\ Calm /\ served' = {}
  BY <1>1, <1>4 DEF Crashed
<1>5. ASSUME NEW c \in Calls, pc[c] # "new" \/ sentOn[c] # NoSession,
             phase' = phase, dead' = dead, phase = "up" /\ c \notin dead,
             UNCHANGED relayVars, \A d \in Calls \ {c} : pc'[d] = pc[d]
      PROVE  SentInv'
  <2>1. \A d \in Calls : Posted(d)' <=> Posted(d)
    BY <1>5 DEF Posted, Sent
  <2>2. ASSUME NEW d \in Calls
        PROVE  /\ sentOn'[d] \in {NoSession} \cup 1..dialed'
               /\ pc'[d] # "new" \/ sentOn'[d] # NoSession => Posted(d)'
               /\ pc'[d] # "new" /\ sentOn'[d] \in served' => phase' = "up" /\ d \notin dead'
    BY <1>5, <2>1 DEF SentInv
  <2> QED BY <1>5, <2>2 DEF SentInv
<1>6. ASSUME NEW c \in Calls, Taken(c), sentOn[c] \in served, UNCHANGED relayVars
      PROVE  SentInv'
  <2>1. sentOn[c] # NoSession
    BY <1>0, <1>6 DEF SentInv
  <2> QED BY <1>5, <1>6, <2>1 DEF Taken, Others
<1>7. ASSUME NEW c \in Calls, Worked(c), UNCHANGED relayVars PROVE SentInv'
  <2>1. phase = "up" /\ c \notin dead /\ pc[c] # "new"
    BY <1>7 DEF Worked, Executing, RInv, IInv, ClaimInv
  <2> QED BY <1>5, <1>7, <2>1 DEF Worked, Others
<1>8. ASSUME NEW c \in Calls, Answered(c), UNCHANGED relayVars PROVE SentInv'
  <2>1. phase = "up" /\ c \notin dead /\ pc[c] # "new"
    BY <1>8 DEF Answered, HeardInv, WaitsOK
  <2> QED BY <1>5, <1>8, <2>1 DEF Answered, Others
<1> QED BY <1>0, <1>2, <1>3, <1>4, <1>6, <1>7, <1>8, Turns, SentByCall
(***************************************************************************)
(* What an attempt is answered.                                            *)
(***************************************************************************)
\* Every attempt after the first retry and before the present one was refused
\* for lack of funds, and only the first can have left an empty record.
AttemptInv ==
    \A r \in Relays :
        /\ \A i \in 2..attempt[r] : reply[Attempts[r][i]] = "unpaid"
        /\ rpc[r] \in {"settle", "poll"} => reply[Delivery(r)] = "unpaid"
        /\ pc[Delivery(r)] = "wait" \/ reply[Delivery(r)] = "empty" =>
               attempt[r] > 0 /\ waits[Delivery(r)] = Attempts[r][1]

\* The tool's failure stays on record while the session it was told on lasts.
ErrInv ==
    \A c \in Calls :
        reply[c] = "err" /\ sentOn[c] \in served =>
            LET e == calls[KeyOf[c]]
            IN  Keyed(c) /\ e # NoCall /\ pc[e] = "done" /\ rec[e].outcome = "err"

\* One attempt takes its step, the others keep what they were told.
LEMMA AttemptOfDelivery ==
    ASSUME RInv, HeardInv, LinkInv, SentInv, AttemptInv, NEW c \in Calls,
           Taken(c) \/ Worked(c) \/ Answered(c),
           UNCHANGED relayVars, Taken(c) => sentOn[c] \in served
    PROVE  AttemptInv'
<1> USE DEF relayVars, linkVars, ruleVars, callState, wireVars
<1>0. /\ TypeOK /\ RelayTypeOK /\ RepliesOK /\ ClaimsOK /\ NoCall \notin Calls
      /\ pc[c] # "done" /\ Others(c) /\ UNCHANGED <<rpc, attempt>>
  BY HarnessAssumption
     DEF RInv, IInv, LinkInv, HeardInv, Taken, Worked, Answered, Executing
<1> SUFFICES ASSUME NEW r \in Relays
             PROVE  /\ \A i \in 2..attempt[r] : reply'[Attempts[r][i]] = "unpaid"
                    /\ rpc[r] \in {"settle", "poll"} => reply'[Delivery(r)] = "unpaid"
                    /\ pc'[Delivery(r)] = "wait" \/ reply'[Delivery(r)] = "empty" =>
                           attempt[r] > 0 /\ waits'[Delivery(r)] = Attempts[r][1]
  <2>1. \A r \in Relays : Delivery(r)' = Delivery(r)
    BY <1>0 DEF Delivery
  <2> QED BY <1>0, <2>1 DEF AttemptInv
<1>1. ASSUME NEW d \in Calls, reply[d] = "unpaid" PROVE reply'[d] = "unpaid"
  <2>1. pc[d] = "done"
    BY <1>0, <1>1 DEF RepliesOK, ReplyOK
  <2> QED BY <1>0, <1>1, <2>1 DEF Others
<1>2. attempt[r] \in 0..MaxPolls /\ MaxPolls \in Nat
  BY <1>0, LinkBounds DEF RelayTypeOK
<1>3. ASSUME NEW i \in 2..attempt[r]
      PROVE  i \in 1..(MaxPolls + 1) /\ reply[Attempts[r][i]] = "unpaid"
             /\ reply'[Attempts[r][i]] = "unpaid"
  <2>1. i \in 1..(MaxPolls + 1)
    BY <1>2
  <2> QED BY <1>1, <2>1, AttemptIs DEF AttemptInv
<1>4. PICK D \in Calls : /\ D = Delivery(r) /\ D = Attempts[r][attempt[r] + 1]
                         /\ attempt[r] + 1 \in 1..(MaxPolls + 1)
                         /\ Keyed(D) /\ KeyOf[D] \in Keys
  BY <1>0, PresentAttempt
<1>5. /\ rpc[r] \in {"settle", "poll"} => reply[D] = "unpaid"
      /\ pc[D] = "wait" \/ reply[D] = "empty" => attempt[r] > 0 /\ waits[D] = Attempts[r][1]
  BY <1>4 DEF AttemptInv
<1>6. ASSUME pc'[D] = "wait" \/ reply'[D] = "empty"
      PROVE  attempt[r] > 0 /\ waits'[D] = Attempts[r][1]
  <2>1. CASE D # c
    BY <1>0, <1>5, <1>6, <2>1 DEF Others
  <2>2. CASE D = c /\ Taken(c)
    <3>1. reply[D] = "none"
      BY <1>0, <2>2 DEF RepliesOK, ReplyOK, Taken
    <3>2. PICK e : e = calls[KeyOf[D]] /\ e # NoCall /\ waits'[D] = e /\ pc[D] = "new"
      BY <1>6, <2>2, <3>1 DEF Taken
    <3>3. e \in Calls /\ KeyOf[e] = KeyOf[D] /\ (Executing(e) \/ Answers(e))
      BY <1>0, <1>4, <3>2 DEF ClaimsOK, TypeOK
    <3>4. pc[e] # "new" /\ e # D
      BY <3>2, <3>3 DEF Executing, Answers
    <3>5. Posted(e)
      BY <3>3, <3>4 DEF SentInv
    <3>6. PICK j \in 1..(MaxPolls + 1) : e = Attempts[r][j] /\ Sent(r, j)
      BY <1>4, <3>3, <3>5, AttemptOfKey
    <3>7. j <= attempt[r] /\ j >= 1
      BY <1>2, <1>4, <3>4, <3>6 DEF Sent
    <3>8. ASSUME j # 1 PROVE FALSE
      <4>1. j \in 2..attempt[r]
        BY <1>2, <3>7, <3>8
      <4>2. reply[e] = "unpaid"
        BY <1>3, <3>6, <4>1
      <4> QED BY <1>0, <3>3, <4>2 DEF RepliesOK, ReplyOK, Executing, Answers
    <3> QED BY <1>2, <3>2, <3>6, <3>7, <3>8
  <2>3. CASE D = c /\ Worked(c)
    BY <1>6, <2>3 DEF Worked, Told
  <2>4. CASE D = c /\ Answered(c)
    BY <1>5, <2>4 DEF Answered
  <2> QED BY <2>1, <2>2, <2>3, <2>4
<1> QED BY <1>1, <1>3, <1>4, <1>5, <1>6

\* A step of a call makes the next attempt only after a failure of the first
\* or a refusal (passthrough).
LEMMA AttemptOfCall ==
    ASSUME RInv, HeardInv, LinkInv, LinkInv', SentInv, AttemptInv,
           NEW r \in Relays, RelayStep(r)
    PROVE  AttemptInv'
<1>0. /\ UNCHANGED <<pc, reply, waits>> /\ RelayTypeOK /\ RelayTypeOK' /\ RepliesOK
  BY DEF RelayStep, vars, callVars, LinkInv, HeardInv
<1>1. /\ \A q \in Relays \ {r} : rpc'[q] = rpc[q] /\ attempt'[q] = attempt[q]
      /\ \/ /\ attempt'[r] = attempt[r]
            /\ rpc'[r] \in {"settle", "poll"} => reply[Delivery(r)] = "unpaid"
         \/ /\ attempt'[r] = attempt[r] + 1 /\ rpc'[r] = "dial"
            /\ attempt[r] = 0 \/ rpc[r] \in {"settle", "poll"}
  <2> USE <1>0 DEF RelayTypeOK, GoOn, Finish, Again
  <2>1. CASE Mirror(r)
    BY <2>1 DEF Mirror, Mirrored
  <2>2. CASE MirrorFails(r)
    BY <2>2 DEF MirrorFails
  <2>3. CASE Dial(r)
    BY <2>3 DEF Dial
  <2>4. CASE CallFails(r)
    BY <2>4 DEF CallFails
  <2>5. CASE CallReturns(r)
    BY <2>5 DEF CallReturns, AfterRefusal
  <2>6. CASE Settle(r)
    BY <2>6 DEF Settle
  <2>7. CASE Poll(r)
    BY <2>7 DEF Poll
  <2>8. CASE Gate(r)
    BY <2>8 DEF Gate
  <2>9. CASE Find(r)
    BY <2>9 DEF Find
  <2> QED BY <2>1, <2>2, <2>3, <2>4, <2>5, <2>6, <2>7, <2>8, <2>9 DEF RelayStep
<1> SUFFICES ASSUME NEW q \in Relays
             PROVE  /\ \A i \in 2..attempt'[q] : reply[Attempts[q][i]] = "unpaid"
                    /\ rpc'[q] \in {"settle", "poll"} => reply[Delivery(q)'] = "unpaid"
                    /\ pc[Delivery(q)'] = "wait" \/ reply[Delivery(q)'] = "empty" =>
                           attempt'[q] > 0 /\ waits[Delivery(q)'] = Attempts[q][1]
  BY <1>0 DEF AttemptInv
<1>2. CASE attempt'[q] = attempt[q]
  <2>1. Delivery(q)' = Delivery(q)
    BY <1>2 DEF Delivery
  <2>2. rpc'[q] \in {"settle", "poll"} => reply[Delivery(q)] = "unpaid"
    BY <1>0, <1>1, <1>2, LinkBounds DEF AttemptInv, RelayTypeOK
  <2> QED BY <1>2, <2>1, <2>2 DEF AttemptInv
<1>3. CASE attempt'[q] # attempt[q]
  <2>1. /\ q = r /\ attempt'[r] = attempt[r] + 1 /\ rpc'[r] = "dial"
        /\ attempt[r] = 0 \/ rpc[r] \in {"settle", "poll"}
    BY <1>1, <1>3
  <2>2. attempt[r] \in Nat /\ attempt'[r] \in 0..MaxPolls /\ MaxPolls \in Nat
    BY <1>0, LinkBounds DEF RelayTypeOK
  <2>3. \A i \in 2..attempt'[r] : reply[Attempts[r][i]] = "unpaid"
    <3> SUFFICES ASSUME NEW i \in 2..attempt'[r] PROVE reply[Attempts[r][i]] = "unpaid"
      OBVIOUS
    <3>1. CASE i \in 2..attempt[r]
      BY <3>1 DEF AttemptInv
    <3>2. CASE i = attempt[r] + 1 /\ attempt[r] # 0
      BY <2>1, <3>2 DEF AttemptInv, Delivery
    <3> QED BY <2>1, <2>2, <3>1, <3>2
  <2>4. attempt'[r] + 1 \in 1..(MaxPolls + 1)
    BY <2>2
  <2>5. PICK D \in Calls : D = Attempts[r][attempt'[r] + 1] /\ D = Delivery(r)'
    BY <2>4, AttemptIs DEF Delivery
  <2>6. ~Sent(r, attempt'[r] + 1)
    BY <2>1, <2>2 DEF Sent
  <2>7. pc[D] = "new"
    BY <2>4, <2>5, <2>6, PostedSent DEF SentInv
  <2>8. reply[D] = "none"
    BY <1>0, <2>7 DEF RepliesOK, ReplyOK
  <2> QED BY <2>1, <2>3, <2>5, <2>7, <2>8
<1> QED BY <1>2, <1>3

\* Neither network nor bot changes what an attempt was answered.
LEMMA AttemptStep ==
    ASSUME RInv, HeardInv, LinkInv, LinkInv', SentInv, AttemptInv, Sound, Sound',
           [RelayNext]_<<vars, relayVars>>
    PROVE  AttemptInv'
<1>1. ASSUME Calm, UNCHANGED <<pc, reply, waits>> PROVE AttemptInv'
  BY <1>1 DEF Calm, AttemptInv, Delivery
<1>2. CASE UNCHANGED vars /\ Calm
  BY <1>1, <1>2 DEF vars, callVars
<1>3. CASE (Rested \/ Crashed) /\ Calm
  BY <1>1, <1>3 DEF Rested, Crashed
<1>4. ASSUME NEW c \in Calls, Taken(c), sentOn[c] \in served, UNCHANGED relayVars
      PROVE  AttemptInv'
  BY <1>4, AttemptOfDelivery
<1>5. ASSUME NEW c \in Calls, Worked(c) \/ Answered(c), UNCHANGED relayVars
      PROVE  AttemptInv'
  <2>1. ~Taken(c)
    BY <1>5 DEF Taken, Worked, Answered, Executing
  <2> QED BY <1>5, <2>1, AttemptOfDelivery
<1> QED BY <1>2, <1>3, <1>4, <1>5, Turns, AttemptOfCall
\* The record of a failure outlives every step but a crash, which ends the
\* session too.
LEMMA ErrStep ==
    ASSUME RInv, HeardInv, LinkInv, SentInv, ErrInv, Sound, Sound',
           [RelayNext]_<<vars, relayVars>>
    PROVE  ErrInv'
<1> USE DEF relayVars, linkVars, ruleVars, callState, wireVars
<1>0. /\ TypeOK /\ ClaimInv /\ RepliesOK /\ RecordsOK /\ ClaimsOK /\ WaitsOK /\ NoCall \notin Calls
  BY HarnessAssumption DEF RInv, IInv, HeardInv
<1>1. ASSUME UNCHANGED <<pc, calls, rec, reply>>,
             \A d \in Calls : pc[d] # "new" /\ sentOn'[d] \in served' => sentOn[d] \in served
      PROVE  ErrInv'
  <2> SUFFICES ASSUME NEW c \in Calls, reply[c] = "err", sentOn'[c] \in served'
               PROVE  LET e == calls[KeyOf[c]]
                      IN  Keyed(c) /\ e # NoCall /\ pc[e] = "done" /\ rec[e].outcome = "err"
    BY <1>1 DEF ErrInv, Keyed
  <2>1. pc[c] # "new"
    BY <1>0 DEF RepliesOK, ReplyOK
  <2> QED BY <1>1, <2>1 DEF ErrInv
<1>2. ASSUME NEW r \in Relays, RelayStep(r) PROVE ErrInv'
  <2>1. UNCHANGED vars
    BY <1>2 DEF RelayStep
  <2> QED BY <1>0, <1>1, <1>2, <2>1, SentByCall DEF Renews, vars, callVars, claimVars
<1>3. CASE UNCHANGED vars /\ Calm
  BY <1>1, <1>3 DEF Calm, vars, callVars, claimVars
<1>4. CASE Crashed /\ Calm /\ served' = {}
  BY <1>4 DEF ErrInv
<1>5. CASE Rested /\ Calm
  <2>1. CASE UNCHANGED <<phase, calls, rec>>
    BY <1>1, <1>5, <2>1 DEF Rested, Calm
  <2>2. CASE phase # "up"
    <3>1. \A c \in Calls : pc[c] # "new" => sentOn[c] \notin served
      BY <2>2 DEF SentInv
    <3>2. \A c \in Calls : reply[c] = "err" => pc[c] # "new"
      BY <1>0 DEF RepliesOK, ReplyOK
    <3> QED BY <1>5, <3>1, <3>2 DEF Rested, Calm, ErrInv
  <2> QED BY <1>5, <2>1, <2>2 DEF Rested
\* A step of one delivery c.
<1>6. ASSUME NEW c \in Calls, Others(c), pc[c] # "done", UNCHANGED relayVars,
             \A k \in Keys : calls[k] \notin {NoCall, c} => calls'[k] = calls[k],
             reply'[c] = "err" /\ sentOn[c] \in served =>
                LET e == calls'[KeyOf[c]]
                IN  Keyed(c) /\ e # NoCall /\ pc'[e] = "done" /\ rec'[e].outcome = "err"
      PROVE  ErrInv'
  <2> SUFFICES ASSUME NEW d \in Calls, d # c, reply'[d] = "err", sentOn[d] \in served
               PROVE  LET e == calls'[KeyOf[d]]
                      IN  Keyed(d) /\ e # NoCall /\ pc'[e] = "done" /\ rec'[e].outcome = "err"
    BY <1>6 DEF ErrInv, Keyed
  <2>1. PICK e : /\ e = calls[KeyOf[d]] /\ Keyed(d) /\ e # NoCall /\ pc[e] = "done"
                 /\ rec[e].outcome = "err"
    BY <1>6 DEF ErrInv, Others
  <2>2. KeyOf[d] \in Keys /\ e \in Calls /\ e # c
    BY <1>0, <1>6, <2>1, HarnessAssumption DEF Keyed, TypeOK
  <2> QED BY <1>6, <2>1, <2>2 DEF Others
<1>7. ASSUME NEW c \in Calls, Taken(c), sentOn[c] \in served, UNCHANGED relayVars
      PROVE  ErrInv'
  <2>1. /\ Others(c) /\ pc[c] # "done" /\ KeyOf[c] \in Keys
        /\ \A k \in Keys : calls[k] \notin {NoCall, c} => calls'[k] = calls[k]
    BY <1>0, <1>7, HarnessAssumption DEF Taken, TypeOK, Keyed
  <2>2. reply'[c] = "none"
    BY <1>0, <1>7 DEF Taken, RepliesOK, ReplyOK
  <2> QED BY <1>6, <1>7, <2>1, <2>2
<1>8. ASSUME NEW c \in Calls, Worked(c), UNCHANGED relayVars PROVE ErrInv'
  <2>1. /\ Others(c) /\ pc[c] # "done" /\ pc[c] # "new"
        /\ \A k \in Keys : calls[k] \notin {NoCall, c} => calls'[k] = calls[k]
    BY <1>8 DEF Worked, Executing
  <2>2. Keyed(c)
    BY <2>1, AttemptIs DEF SentInv, Posted
  <2>3. calls[KeyOf[c]] = c
    BY <1>0, <1>8, <2>2 DEF Worked, ClaimInv
  <2>4. reply'[c] = "err" => /\ calls'[KeyOf[c]] = c /\ pc'[c] = "done"
                             /\ rec'[c].outcome = "err"
    BY <1>8, <2>2, <2>3 DEF Worked
  <2> QED BY <1>0, <1>6, <1>8, <2>1, <2>2, <2>4
<1>9. ASSUME NEW c \in Calls, Answered(c), UNCHANGED relayVars PROVE ErrInv'
  <2>1. /\ Others(c) /\ pc[c] # "done"
        /\ \A k \in Keys : calls[k] \notin {NoCall, c} => calls'[k] = calls[k]
    BY <1>9 DEF Answered
  <2>2. ASSUME reply'[c] = "err"
        PROVE  /\ Keyed(c) /\ calls'[KeyOf[c]] # NoCall /\ pc'[calls'[KeyOf[c]]] = "done"
               /\ rec'[calls'[KeyOf[c]]].outcome = "err"
    <3>1. PICK e : /\ e = waits[c] /\ rec[e].closed /\ rec[e].outcome = "err"
      BY <1>9, <2>2 DEF Answered
    <3>2. Keyed(c) /\ calls[KeyOf[c]] = e /\ KeyOf[e] = KeyOf[c] /\ e \in Calls
      BY <1>0, <1>9, <3>1 DEF Answered, WaitsOK, TypeOK
    <3>3. pc[e] = "done" /\ e # c
      BY <1>0, <1>9, <3>1, <3>2 DEF RecordsOK, Answered
    <3> QED BY <1>0, <1>9, <3>1, <3>2, <3>3 DEF Answered, Others
  <2> QED BY <1>6, <1>9, <2>1, <2>2
<1>10. CASE (\E c \in Calls : (Worked(c) \/ Answered(c)) /\ UNCHANGED relayVars)
  BY <1>8, <1>9, <1>10
<1> QED BY <1>2, <1>3, <1>4, <1>5, <1>7, <1>10, Turns
(***************************************************************************)
(* What a call returns.                                                    *)
(***************************************************************************)
\* A delivery that neither runs nor ever will, and is not paid for.
Over(d) ==
    /\ ~Executing(d)
    /\ ~(d \in charged /\ pc[d] = "done" /\ result[d] = "ok")
    /\ pc[d] = "new" /\ sentOn[d] \in served => calls[KeyOf[d]] # NoCall

AllOver(r) == \A i \in 1..(MaxPolls + 1) : Over(Attempts[r][i])

\* A call returns what its last attempt was answered; for a failure, and for
\* the answer of an empty record, nothing is left to be charged.
OutInv ==
    \A r \in Relays :
        /\ out[r] # "none" => rpc[r] = "done"
        /\ out[r] = "ok" => reply[Delivery(r)] = "ok"
        /\ out[r] \in {"err", "empty"} => AllOver(r)

\* The key's record says that its tool failed: nobody executes, nobody was paid.
LEMMA OverWhenErr ==
    ASSUME RInv, HeardInv, LinkInv, SentInv, ErrInv, OnceInv, Sound,
           NEW r \in Relays, reply[Delivery(r)] = "err", sentOn[Delivery(r)] \in served
    PROVE  AllOver(r)
<1>0. /\ TypeOK /\ ClaimInv /\ RelayTypeOK /\ RecordsOK /\ RepliesOK /\ Books /\ Unlapsed
  BY DEF RInv, IInv, LinkInv, HeardInv, OnceInv, Sound
<1>1. PICK D \in Calls : D = Delivery(r) /\ D = Attempts[r][attempt[r] + 1]
                         /\ attempt[r] + 1 \in 1..(MaxPolls + 1) /\ KeyOf[D] \in Keys
  BY <1>0, PresentAttempt
<1>2. PICK e : e = calls[KeyOf[D]] /\ e # NoCall /\ pc[e] = "done" /\ rec[e].outcome = "err"
  BY <1>1 DEF ErrInv
<1>3. e \in Calls /\ result[e] = "err"
  BY <1>0, <1>1, <1>2 DEF TypeOK, RecordsOK, Told
<1>4. phase = "up"
  <2>1. pc[D] # "new"
    BY <1>0, <1>1 DEF RepliesOK, ReplyOK
  <2> QED BY <1>1, <2>1 DEF SentInv
<1>5. ASSUME NEW i \in 1..(MaxPolls + 1) PROVE Over(Attempts[r][i])
  <2>1. PICK d \in Calls : d = Attempts[r][i] /\ Keyed(d) /\ KeyOf[d] = KeyOf[D]
    BY <1>1, AttemptIs, RelayAssumption
  <2>2. ~Executing(d)
    BY <1>0, <1>2, <2>1 DEF ClaimInv, Executing
  <2>3. ~(d \in charged /\ pc[d] = "done" /\ result[d] = "ok")
    BY <1>0, <1>2, <1>3, <1>4, <2>1 DEF Books, FinalInv, Unlapsed, Settled
  <2> QED BY <1>2, <2>1, <2>2, <2>3 DEF Over
<1> QED BY <1>5 DEF AllOver

\* The first attempt was refused after it was claimed and before it was
\* charged, and every attempt up to the present one was refused as well.
LEMMA OverWhenEmpty ==
    ASSUME RInv, HeardInv, LinkInv, SentInv, AttemptInv, Sound,
           NEW r \in Relays, reply[Delivery(r)] = "empty"
    PROVE  AllOver(r)
<1>0. RelayTypeOK /\ RepliesOK /\ MaxPolls \in Nat /\ attempt[r] \in 0..MaxPolls
      /\ NoSession \notin 1..dialed
  BY LinkBounds DEF LinkInv, HeardInv, RelayTypeOK
<1>1. PICK D \in Calls : D = Delivery(r) /\ D = Attempts[r][attempt[r] + 1]
  BY <1>0, PresentAttempt
<1>2. attempt[r] > 0 /\ waits[D] = Attempts[r][1]
  BY <1>1 DEF AttemptInv
<1>3. ASSUME NEW i \in 1..(MaxPolls + 1) PROVE Over(Attempts[r][i])
  <2>1. PICK d \in Calls : d = Attempts[r][i]
    BY AttemptIs
  <2>2. CASE i = 1
    <3>1. pc[d] = "done" /\ d \notin charged
      BY <1>0, <1>1, <1>2, <2>1, <2>2 DEF RepliesOK, ReplyOK
    <3> QED BY <2>1, <3>1 DEF Over, Executing
  <2>3. CASE i = attempt[r] + 1
    <3>1. pc[d] = "done" /\ d \notin charged
      BY <1>0, <1>1, <2>1, <2>3 DEF RepliesOK, ReplyOK
    <3> QED BY <2>1, <3>1 DEF Over, Executing
  <2>4. CASE i \in 2..attempt[r]
    <3>1. pc[d] = "done" /\ d \notin charged
      BY <1>0, <2>1, <2>4 DEF RepliesOK, ReplyOK, AttemptInv
    <3> QED BY <2>1, <3>1 DEF Over, Executing
  <2>5. CASE i > attempt[r] + 1
    <3>1. ~Sent(r, i)
      BY <1>0, <2>5 DEF Sent
    <3>2. ~Posted(d)
      BY <2>1, <3>1, PostedSent
    <3>3. pc[d] = "new" /\ sentOn[d] \notin served
      BY <1>0, <3>2 DEF SentInv
    <3> QED BY <2>1, <3>3 DEF Over, Executing
  <2> QED BY <1>0, <2>2, <2>3, <2>4, <2>5
<1> QED BY <1>3 DEF AllOver

\* A step of a delivery opens no call again: a duplicate finds the record, and
\* nobody gives up the claim.
LEMMA OverOfDelivery ==
    ASSUME RInv, HeardInv, LinkInv, SentInv, Sound, NEW c \in Calls, Posted(c),
           Taken(c) \/ Worked(c) \/ Answered(c), UNCHANGED relayVars,
           Taken(c) => sentOn[c] \in served,
           NEW r \in Relays, AllOver(r)
    PROVE  AllOver(r)'
<1> USE DEF relayVars, wireVars
<1>0. /\ TypeOK /\ ClaimInv /\ ClaimsOK /\ PriceInv /\ Others(c)
  BY DEF RInv, IInv, HeardInv, Taken, Worked, Answered
<1> SUFFICES ASSUME NEW i \in 1..(MaxPolls + 1), NEW d \in Calls, d = Attempts[r][i],
                    Keyed(d), KeyOf[d] \in Keys
             PROVE  Over(d)'
  BY AttemptIs DEF AllOver
<1>1. Over(d) /\ UNCHANGED <<sentOn, served>>
  BY DEF AllOver
<1>2. dead' = dead
  BY DEF Taken, Worked, Answered
<1>3. CASE d = c
  <2>1. CASE Taken(c)
    BY <1>1, <1>2, <1>3, <2>1 DEF Taken, Over, Executing
  <2>2. CASE Worked(c)
    BY <1>1, <1>3, <2>2 DEF Worked, Over
  <2>3. CASE Answered(c)
    <3>1. c \notin charged /\ UNCHANGED charged
      BY <1>0, <2>3 DEF PriceInv, Answered
    <3> QED BY <1>3, <2>3, <3>1 DEF Answered, Over, Executing
  <2> QED BY <2>1, <2>2, <2>3
<1>4. CASE d # c
  <2>1. /\ pc'[d] = pc[d] /\ result'[d] = result[d] /\ (d \in charged' => d \in charged)
    BY <1>0, <1>4 DEF Others
  <2>2. calls[KeyOf[d]] # NoCall => calls'[KeyOf[d]] # NoCall
    <3>1. CASE Taken(c)
      <4>1. KeyOf[c] \in Keys /\ NoCall # c
        BY <3>1, HarnessAssumption DEF Taken, Keyed
      <4> QED BY <1>0, <3>1, <4>1 DEF Taken, TypeOK
    <3>2. CASE Worked(c)
      <4>1. ASSUME calls[KeyOf[d]] = c, c # NoCall PROVE FALSE
        <5>1. KeyOf[c] = KeyOf[d] /\ Executing(c)
          BY <1>0, <3>2, <4>1 DEF ClaimsOK, Worked
        <5>2. \E j \in 1..(MaxPolls + 1) : c = Attempts[r][j]
          BY <5>1, AttemptOfKey
        <5> QED BY <5>1, <5>2 DEF AllOver, Over
      <4> QED BY <3>2, <4>1 DEF Worked, Told
    <3>3. CASE Answered(c)
      BY <3>3 DEF Answered
    <3> QED BY <3>1, <3>2, <3>3
  <2> QED BY <1>1, <1>2, <2>1, <2>2 DEF Over, Executing
<1> QED BY <1>3, <1>4
\* What a call has returned stays true of its deliveries, one step per kind.
LEMMA OutStep ==
    ASSUME RInv, RInv', HeardInv, LinkInv, SentInv, AttemptInv, ErrInv, OutInv, OnceInv,
           Sound, Sound', [RelayNext]_<<vars, relayVars>>
    PROVE  OutInv'
<1> USE DEF relayVars, linkVars, ruleVars, callState, wireVars
<1>0. /\ TypeOK /\ RelayTypeOK /\ RepliesOK /\ ClaimsOK
  BY DEF RInv, IInv, LinkInv, HeardInv
\* Nothing happens to the calls at the bridge.
<1>1. ASSUME UNCHANGED <<rpc, attempt, out>>,
             \A d \in Calls : reply[d] = "ok" => reply'[d] = "ok",
             \A r \in Relays : AllOver(r) => AllOver(r)'
      PROVE  OutInv'
  <2> SUFFICES ASSUME NEW r \in Relays
               PROVE  /\ out'[r] # "none" => rpc'[r] = "done"
                      /\ out'[r] = "ok" => reply'[Delivery(r)'] = "ok"
                      /\ out'[r] \in {"err", "empty"} => AllOver(r)'
    BY DEF OutInv
  <2>1. Delivery(r)' = Delivery(r) /\ Delivery(r) \in Calls
    BY <1>0, <1>1, PresentAttempt DEF Delivery
  <2> QED BY <1>1, <2>1 DEF OutInv
<1>2. ASSUME NEW r \in Relays, AllOver(r),
             UNCHANGED <<pc, dead, charged, result>>,
             \A d \in Calls : pc[d] = "new" /\ sentOn'[d] \in served' =>
                 sentOn[d] \in served /\ (calls[KeyOf[d]] # NoCall => calls' = calls)
      PROVE  AllOver(r)'
  <2> SUFFICES ASSUME NEW i \in 1..(MaxPolls + 1), NEW d \in Calls, d = Attempts[r][i],
                      Over(d)
               PROVE  Over(d)'
    BY <1>2, AttemptIs DEF AllOver
  <2> QED BY <1>2 DEF Over, Executing
<1>3. CASE UNCHANGED vars /\ Calm
  <2>1. /\ UNCHANGED <<pc, dead, charged, result, calls, reply>>
        /\ UNCHANGED <<rpc, attempt, out, sentOn>> /\ served' \subseteq served
    BY <1>3 DEF Calm, vars, callVars, claimVars, histVars
  <2> QED BY <1>1, <1>2, <2>1
<1>4. CASE Rested /\ Calm
  <2>1. /\ UNCHANGED <<pc, dead, charged, result, reply>>
        /\ UNCHANGED <<rpc, attempt, out, sentOn>> /\ served' \subseteq served
        /\ calls' = calls \/ phase # "up"
    BY <1>4 DEF Rested, Calm
  <2>2. ASSUME NEW r \in Relays, AllOver(r) PROVE AllOver(r)'
    <3>1. CASE calls' = calls
      BY <1>2, <2>1, <2>2, <3>1
    <3>2. CASE phase # "up"
      <4> SUFFICES ASSUME NEW i \in 1..(MaxPolls + 1), NEW d \in Calls, d = Attempts[r][i],
                          Over(d), KeyOf[d] \in Keys
                   PROVE  Over(d)'
        BY <2>2, AttemptIs DEF AllOver
      <4>1. calls[KeyOf[d]] = NoCall
        BY <1>0, <3>2 DEF ClaimsOK
      <4> QED BY <2>1, <4>1 DEF Over, Executing
    <3> QED BY <2>1, <3>1, <3>2
  <2> QED BY <1>1, <2>1, <2>2
<1>5. CASE Crashed /\ Calm /\ served' = {}
  <2>1. /\ UNCHANGED <<pc, charged, result, reply>> /\ dead \subseteq dead'
        /\ UNCHANGED <<rpc, attempt, out>> /\ served' = {}
    BY <1>5 DEF Crashed, Calm
  <2>2. ASSUME NEW r \in Relays, AllOver(r) PROVE AllOver(r)'
    <3> SUFFICES ASSUME NEW i \in 1..(MaxPolls + 1), NEW d \in Calls, d = Attempts[r][i],
                        Over(d)
                 PROVE  Over(d)'
      BY <2>2, AttemptIs DEF AllOver
    <3> QED BY <2>1 DEF Over, Executing
  <2> QED BY <1>1, <2>1, <2>2
<1>6. ASSUME NEW c \in Calls, Posted(c), UNCHANGED relayVars,
             Taken(c) \/ Worked(c) \/ Answered(c), Taken(c) => sentOn[c] \in served
      PROVE  OutInv'
  <2>1. pc[c] # "done" /\ Others(c)
    BY <1>6 DEF Taken, Worked, Answered, Executing
  <2>2. ASSUME NEW d \in Calls, reply[d] = "ok" PROVE reply'[d] = "ok"
    <3>1. pc[d] = "done"
      BY <1>0, <2>2 DEF RepliesOK, ReplyOK
    <3> QED BY <2>1, <2>2, <3>1 DEF Others
  <2>3. ASSUME NEW r \in Relays, AllOver(r) PROVE AllOver(r)'
    BY <1>6, <2>3, OverOfDelivery
  <2> QED BY <1>1, <1>6, <2>2, <2>3
<1>7. ASSUME NEW c \in Calls, Taken(c), sentOn[c] \in served, UNCHANGED relayVars
      PROVE  OutInv'
  <2>1. NoSession \notin 1..dialed
    BY <1>0, LinkBounds DEF RelayTypeOK
  <2>2. Posted(c)
    BY <1>7, <2>1 DEF SentInv
  <2> QED BY <1>6, <1>7, <2>2
<1>8. ASSUME NEW c \in Calls, Worked(c) \/ Answered(c), UNCHANGED relayVars
      PROVE  OutInv'
  <2>1. pc[c] # "new" /\ ~Taken(c)
    BY <1>8 DEF Worked, Answered, Taken, Executing
  <2>2. Posted(c)
    BY <2>1 DEF SentInv
  <2> QED BY <1>6, <1>8, <2>1, <2>2
\* A call takes a step.
<1>9. ASSUME NEW r \in Relays, RelayStep(r) PROVE OutInv'
  <2>1. /\ UNCHANGED <<pc, dead, charged, result, calls, reply>> /\ Renews(r)
    BY <1>0, <1>9, SentByCall
       DEF RelayStep, vars, callVars, claimVars, histVars
  <2>2. /\ rpc[r] # "done"
        /\ \A q \in Relays \ {r} : /\ rpc'[q] = rpc[q] /\ attempt'[q] = attempt[q]
                                   /\ out'[q] = out[q]
        /\ \/ out'[r] = out[r]
           \/ out'[r] \notin {"ok", "err", "empty"} /\ rpc'[r] = "done"
           \/ CallReturns(r) /\ out'[r] = reply[Delivery(r)] /\ rpc'[r] = "done"
              /\ attempt' = attempt
    <3> USE <1>0 DEF RelayTypeOK, GoOn, Finish, Again
    <3>1. CASE Mirror(r)
      BY <3>1 DEF Mirror, Mirrored
    <3>2. CASE MirrorFails(r)
      BY <3>2 DEF MirrorFails
    <3>3. CASE Dial(r)
      BY <3>3 DEF Dial
    <3>4. CASE CallFails(r)
      BY <3>4 DEF CallFails
    <3>5. CASE CallReturns(r)
      BY <3>5 DEF CallReturns, AfterRefusal
    <3>6. CASE Settle(r)
      BY <3>6 DEF Settle
    <3>7. CASE Poll(r)
      BY <3>7 DEF Poll
    <3>8. CASE Gate(r)
      BY <3>8 DEF Gate
    <3>9. CASE Find(r)
      BY <3>9 DEF Find
    <3> QED
      BY <1>9, <3>1, <3>2, <3>3, <3>4, <3>5, <3>6, <3>7, <3>8, <3>9 DEF RelayStep
  <2>3. ASSUME NEW q \in Relays, q # r \/ CallReturns(r), AllOver(q) PROVE AllOver(q)'
    <3>1. ASSUME NEW i \in 1..(MaxPolls + 1), NEW d \in Calls, d = Attempts[q][i],
                 pc[d] = "new", sentOn'[d] \in served'
          PROVE  sentOn[d] \in served
      <4>1. CASE CallReturns(r)
        BY <3>1, <4>1 DEF CallReturns
      <4>2. CASE q # r
        <5>1. d # Delivery(r)
          BY <1>0, <3>1, <4>2, PresentAttempt, RelayAssumption
        <5> QED BY <2>1, <3>1, <5>1 DEF Renews
      <4> QED BY <2>3, <4>1, <4>2
    <3> SUFFICES ASSUME NEW i \in 1..(MaxPolls + 1), NEW d \in Calls, d = Attempts[q][i],
                        Over(d)
                 PROVE  Over(d)'
      BY <2>3, AttemptIs DEF AllOver
    <3> QED BY <2>1, <3>1 DEF Over, Executing
  <2> SUFFICES ASSUME NEW q \in Relays
               PROVE  /\ out'[q] # "none" => rpc'[q] = "done"
                      /\ out'[q] = "ok" => reply[Delivery(q)'] = "ok"
                      /\ out'[q] \in {"err", "empty"} => AllOver(q)'
    BY <2>1 DEF OutInv
  <2>4. CASE q # r
    <3>1. Delivery(q)' = Delivery(q)
      BY <2>2, <2>4 DEF Delivery
    <3> QED BY <2>2, <2>3, <2>4, <3>1 DEF OutInv
  <2>5. CASE q = r /\ out'[r] = out[r]
    <3>1. out[r] = "none"
      BY <2>2 DEF OutInv
    <3> QED BY <2>5, <3>1
  <2>6. CASE q = r /\ out'[r] \notin {"ok", "err", "empty"} /\ rpc'[r] = "done"
    BY <2>6
  <2>7. CASE q = r /\ CallReturns(r) /\ out'[r] = reply[Delivery(r)] /\ rpc'[r] = "done"
             /\ attempt' = attempt
    <3>1. Delivery(r)' = Delivery(r) /\ sentOn[Delivery(r)] \in served
      BY <2>7 DEF Delivery, CallReturns
    <3>2. out'[r] \in {"err", "empty"} => AllOver(r)
      BY <2>7, <3>1, OverWhenErr, OverWhenEmpty
    <3> QED BY <2>3, <2>7, <3>1, <3>2
  <2> QED BY <2>2, <2>4, <2>5, <2>6, <2>7
<1> QED BY <1>3, <1>4, <1>5, <1>7, <1>8, <1>9, Turns

\* What is told, sent, answered and returned, while no write has failed: the
\* strengthening AnswerMatchesBill needs.
AnswerInv == Sound => HeardInv /\ SentInv /\ AttemptInv /\ ErrInv /\ OutInv

\* All of it holds in every state: each part is preserved with the help of the
\* others, of the books and of the link.
THEOREM AnswerInvCorrect == RelaySpec => []AnswerInv
<1>1. RelayInit => AnswerInv
  <2> SUFFICES ASSUME RelayInit PROVE AnswerInv
    OBVIOUS
  <2>1. HeardInv
    BY HeardInit DEF RelayInit
  <2>2. /\ \A d \in Calls : pc[d] = "new" /\ reply[d] = "none" /\ sentOn[d] = NoSession
        /\ served = {} /\ dialed = 0 /\ \A l \in Links : link[l] = NoSession
        /\ \A r \in Relays : attempt[r] = 0 /\ rpc[r] = "idle" /\ out[r] = "none"
    BY DEF RelayInit, Init
  <2>3. SentInv
    BY <2>2 DEF SentInv
  <2>4. \A r \in Relays : Delivery(r) \in Calls
    <3> SUFFICES ASSUME NEW r \in Relays PROVE Delivery(r) \in Calls
      OBVIOUS
    <3>1. 1 \in 1..(MaxPolls + 1) /\ attempt[r] + 1 = 1
      BY <2>2, LinkBounds
    <3> QED BY <3>1, AttemptIs DEF Delivery
  <2>5. AttemptInv
    BY <2>2, <2>4 DEF AttemptInv
  <2>6. ErrInv /\ OutInv
    BY <2>2 DEF ErrInv, OutInv
  <2> QED BY <2>1, <2>3, <2>5, <2>6 DEF AnswerInv
<1>2. ASSUME RInv, RInv', LinkInv, LinkInv', OnceInv, AnswerInv,
             [RelayNext]_<<vars, relayVars>>
      PROVE  AnswerInv'
  <2> SUFFICES ASSUME Sound'
               PROVE  HeardInv' /\ SentInv' /\ AttemptInv' /\ ErrInv' /\ OutInv'
    BY DEF AnswerInv
  <2>1. [Next]_vars /\ now' = now
    BY <1>2, RelayStepsHarness
  <2>2. Sound
    BY <1>2, <2>1, FaultsGrow DEF RInv, IInv, Sound, TypeOK, LedgerTypeOK
  <2>3. HeardInv /\ SentInv /\ AttemptInv /\ ErrInv /\ OutInv
    BY <1>2, <2>2 DEF AnswerInv
  <2>4. HeardInv'
    BY <1>2, <2>1, <2>2, <2>3, HeardStep
  <2> QED BY <1>2, <2>2, <2>3, <2>4, SentStep, AttemptStep, ErrStep, OutStep
<1>3. RelaySpec => []RInv
  BY RelayImplementsHarness, RInvCorrect, PTL
<1>4. RInv /\ RInv' /\ LinkInv /\ LinkInv' /\ OnceInv /\ AnswerInv
      /\ [RelayNext]_<<vars, relayVars>> => AnswerInv'
  BY <1>2
<1> QED BY <1>1, <1>3, <1>4, LinkInvCorrect, OnceCorrect, PTL DEF RelaySpec

\* What an agent is told agrees with what its call cost, for any number of
\* calls, retries, polls, broken sessions and crashes, as long as every write
\* succeeds (passthrough, claimCall, completeCall).
THEOREM AnswerMatchesBillCorrect == RelaySpec => []AnswerMatchesBill
<1>1. ASSUME RInv, AuditInv, LinkInv, AnswerInv PROVE AnswerMatchesBill
  <2> SUFFICES ASSUME Sound, NEW r \in Relays
               PROVE  /\ out[r] = "ok" =>
                             \E i \in 1..(MaxPolls + 1) :
                                 LET d == Attempts[r][i]
                                 IN  result[d] = "ok" /\ (price[d] > 0 => BillOf(d) = "kept")
                      /\ out[r] \in {"err", "empty"} =>
                             \A i \in 1..(MaxPolls + 1) :
                                 BillOf(Attempts[r][i]) \notin {"kept", "held"}
    BY DEF AnswerMatchesBill, Sound
  <2>0. /\ TypeOK /\ ClaimInv /\ RelayTypeOK /\ RepliesOK /\ SentInv /\ OutInv /\ Books
        /\ Audited
    BY <1>1 DEF RInv, IInv, LinkInv, AnswerInv, HeardInv, AuditInv, Sound
  <2>1. ASSUME out[r] = "ok"
        PROVE  \E i \in 1..(MaxPolls + 1) :
                   LET d == Attempts[r][i]
                   IN  result[d] = "ok" /\ (price[d] > 0 => BillOf(d) = "kept")
    <3>1. PICK D \in Calls : /\ D = Delivery(r) /\ D = Attempts[r][attempt[r] + 1]
                             /\ attempt[r] + 1 \in 1..(MaxPolls + 1) /\ reply[D] = "ok"
      BY <2>0, <2>1, PresentAttempt DEF OutInv
    <3>2. PICK e \in Calls : KeyOf[e] = KeyOf[D] /\ pc[e] = "done" /\ result[e] = "ok"
      BY <2>0, <3>1 DEF RepliesOK, ReplyOK
    <3>3. Posted(e)
      BY <2>0, <3>2 DEF SentInv
    <3>4. PICK j \in 1..(MaxPolls + 1) : e = Attempts[r][j]
      BY <3>1, <3>2, <3>3, AttemptOfKey
    <3>5. ASSUME price[e] > 0 PROVE BillOf(e) = "kept"
      <4>1. e \in charged
        BY <2>0, <3>2, <3>5 DEF Audited
      <4>2. e \notin dead
        BY <2>0, <3>2 DEF ClaimInv
      <4>3. refunds[e] = 0
        BY <2>0, <3>2, <4>2 DEF Books, RefundInv
      <4> QED BY <3>2, <4>1, <4>2, <4>3 DEF BillOf, Owed
    <3> QED BY <3>2, <3>4, <3>5
  <2>2. ASSUME out[r] \in {"err", "empty"}, NEW i \in 1..(MaxPolls + 1)
        PROVE  BillOf(Attempts[r][i]) \notin {"kept", "held"}
    <3>1. PICK d \in Calls : d = Attempts[r][i] /\ Keyed(d) /\ Over(d)
      BY <2>0, <2>2, AttemptIs DEF OutInv, AllOver
    <3>2. BillOf(d) # "held"
      BY <1>1, <3>1, BillsOfCalls DEF Over
    <3>3. BillOf(d) # "kept"
      BY <3>1 DEF Over, BillOf
    <3> QED BY <3>1, <3>2, <3>3
  <2> QED BY <2>1, <2>2
<1>2. RelaySpec => []RInv /\ []AuditInv
  BY RelayImplementsHarness, RInvCorrect, AuditInvCorrect, PTL
<1>3. RInv /\ AuditInv /\ LinkInv /\ AnswerInv => AnswerMatchesBill
  BY <1>1
<1> QED BY <1>2, <1>3, LinkInvCorrect, AnswerInvCorrect, PTL
=============================================================================
