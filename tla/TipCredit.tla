------------------------------ MODULE TipCredit ------------------------------
(***************************************************************************)
(* The tip loop over the ledger and the journal of credited tips           *)
(* (server/tipjournal.go), in its two hosts: the serving bot               *)
(* (server/bot.go, RunBotHooked) and the directory (cmd/brmcpdir/main.go,  *)
(* Service.CreditTip).  The Bison Relay daemon is external: it keeps a tip *)
(* until it is acknowledged and streams every unacknowledged tip again on  *)
(* each new connection.                                                    *)
(***************************************************************************)
EXTENDS Ledger, Sequences, SequencesExt

CONSTANTS
    NumTips,        \* tips are numbered 1..NumTips by their sequence id
    Payer,          \* the peer each tip comes from
    Matoms,         \* the amount of each tip, in milliatoms
    MatomsPerAtom,  \* matomsPerAtom
    AllowedPeers,   \* peers whose tips earn tool credit at the serving bot
    Keep,           \* tipJournalKeep
    ChanCap,        \* capacity of tipChan
    MaxDrops,       \* bound: how often the connection is lost
    MaxCrashes      \* bound: how often the process crashes

TipIds == 1..NumTips

ASSUME TipAssumption ==
    /\ NumTips \in Nat /\ Keep \in Nat \ {0} /\ ChanCap \in Nat \ {0}
    /\ MatomsPerAtom \in Nat \ {0}
    /\ Payer \in [TipIds -> Peers]
    /\ Matoms \in [TipIds -> Nat]
    /\ AllowedPeers \subseteq Peers
    /\ MaxDrops \in Nat /\ MaxCrashes \in Nat

VARIABLES
    host,       \* whose loop it is: "bot" or "directory"
    arrived,    \* daemon: how many tips have been received
    unacked,    \* daemon: tips not acknowledged yet
    connected,  \* whether a bot is connected (backend.current() # nil)
    streamed,   \* daemon: tips streamed on this connection
    tipChan,    \* the kit's channel into the loop
    step,       \* where the loop is
    tip,        \* the tip it works on
    already,    \* whether the journal had seen it
    seqs,       \* TipJournal.seqs
    tipsFile,   \* what tips.json holds
    drops,      \* connections lost so far
    crashes,    \* crashes so far
    credits,    \* history: how often each tip was credited
    missed      \* history: tips whose credit or acknowledgement has failed
                \* since the last connection was made

relayVars == <<arrived, unacked, connected, streamed, drops>>
loopVars  == <<tipChan, step, tip, already>>
seenVars  == <<seqs, tipsFile>>
vars == <<host, ledgerVars, relayVars, loopVars, seenVars, crashes, credits, missed>>

\* Every value has its type; the journal keeps at most Keep ids (Record).
TipTypeOK ==
    /\ LedgerTypeOK
    /\ arrived \in 0..NumTips
    /\ unacked \subseteq TipIds
    /\ connected \in BOOLEAN
    /\ streamed \subseteq TipIds
    /\ tipChan \in Seq(TipIds) /\ Len(tipChan) <= ChanCap
    /\ step \in {"idle", "credit", "record", "ack"}
    /\ tip \in 0..NumTips
    /\ already \in BOOLEAN
    /\ seqs \in Seq(TipIds) /\ Len(seqs) <= Keep
    /\ tipsFile \in Seq(TipIds) /\ Len(tipsFile) <= Keep
    /\ drops \in 0..MaxDrops
    /\ crashes \in 0..MaxCrashes
    /\ credits \in [TipIds -> Nat]
    /\ missed \subseteq TipIds

Init ==
    /\ host \in {"bot", "directory"}
    /\ balances = [p \in Peers |-> 0]
    /\ ledgerFile = balances
    /\ diskFaults = 0
    /\ arrived = 0
    /\ unacked = {}
    /\ connected = TRUE
    /\ streamed = {}
    /\ tipChan = <<>>
    /\ step = "idle"
    /\ tip = 0
    /\ already = FALSE
    /\ seqs = <<>>
    /\ tipsFile = <<>>
    /\ drops = 0
    /\ crashes = 0
    /\ credits = [t \in TipIds |-> 0]
    /\ missed = {}

-----------------------------------------------------------------------------
(* The daemon and the kit.                                                 *)

TipArrives ==
    /\ arrived < NumTips
    /\ arrived' = arrived + 1
    /\ unacked' = unacked \cup {arrived + 1}
    /\ UNCHANGED <<ledgerVars, connected, streamed, drops, loopVars, seenVars,
                   crashes, credits, missed>>

\* The oldest tip not yet streamed on this connection enters the channel.
Stream ==
    /\ connected
    /\ Len(tipChan) < ChanCap
    /\ \E t \in unacked \ streamed :
        /\ \A u \in unacked \ streamed : t <= u
        /\ tipChan' = Append(tipChan, t)
        /\ streamed' = streamed \cup {t}
    /\ UNCHANGED <<ledgerVars, arrived, unacked, connected, drops, step, tip,
                   already, seenVars, crashes, credits, missed>>

\* bot.Run ends; the channel and the loop outlive the bot.
Disconnect ==
    /\ connected
    /\ drops < MaxDrops
    /\ drops' = drops + 1
    /\ connected' = FALSE
    /\ UNCHANGED <<ledgerVars, arrived, unacked, streamed, loopVars, seenVars,
                   crashes, credits, missed>>

\* kit.NewBot succeeds again.
Reconnect ==
    /\ ~connected
    /\ connected' = TRUE
    /\ streamed' = {} /\ missed' = {}
    /\ UNCHANGED <<ledgerVars, arrived, unacked, drops, loopVars, seenVars,
                   crashes, credits>>

-----------------------------------------------------------------------------
(* The journal of credited tips.                                           *)

Seen(t) == t \in Range(seqs)

\* Mutant: one entry too many is kept.
NewestAndOne(s) == IF Len(s) > Keep THEN SubSeq(s, Len(s) - Keep, Len(s)) ELSE s

\* The newest Keep entries.
Newest(s) == IF Len(s) > Keep THEN SubSeq(s, Len(s) - Keep + 1, Len(s)) ELSE s

\* Mutant: the id is remembered in memory only.
RecordInMemory(t, ok) ==
    /\ ok
    /\ seqs' = IF Seen(t) THEN seqs ELSE Newest(Append(seqs, t))
    /\ UNCHANGED <<tipsFile, ledgerVars>>

\* Record: nothing for a seen id; otherwise appended, trimmed and written.
Record(t, ok) ==
    IF Seen(t)
    THEN ok /\ UNCHANGED <<seenVars, ledgerVars>>
    ELSE /\ seqs' = Newest(Append(seqs, t))
         /\ tipsFile' = IF ok THEN seqs' ELSE tipsFile
         /\ Write(ok)
         /\ UNCHANGED <<balances, ledgerFile>>

-----------------------------------------------------------------------------
(* The loop.                                                               *)

Atoms(t) == Matoms[t] \div MatomsPerAtom

\* The directory takes everybody's tips.
Earning == IF host = "bot" THEN AllowedPeers ELSE Peers

\* Mutant: a redelivered tip is dropped without its acknowledgement.
ReceiveDropsSeen ==
    /\ step = "idle"
    /\ tipChan # <<>>
    /\ tip' = Head(tipChan)
    /\ tipChan' = Tail(tipChan)
    /\ already' = Seen(Head(tipChan))
    /\ step' = IF Seen(Head(tipChan)) THEN "idle"
               ELSE IF Payer[Head(tipChan)] \in Earning THEN "credit"
               ELSE "record"
    /\ UNCHANGED <<ledgerVars, relayVars, seenVars, crashes, credits, missed>>

\* A tip is taken from the channel and looked up in the journal.
Receive ==
    /\ step = "idle"
    /\ tipChan # <<>>
    /\ tip' = Head(tipChan)
    /\ tipChan' = Tail(tipChan)
    /\ already' = Seen(Head(tipChan))
    /\ step' = IF Payer[Head(tipChan)] \in Earning /\ ~Seen(Head(tipChan))
               THEN "credit" ELSE "record"
    /\ UNCHANGED <<ledgerVars, relayVars, seenVars, crashes, credits, missed>>

\* Mutant: the error of the credit is swallowed.
CreditTipSwallowingErr(ok) ==
    /\ step = "credit"
    /\ Credit(Payer[tip], Atoms(tip), ok)
    /\ credits' = [credits EXCEPT ![tip] = @ + 1]
    /\ step' = "record"
    /\ UNCHANGED <<relayVars, tipChan, tip, already, seenVars, crashes, missed>>

\* An earning peer's tip is credited.  On an error the bot's loop goes on to
\* the next tip, leaving this one unrecorded and unacknowledged; the
\* directory's CreditTip logs the error and its loop does not see it.
CreditTip(ok) ==
    /\ step = "credit"
    /\ Credit(Payer[tip], Atoms(tip), ok)
    /\ credits' = [credits EXCEPT ![tip] = @ + 1]
    /\ IF ok \/ host = "directory"
       THEN step' = "record" /\ UNCHANGED missed
       ELSE step' = "idle" /\ missed' = missed \cup {tip}
    /\ UNCHANGED <<relayVars, tipChan, tip, already, seenVars, crashes>>

\* A tip that was not seen is recorded; an error is only logged.
RecordTip(ok) ==
    /\ step = "record"
    /\ IF already THEN ok /\ UNCHANGED <<seenVars, ledgerVars>>
                  ELSE Record(tip, ok)
    /\ step' = "ack"
    /\ UNCHANGED <<relayVars, tipChan, tip, already, crashes, credits, missed>>

\* The acknowledgement, skipped while there is no bot.  It may fail while there
\* is one: the error is only logged, and the tip stays with the daemon.
AckTip(ok) ==
    /\ step = "ack"
    /\ unacked' = IF connected /\ ok THEN unacked \ {tip} ELSE unacked
    /\ missed' = IF connected /\ ~ok THEN missed \cup {tip} ELSE missed
    /\ step' = "idle"
    /\ UNCHANGED <<ledgerVars, arrived, connected, streamed, drops, tipChan, tip,
                   already, seenVars, crashes, credits>>

\* The process dies and starts again from its files.
Crash ==
    /\ crashes < MaxCrashes
    /\ crashes' = crashes + 1
    /\ OpenLedger
    /\ seqs' = tipsFile
    /\ connected' = FALSE
    /\ tipChan' = <<>>
    /\ step' = "idle"
    /\ UNCHANGED <<arrived, unacked, streamed, drops, tip, already, tipsFile,
                   credits, missed>>

LoopStep ==
    \/ Receive
    \/ \E ok \in BOOLEAN : CreditTip(ok) \/ RecordTip(ok) \/ AckTip(ok)

Next ==
    /\ TipArrives \/ Stream \/ Disconnect \/ Reconnect \/ LoopStep \/ Crash
    /\ UNCHANGED host

Spec == Init /\ [][Next]_vars

\* The loop keeps running, the kit streams what it has and RunBotHooked
\* retries the connection every three seconds until it succeeds.
FairSpec ==
    /\ Spec
    /\ WF_vars(LoopStep /\ UNCHANGED host)
    /\ WF_vars(Stream /\ UNCHANGED host)
    /\ WF_vars(Reconnect /\ UNCHANGED host)

-----------------------------------------------------------------------------
(* Properties.                                                             *)

\* An acknowledged tip of an earning peer is in the ledger FILE, for at least
\* its whole atoms: no crash and no failing write between the credit and the
\* acknowledgement loses it.  The directory acknowledges a tip its ledger could
\* not store, so there, but only there, each failed write may cost one tip.
AckedIsCredited ==
    \E lost \in SUBSET (1..arrived) :
        /\ Cardinality(lost) <= IF host = "bot" THEN 0 ELSE diskFaults
        /\ \A p \in Earning :
              LET mine == {t \in 1..arrived : Payer[t] = p /\ t \notin unacked}
              IN  ledgerFile[p]
                  >= SumFunctionOnSet([t \in TipIds |-> Atoms(t)], mine \ lost)

\* Each crash and each failed write makes at most one tip of all be credited
\* once more, as long as the journal has room for all ids so far: a crash hits
\* the one window between the credit and the record, a failed write leaves the
\* ledger ahead of its file or one id in memory only.
OverCreditBounded ==
    arrived <= Keep =>
        SumFunctionOnSet([t \in TipIds |-> credits[t] - 1],
                         {t \in TipIds : credits[t] > 1}) <= crashes + diskFaults

\* Every tip the daemon received is acknowledged in the end, through lost
\* connections and crashes, except that a tip whose credit the bot could not
\* write, or whose acknowledgement failed on a live connection, waits for the
\* next connection, which nothing forces (tipLoop goes on to the next tip); once
\* there is one, the daemon streams it again and the promise holds anew.
EveryTipAcked ==
    \A t \in TipIds : t \in unacked ~> (t \notin unacked \/ t \in missed)
=============================================================================
