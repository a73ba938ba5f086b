------------------------------ MODULE Directory ------------------------------
(***************************************************************************)
(* The life of one provider at a directory (directory/pipeline.go,         *)
(* directory/service.go, directory/client.go and the admin operations):    *)
(* registration, funding, crawl, paid test, review, renewal, expiry and    *)
(* takedown.  Entries of different providers share the index file only, so *)
(* one is modelled (the others appear as WriteIndex).  A mutate of the     *)
(* index is one step; get and mutate are two.                              *)
(***************************************************************************)
EXTENDS Integers, FiniteSets

CONSTANTS
    Fee, Budget,        \* ListingFeeAtoms; the test budget of every registration
    TipAtoms,           \* what one tip of the provider brings
    Quotes,             \* amounts the tested tool may ask for
    Expiry,             \* how long a listing lives
    MaxRegs,            \* bound: registrations and spot checks
    MaxTips,            \* bound: tips received
    MaxTime,            \* bound: last value of the clock
    MaxDiskFaults,      \* bound: failed writes of the index
    MaxCrashes,         \* bound: restarts of the service
    Nil                 \* a nil pointer

ASSUME DirectoryAssumption ==
    /\ {Budget, Expiry} \subseteq Nat \ {0}
    /\ {Fee, TipAtoms, MaxRegs, MaxTips, MaxTime, MaxDiskFaults, MaxCrashes} \subseteq Nat
    /\ Quotes \subseteq Nat \ {0}
    /\ Nil \notin Nat

VARIABLES
    entry,      \* the provider's index entry in memory: live, reg, flag
    indexFile,  \* ... and on disk
    balance,    \* its balance in the directory's ledger
    poke,       \* somebody is about to call pokeFunding
    pipe,       \* the pipeline goroutine; it is in flight unless "idle"
    admin,      \* what an admin operation does next
    sweeper,    \* what the sweeper does next
    now, regs, keys, tips, diskFaults, crashes,
    hist        \* history: see Init

vars == <<entry, indexFile, balance, poke, pipe, admin, sweeper,
          now, regs, keys, tips, diskFaults, crashes, hist>>

-----------------------------------------------------------------------------
NoEntry == [live |-> Nil, reg |-> Nil, flag |-> FALSE]
NoPipe  == [pc |-> "idle", key |-> 0, reg |-> Nil, paid |-> 0, ok |-> FALSE]

Init ==
    /\ entry = NoEntry /\ indexFile = NoEntry
    /\ balance = 0
    /\ poke = FALSE
    /\ pipe = NoPipe
    /\ admin = "idle" /\ sweeper = "idle"
    /\ now = 0 /\ regs = 0 /\ keys = 0 /\ tips = 0 /\ diskFaults = 0 /\ crashes = 0
    /\ hist = [fees      |-> [i \in 1..MaxRegs |-> 0],  \* fees taken for each
               spent     |-> [i \in 1..MaxRegs |-> 0],  \* test money taken for each
               passed    |-> {},        \* registrations whose own test passed
               overtaken |-> FALSE,     \* the entry changed under a pipeline
               calls     |-> [i \in 1..MaxRegs |-> {}]] \* call keys of its test

\* jsonStore.mutate: memory is updated first; a failed write is an error.
Store(e, ok) ==
    /\ entry' = e
    /\ IF ok THEN indexFile' = e /\ UNCHANGED diskFaults
       ELSE /\ diskFaults < MaxDiskFaults
            /\ diskFaults' = diskFaults + 1
            /\ UNCHANGED indexFile

Keep == UNCHANGED <<entry, indexFile, diskFaults>>

WithReg(r) == [entry EXCEPT !.reg = r]
InState(states) == entry.reg # Nil /\ entry.reg.state \in states

\* A registration by content id, before it is verified.
Registration(id, state, fee, renewal) ==
    [id |-> id, state |-> state, fee |-> fee, renewal |-> renewal,
     key |-> 0, paid |-> 0, outcome |-> "none"]

Inflight == pipe.pc # "idle"

\* spawnPipeline does nothing when a pipeline is in flight.
Spawned == IF Inflight THEN pipe ELSE [NoPipe EXCEPT !.pc = "start"]

-----------------------------------------------------------------------------
(* The provider: register and tip.                                         *)

Busy == InState({"crawling", "testing"})

handleRegister ==
    /\ regs < MaxRegs
    /\ ~Busy
    /\ regs' = regs + 1
    /\ \E ok \in BOOLEAN :
          /\ Store(WithReg(Registration(regs', "awaiting_funding", Fee, entry.live # Nil)), ok)
          /\ poke' = (poke \/ ok)
    /\ hist' = [hist EXCEPT !.overtaken = @ \/ Inflight]
    /\ UNCHANGED <<balance, pipe, admin, sweeper, now, keys, tips, crashes>>

\* A register refused as busy and a mutate of another provider's entry change
\* nothing here, but write the whole index.
WriteIndex ==
    /\ \E ok \in BOOLEAN : Store(entry, ok)
    /\ UNCHANGED hist
    /\ UNCHANGED <<balance, poke, pipe, admin, sweeper, now, regs, keys, tips, crashes>>

CreditTip ==
    /\ tips < MaxTips
    /\ tips' = tips + 1
    /\ balance' = balance + TipAtoms
    /\ poke' = TRUE
    /\ Keep /\ UNCHANGED hist
    /\ UNCHANGED <<pipe, admin, sweeper, now, regs, keys, crashes>>

Funded == balance >= entry.reg.fee + Budget

\* Mutant: the registration still awaits funding after its fee was taken.
pokeKeepingState ==
    /\ poke
    /\ poke' = FALSE
    /\ InState({"awaiting_funding"}) /\ Funded
    /\ balance' = balance - entry.reg.fee
    /\ hist' = [hist EXCEPT !.fees[entry.reg.id] = @ + 1]
    /\ pipe' = Spawned
    /\ Keep
    /\ UNCHANGED <<admin, sweeper, now, regs, keys, tips, crashes>>

\* The fee is debited inside the mutate that moves the registration on; the
\* pipeline starts even when the index could not be written.
pokeFunding ==
    /\ poke
    /\ poke' = FALSE
    /\ IF InState({"awaiting_funding"}) /\ Funded
       THEN /\ balance' = balance - entry.reg.fee
            /\ \E ok \in BOOLEAN : Store([entry EXCEPT !.reg.state = "crawling"], ok)
            /\ hist' = [hist EXCEPT !.fees[entry.reg.id] = @ + 1]
            /\ pipe' = Spawned
       ELSE Keep /\ UNCHANGED hist /\ UNCHANGED <<balance, pipe>>
    /\ UNCHANGED <<admin, sweeper, now, regs, keys, tips, crashes>>

-----------------------------------------------------------------------------
(* runPipeline.                                                            *)

AtPipe(pc) == pipe.pc = pc
PipeGoto(pc) == pipe' = [pipe EXCEPT !.pc = pc]
NotPipe == UNCHANGED <<poke, admin, sweeper, now, regs, keys, tips, crashes>>

PipeStart ==
    /\ AtPipe("start")
    /\ pipe' = [pipe EXCEPT !.pc = IF entry.reg = Nil THEN "end"
                                   ELSE IF entry.reg.state = "crawling" THEN "crawl"
                                   ELSE "get",
                            !.key = IF entry.reg = Nil THEN 0 ELSE entry.reg.key]
    /\ Keep /\ UNCHANGED hist /\ NotPipe
    /\ UNCHANGED balance

\* Keys are never used twice.
newCallKey == keys + 1

TestKey == IF pipe.key = 0 THEN newCallKey ELSE pipe.key

\* Mutant: the test goes on although its key was not stored.
CrawledUnchecked ==
    /\ AtPipe("crawl")
    /\ IF entry.reg = Nil THEN Keep /\ PipeGoto("end")
       ELSE /\ \E ok \in BOOLEAN :
                  Store([entry EXCEPT !.reg.state = "testing", !.reg.key = TestKey], ok)
            /\ PipeGoto("get")
    /\ keys' = newCallKey
    /\ UNCHANGED <<hist, balance, poke, admin, sweeper, now, regs, tips, crashes>>

\* The catalog is stored with the call key of the test to come.
Crawled ==
    /\ AtPipe("crawl")
    /\ IF entry.reg = Nil THEN Keep /\ PipeGoto("end")
       ELSE \E ok \in BOOLEAN :
               /\ Store([entry EXCEPT !.reg.state = "testing", !.reg.key = TestKey], ok)
               /\ PipeGoto(IF ok THEN "get" ELSE "end")
    /\ keys' = newCallKey
    /\ UNCHANGED <<hist, balance, poke, admin, sweeper, now, regs, tips, crashes>>

\* park.
CrawlFailed ==
    /\ AtPipe("crawl")
    /\ PipeGoto("end")
    /\ IF entry.reg = Nil THEN Keep
       ELSE \E ok \in BOOLEAN :
               Store([entry EXCEPT !.reg.state = "pending_review", !.reg.outcome = "failed"], ok)
    /\ UNCHANGED hist /\ NotPipe
    /\ UNCHANGED balance

PipeGet ==
    /\ AtPipe("get")
    /\ pipe' = IF InState({"testing"}) THEN [pipe EXCEPT !.pc = "call", !.reg = entry.reg]
               ELSE [pipe EXCEPT !.pc = "end"]
    /\ hist' = IF InState({"testing"})
               THEN [hist EXCEPT !.calls[entry.reg.id] = @ \cup {entry.reg.key}] ELSE hist
    /\ Keep /\ NotPipe
    /\ UNCHANGED balance

Remaining == IF Budget < pipe.reg.paid THEN 0 ELSE Budget - pipe.reg.paid

\* Mutant: any quote the balance covers is paid.
WithinBalance(q) == q <= balance

WithinRemaining(q) == q <= Remaining

\* Mutant: what was escrowed at funding is taken to be there still.
CoveredByBudget(q) == q <= Budget

\* The escrow debit is refused on a short balance.
Covered(q) == q <= balance

\* paidCall: the tool asks for q; it is debited from the provider's balance
\* before the tip is sent.
TestDebit(q) ==
    /\ AtPipe("call")
    /\ WithinRemaining(q) /\ Covered(q)
    /\ balance' = balance - q
    /\ pipe' = [pipe EXCEPT !.pc = "pay", !.paid = q]
    /\ hist' = [hist EXCEPT !.spent[pipe.reg.id] = @ + q]
    /\ Keep /\ NotPipe

\* The tip goes through and the call is issued again; fails, and the debit
\* is returned; or its outcome is unknown and the debit stays.
TestPay ==
    /\ AtPipe("pay")
    /\ \/ PipeGoto("again") /\ UNCHANGED hist /\ UNCHANGED balance
       \/ /\ pipe' = [pipe EXCEPT !.pc = "judge", !.ok = FALSE, !.paid = 0]
          /\ balance' = balance + pipe.paid
          /\ hist' = [hist EXCEPT !.spent[pipe.reg.id] = @ - pipe.paid]
       \/ /\ pipe' = [pipe EXCEPT !.pc = "judge", !.ok = FALSE, !.paid = 0]
          /\ UNCHANGED hist /\ UNCHANGED balance
    /\ Keep /\ NotPipe

\* The call ends: it is executed, or fails for any reason (also before a
\* payment: transport, a quote over the budget, an empty balance).
TestEnds(ok) ==
    /\ AtPipe("call") \/ AtPipe("again")
    /\ pipe' = [pipe EXCEPT !.pc = "judge", !.ok = ok]
    /\ hist' = [hist EXCEPT !.passed = IF ok THEN @ \cup {pipe.reg.id} ELSE @]
    /\ Keep /\ NotPipe
    /\ UNCHANGED balance

Verdict == IF pipe.ok THEN "ok" ELSE "failed"

\* The outcome goes to whatever registration the entry has by now; a passing
\* renewal goes on to promote, the rest is parked for review.
Judged ==
    /\ AtPipe("judge")
    /\ LET renew == Verdict = "ok" /\ entry.reg.renewal
           r == [entry.reg EXCEPT !.paid = pipe.reg.paid + pipe.paid, !.outcome = Verdict,
                                  !.state = IF renew THEN @ ELSE "pending_review"]
       IN  IF entry.reg = Nil THEN Keep /\ PipeGoto("end")
           ELSE \E ok \in BOOLEAN :
                   /\ Store(WithReg(r), ok)
                   /\ PipeGoto(IF ok /\ renew THEN "promote" ELSE "end")
    /\ UNCHANGED hist /\ NotPipe
    /\ UNCHANGED balance

\* Mutant: the test's outcome is not looked at.
AnyRegistration == entry.reg # Nil

\* promote: refused without a registration whose test passed.
Promoted == entry.reg # Nil /\ entry.reg.outcome = "ok"

promote ==
    IF Promoted
    THEN \E ok \in BOOLEAN :
             Store([live |-> [id |-> entry.reg.id, expires |-> now + Expiry],
                    reg |-> Nil, flag |-> FALSE], ok)
    ELSE Keep

PipePromote ==
    /\ AtPipe("promote")
    /\ promote
    /\ PipeGoto("end")
    /\ UNCHANGED hist /\ NotPipe
    /\ UNCHANGED balance

\* The goroutine leaves inflight.
PipeEnd ==
    /\ AtPipe("end")
    /\ pipe' = NoPipe
    /\ Keep /\ UNCHANGED hist /\ NotPipe
    /\ UNCHANGED balance

-----------------------------------------------------------------------------
(* Admins.                                                                 *)

Admin == UNCHANGED <<balance, sweeper, now, tips, crashes>>

\* approveRegistration looks at the registration, then promotes.
Approve ==
    /\ admin = "idle"
    /\ InState({"pending_review"})
    /\ admin' = "promote"
    /\ Keep /\ UNCHANGED hist /\ Admin
    /\ UNCHANGED <<poke, pipe, regs, keys>>

ApprovePromote ==
    /\ admin = "promote"
    /\ promote /\ UNCHANGED hist
    /\ admin' = "idle"
    /\ Admin
    /\ UNCHANGED <<poke, pipe, regs, keys>>

rejectRegistration ==
    /\ admin = "idle"
    /\ entry.reg # Nil
    /\ \E ok \in BOOLEAN, f \in {entry.flag, TRUE} :
          Store([entry EXCEPT !.reg = Nil, !.flag = f], ok)
    /\ hist' = [hist EXCEPT !.overtaken = @ \/ Inflight]
    /\ Admin
    /\ UNCHANGED <<admin, poke, pipe, regs, keys>>

\* unlist takes the listing down, then reads the entry...
Unlist ==
    /\ admin = "idle"
    /\ entry.live # Nil
    /\ \E ok \in BOOLEAN :
          /\ Store([entry EXCEPT !.live = Nil], ok)
          /\ admin' = IF ok THEN "get" ELSE "idle"
    /\ UNCHANGED hist
    /\ Admin
    /\ UNCHANGED <<poke, pipe, regs, keys>>

UnlistGet ==
    /\ admin = "get"
    /\ admin' = IF entry.reg = Nil /\ ~entry.flag THEN "delete" ELSE "idle"
    /\ Keep /\ UNCHANGED hist /\ Admin
    /\ UNCHANGED <<poke, pipe, regs, keys>>

\* ... and deletes it, whatever it holds by then.
UnlistDelete ==
    /\ admin = "delete"
    /\ admin' = "idle"
    /\ \E ok \in BOOLEAN : Store(NoEntry, ok)
    /\ hist' = [hist EXCEPT !.overtaken = @ \/ Inflight]
    /\ Admin
    /\ UNCHANGED <<poke, pipe, regs, keys>>

\* flag sets the note, or clears it with an empty one.
Flag ==
    /\ admin = "idle"
    /\ \E ok, noted \in BOOLEAN : Store([entry EXCEPT !.flag = noted], ok)
    /\ UNCHANGED hist /\ Admin
    /\ UNCHANGED <<admin, poke, pipe, regs, keys>>

\* spotCheck tests a listing again on the provider's residual balance.
spotCheck ==
    /\ admin = "idle" /\ regs < MaxRegs
    /\ entry.live # Nil /\ entry.reg = Nil /\ balance >= Budget
    /\ regs' = regs + 1
    /\ \E ok \in BOOLEAN :
          /\ Store(WithReg([Registration(regs', "testing", 0, TRUE) EXCEPT !.key = newCallKey]), ok)
          /\ pipe' = IF ok THEN Spawned ELSE pipe
    /\ keys' = newCallKey
    /\ hist' = [hist EXCEPT !.overtaken = @ \/ Inflight]
    /\ Admin
    /\ UNCHANGED <<admin, poke>>

-----------------------------------------------------------------------------
(* The sweeper, restarts and time.                                         *)

Swept == UNCHANGED <<balance, pipe, admin, now, regs, keys, tips, crashes>>

\* expire: a listing with a registration is taken out of the entry...
Expired == entry.live # Nil /\ entry.live.expires <= now

SweepExpire ==
    /\ sweeper = "idle" /\ Expired
    /\ IF entry.reg = Nil THEN Keep /\ sweeper' = "delete"
       ELSE /\ \E ok \in BOOLEAN : Store([entry EXCEPT !.live = Nil], ok)
            /\ UNCHANGED sweeper
    /\ UNCHANGED hist /\ Swept
    /\ UNCHANGED poke

\* ... and an entry that was nothing else is deleted, whatever it is by then.
SweepDelete ==
    /\ sweeper = "delete"
    /\ sweeper' = "idle"
    /\ \E ok \in BOOLEAN : Store(NoEntry, ok)
    /\ hist' = [hist EXCEPT !.overtaken = @ \/ Inflight]
    /\ Swept
    /\ UNCHANGED poke

\* recrawlListing: the catalog is fetched, which may fail, and goes into the
\* listing that is there by then, if any.
Recrawled ==
    \/ Keep
    \/ entry.live # Nil /\ \E ok \in BOOLEAN : Store(entry, ok)

SweepRecrawl ==
    /\ sweeper = "idle" /\ entry.live # Nil /\ ~Expired
    /\ sweeper' = "recrawl"
    /\ Keep /\ UNCHANGED hist /\ Swept
    /\ UNCHANGED poke

SweepRecrawled ==
    /\ sweeper = "recrawl"
    /\ sweeper' = "idle"
    /\ Recrawled
    /\ UNCHANGED hist /\ Swept
    /\ UNCHANGED poke

SweepFunding ==
    /\ sweeper = "idle" /\ ~Expired
    /\ InState({"awaiting_funding"}) /\ ~poke
    /\ poke' = TRUE
    /\ Keep /\ UNCHANGED hist /\ Swept
    /\ UNCHANGED sweeper

\* A restart reads the index and resumes what Start finds there; a debit of
\* the fee may have reached the ledger without the index (torn).
Restart(torn) ==
    /\ crashes < MaxCrashes
    /\ crashes' = crashes + 1
    /\ torn => poke /\ InState({"awaiting_funding"}) /\ Funded
    /\ balance' = IF torn THEN balance - entry.reg.fee ELSE balance
    /\ hist' = IF torn THEN [hist EXCEPT !.fees[entry.reg.id] = @ + 1] ELSE hist
    /\ entry' = indexFile
    /\ poke' = (indexFile.reg # Nil /\ indexFile.reg.state = "awaiting_funding")
    /\ pipe' = IF indexFile.reg # Nil /\ indexFile.reg.state \in {"crawling", "testing"}
               THEN [NoPipe EXCEPT !.pc = "start"] ELSE NoPipe
    /\ admin' = "idle" /\ sweeper' = "idle"
    /\ UNCHANGED <<indexFile, now, regs, keys, tips, diskFaults>>

Tick ==
    /\ now < MaxTime
    /\ now' = now + 1
    /\ Keep /\ UNCHANGED hist
    /\ UNCHANGED <<balance, poke, pipe, admin, sweeper, regs, keys, tips, crashes>>

-----------------------------------------------------------------------------
PipeStep ==
    \/ PipeStart \/ Crawled \/ CrawlFailed \/ PipeGet
    \/ (\E q \in Quotes : TestDebit(q)) \/ TestPay \/ (\E ok \in BOOLEAN : TestEnds(ok))
    \/ Judged \/ PipePromote \/ PipeEnd

AdminStep ==
    \/ Approve \/ ApprovePromote \/ rejectRegistration
    \/ Unlist \/ UnlistGet \/ UnlistDelete \/ Flag \/ spotCheck

Next ==
    \/ handleRegister \/ WriteIndex \/ CreditTip \/ pokeFunding
    \/ PipeStep \/ AdminStep
    \/ SweepExpire \/ SweepDelete \/ SweepRecrawl \/ SweepRecrawled \/ SweepFunding
    \/ (\E torn \in BOOLEAN : Restart(torn)) \/ Tick

Spec == Init /\ [][Next]_vars

\* Dials, calls and payments have deadlines, so a pipeline in flight goes on;
\* so does a pokeFunding somebody has called.
FairSpec == Spec /\ WF_vars(PipeStep) /\ WF_vars(pokeFunding)

-----------------------------------------------------------------------------
(* Properties.                                                             *)

\* Every value has its type: no escrow debit, fee or refund makes the balance
\* negative, and nothing is tested without a call key (runTest, pokeFunding).
DirectoryTypeOK ==
    /\ balance \in Nat
    /\ entry.flag \in BOOLEAN
    /\ entry.reg # Nil =>
          /\ entry.reg.state \in {"awaiting_funding", "crawling", "testing", "pending_review"}
          /\ entry.reg.id \in 1..regs
          /\ entry.reg.state = "testing" => entry.reg.key # 0
    /\ entry.live # Nil => entry.live.id \in 1..regs
    /\ AtPipe("call") \/ AtPipe("pay") \/ AtPipe("again") \/ AtPipe("judge") => pipe.reg # Nil

\* What is listed passed its own paid test, through restarts, renewals, spot
\* checks and lost writes, unless the entry was rejected, replaced or deleted
\* while a pipeline worked on it.
ListedUnlessOvertaken ==
    entry.live # Nil => entry.live.id \in hist.passed \/ hist.overtaken

FeeBounded    == \A i \in 1..MaxRegs : hist.fees[i] <= 1 + crashes
BudgetBounded == \A i \in 1..MaxRegs : hist.spent[i] <= Budget * (1 + crashes)

\* A registration pays its fee once, and its test never costs its provider
\* more than the budget; each crash may hide one fee and one test payment,
\* which are then paid again.
ProviderPaysOnce == FeeBounded /\ BudgetBounded

\* The test of a registration is issued under one call key, also when it is
\* issued again after a crash or a lost write: the provider's journal can
\* charge it once.
OneKeyPerTest == \A i \in 1..MaxRegs : Cardinality(hist.calls[i]) <= 1

\* docs/DIRECTORY.md: "Verification starts when the balance covers feeAtoms +
\* testBudgetAtoms": a funded registration is eventually crawled.
VerificationStarts == InState({"crawling"}) ~> ~InState({"crawling"})
=============================================================================
