--------------------------- MODULE DirectoryProofs ---------------------------
(***************************************************************************)
(* The life of a provider at the directory, for any fee, budget, quotes,   *)
(* number of registrations, lost writes and restarts.                      *)
(***************************************************************************)
EXTENDS Directory, FiniteSetTheorems, TLAPS

States  == {"awaiting_funding", "crawling", "testing", "pending_review"}
Early   == {"awaiting_funding", "crawling"}
Reg     == [id : Nat, state : States, fee : Nat, renewal : BOOLEAN, key : Nat, paid : Nat,
            outcome : {"none", "ok", "failed"}]
Listing == [id : Nat, expires : Nat]
Entry   == [live : {Nil} \cup Listing, reg : {Nil} \cup Reg, flag : BOOLEAN]

\* The pipeline after it has read the registration it tests.
Testing == {"call", "pay", "again", "judge"}
Pipe == [pc : {"idle", "start", "crawl", "get", "promote", "end"} \cup Testing,
         key : Nat, reg : {Nil} \cup Reg, paid : Nat, ok : BOOLEAN]

Ids  == 1..MaxRegs
Hist == [fees : [Ids -> Nat], spent : [Ids -> Int], passed : SUBSET Nat,
         overtaken : BOOLEAN, calls : [Ids -> SUBSET Nat]]

ScalarType ==
    /\ regs \in 0..MaxRegs /\ {balance, now, keys, crashes} \subseteq Nat
    /\ hist \in Hist /\ pipe \in Pipe

-----------------------------------------------------------------------------
(* What the entry e may hold, in memory or on disk, after r registrations  *)
(* with the history h.                                                     *)

ListingSound(e, r, h) ==
    e.live # Nil => /\ e.live.id \in 1..r
                    /\ e.live.id \in h.passed \/ h.overtaken

RegSound(g, r, h) ==
    /\ g.id \in 1..r
    /\ g.state = "testing" => g.key # 0
    /\ g.outcome = "ok" => g.id \in h.passed \/ h.overtaken
    \* The calls of its test carried its key, and none was made before the
    \* key was stored.
    /\ h.calls[g.id] \subseteq {g.key}
    /\ g.state \in Early => h.calls[g.id] = {}

Sound(e, r, h) ==
    /\ e \in Entry
    /\ ListingSound(e, r, h)
    /\ e.reg # Nil => RegSound(e.reg, r, h)

-----------------------------------------------------------------------------
(* What the pipeline is entitled to.                                       *)

\* No test money of this registration was taken since the last restart.
Untested(i) == hist.spent[i] <= Budget * crashes

\* What the pipeline tests is the entry's registration, or was overtaken; a
\* verdict is its test's; a debit is the first since the last restart.
PipeSound ==
    /\ pipe.pc \in Testing => /\ pipe.reg # Nil
                              /\ pipe.reg.id \in 1..regs
    /\ pipe.pc \in Testing /\ entry.reg # Nil
           => entry.reg.id = pipe.reg.id \/ hist.overtaken
    /\ pipe.pc = "judge" /\ pipe.ok => pipe.reg.id \in hist.passed
    /\ pipe.pc = "call" => Untested(pipe.reg.id)
    /\ pipe.pc = "call" /\ InState({"awaiting_funding"}) => entry.reg.id # pipe.reg.id
    /\ pipe.pc \in {"start", "crawl", "get"} /\ entry.reg # Nil => Untested(entry.reg.id)
    /\ pipe.pc = "crawl" /\ entry.reg # Nil => hist.calls[entry.reg.id] = {}

\* The key a pipeline is about to call with is the one a restart would find.
KeyStored ==
    pipe.pc \in {"start", "get"} /\ InState({"testing"}) /\ indexFile.reg # Nil
        /\ indexFile.reg.id = entry.reg.id
    => indexFile.reg.key = entry.reg.key /\ indexFile.reg.state \notin Early

\* A registration that awaits funding has paid and spent nothing since the
\* last restart, one that was not made yet nothing at all.
MoneySound ==
    /\ \A i \in Ids : /\ hist.fees[i] <= crashes + 1
                      /\ hist.spent[i] <= Budget * crashes + Budget
                      /\ i > regs => /\ hist.fees[i] = 0 /\ hist.spent[i] = 0
                                     /\ hist.calls[i] = {}
    /\ InState({"awaiting_funding"}) => /\ hist.fees[entry.reg.id] <= crashes
                                        /\ Untested(entry.reg.id)

DirectoryInv ==
    /\ ScalarType
    /\ Sound(entry, regs, hist) /\ Sound(indexFile, regs, hist)
    /\ PipeSound /\ KeyStored /\ MoneySound

-----------------------------------------------------------------------------
(* What the pieces of a step do.                                           *)

LEMMA Numbers ==
    /\ Budget \in Nat /\ Budget # 0 /\ Expiry \in Nat
    /\ Fee \in Nat /\ TipAtoms \in Nat /\ MaxRegs \in Nat
    /\ \A q \in Quotes : q \in Nat /\ q # 0
BY DirectoryAssumption

\* One more restart is worth one more budget.
LEMMA BudgetGrows ==
    ASSUME NEW c \in Nat
    PROVE  /\ Budget * c \in Nat
           /\ Budget * (c + 1) = Budget * c + Budget
BY Numbers

\* What was sound stays sound as registrations pass and pipelines are overtaken.
LEMMA SoundGrows ==
    ASSUME NEW e, NEW r \in Nat, NEW r2 \in Nat, r <= r2, NEW h, NEW h2, Sound(e, r, h),
           h.passed \subseteq h2.passed, h.overtaken => h2.overtaken, h2.calls = h.calls
    PROVE  Sound(e, r2, h2)
BY DEF Sound, ListingSound, RegSound

\* jsonStore.mutate puts a sound entry in memory, and on disk when it can.
LEMMA StoreEffect ==
    ASSUME NEW e, NEW ok \in BOOLEAN, Store(e, ok), NEW r, NEW h,
           Sound(e, r, h), Sound(indexFile, r, h)
    PROVE  /\ entry' = e /\ indexFile' \in {e, indexFile} /\ (ok => indexFile' = e)
           /\ Sound(entry', r, h) /\ Sound(indexFile', r, h)
BY DEF Store

\* A change of the entry's registration, of its listing or of its note.
LEMMA EntryEffect ==
    ASSUME entry \in Entry
    PROVE  /\ entry.reg # Nil => entry.reg \in Reg
           /\ entry.live # Nil => entry.live \in Listing
           /\ entry.flag \in BOOLEAN
           /\ \A g \in {Nil} \cup Reg :
                 /\ WithReg(g) \in Entry
                 /\ WithReg(g).reg = g /\ WithReg(g).live = entry.live
           /\ \A f \in BOOLEAN :
                 /\ [entry EXCEPT !.flag = f] \in Entry
                 /\ [entry EXCEPT !.flag = f].reg = entry.reg
                 /\ [entry EXCEPT !.flag = f].live = entry.live
                 /\ [entry EXCEPT !.reg = Nil, !.flag = f] \in Entry
                 /\ [entry EXCEPT !.reg = Nil, !.flag = f].reg = Nil
                 /\ [entry EXCEPT !.reg = Nil, !.flag = f].live = entry.live
           /\ [entry EXCEPT !.live = Nil] \in Entry
           /\ [entry EXCEPT !.live = Nil].reg = entry.reg
           /\ [entry EXCEPT !.live = Nil].live = Nil
BY DEF Entry, WithReg

LEMMA NoEntrySound ==
    ASSUME NEW r, NEW h
    PROVE  Sound(NoEntry, r, h) /\ NoEntry.reg = Nil
BY DEF Sound, NoEntry, Entry, ListingSound

\* The history notes that a pipeline was overtaken.
LEMMA Overtaken ==
    ASSUME hist \in Hist, hist' = [hist EXCEPT !.overtaken = @ \/ Inflight]
    PROVE  /\ hist' \in Hist
           /\ hist'.fees = hist.fees /\ hist'.spent = hist.spent /\ hist'.calls = hist.calls
           /\ hist'.passed = hist.passed
           /\ (hist.overtaken \/ Inflight) => hist'.overtaken
<1> DEFINE b == hist.overtaken \/ Inflight
<1>1. hist.overtaken \in BOOLEAN BY DEF Hist
<1>2. b \in BOOLEAN BY <1>1
<1>3. hist' = [hist EXCEPT !.overtaken = b] OBVIOUS
<1>4. b => (b = TRUE) OBVIOUS
<1> HIDE DEF b
<1>5. hist'.overtaken = b BY <1>3 DEF Hist
<1>6. /\ hist' \in Hist
      /\ hist'.fees = hist.fees /\ hist'.spent = hist.spent /\ hist'.calls = hist.calls
      /\ hist'.passed = hist.passed
  BY <1>2, <1>3 DEF Hist
<1> QED BY <1>5, <1>6 DEF b

-----------------------------------------------------------------------------
(* The ways a step touches the registration.                               *)

\* It leaves the registration alone: notes, takedowns, writes of the index.
LEMMA RegStays ==
    ASSUME DirectoryInv, ScalarType', UNCHANGED <<pipe, regs, crashes, hist>>,
           entry'.reg = entry.reg, indexFile'.reg \in {indexFile.reg, entry.reg},
           Sound(entry', regs, hist), Sound(indexFile', regs, hist)
    PROVE  DirectoryInv'
<1> USE DEF DirectoryInv
<1>1. PipeSound' BY DEF PipeSound, Untested, InState
<1>2. KeyStored' BY DEF KeyStored, InState, Early
<1>3. MoneySound' BY DEF MoneySound, Untested, InState
<1>4. Sound(entry', regs', hist') /\ Sound(indexFile', regs', hist') OBVIOUS
<1> QED BY <1>1, <1>2, <1>3, <1>4

\* It takes the registration out: a rejection, a deletion, a promotion.
LEMMA RegLeaves ==
    ASSUME DirectoryInv, ScalarType', UNCHANGED <<regs, crashes>>,
           pipe'.reg = pipe.reg, pipe'.ok = pipe.ok, pipe'.pc \in {pipe.pc, "end"},
           hist'.fees = hist.fees, hist'.spent = hist.spent, hist'.calls = hist.calls,
           hist'.passed = hist.passed, hist.overtaken => hist'.overtaken,
           entry'.reg = Nil,
           Sound(entry', regs, hist'), Sound(indexFile', regs, hist')
    PROVE  DirectoryInv'
<1> USE DEF DirectoryInv
<1>1. PipeSound' BY DEF PipeSound, Untested, InState, Testing
<1>2. KeyStored' BY DEF KeyStored, InState
<1>3. MoneySound' BY DEF MoneySound, Untested, InState
<1>4. Sound(entry', regs', hist') /\ Sound(indexFile', regs', hist') OBVIOUS
<1> QED BY <1>1, <1>2, <1>3, <1>4

\* It puts a new registration in its place: register, spot check.
LEMMA RegComes ==
    ASSUME DirectoryInv, ScalarType', UNCHANGED crashes, regs' = regs + 1,
           pipe' = pipe \/ (pipe.pc = "idle" /\ pipe' = [NoPipe EXCEPT !.pc = "start"]
                             /\ indexFile' = entry'),
           hist'.fees = hist.fees, hist'.spent = hist.spent, hist'.calls = hist.calls,
           hist'.passed = hist.passed, (hist.overtaken \/ Inflight) => hist'.overtaken,
           entry'.reg.id = regs + 1,
           indexFile' \in {indexFile, entry'},
           Sound(entry', regs', hist'), Sound(indexFile', regs', hist')
    PROVE  DirectoryInv'
<1> USE DEF DirectoryInv
<1>1. /\ regs \in Nat /\ regs + 1 \in Ids /\ crashes \in Nat
      /\ hist.spent[regs + 1] \in Int
  <2>1. regs' \in 0..MaxRegs /\ regs \in 0..MaxRegs BY DEF ScalarType
  <2>2. regs + 1 \in Ids BY <2>1, Numbers DEF Ids
  <2>3. hist \in Hist /\ crashes \in Nat BY DEF ScalarType
  <2> QED BY <2>1, <2>2, <2>3, Numbers DEF Hist
<1>2. hist.spent[regs + 1] = 0 /\ hist.fees[regs + 1] = 0 /\ hist.calls[regs + 1] = {}
  BY <1>1 DEF MoneySound
<1>3. hist.spent[regs + 1] <= Budget * crashes BY <1>1, <1>2, BudgetGrows
<1>4. PipeSound'
  <2>1. CASE pipe' = pipe
    <3>1. pipe.pc \in Testing => /\ pipe.reg # Nil /\ pipe.reg.id \in 1..regs
                                 /\ hist'.overtaken
      BY DEF PipeSound, Inflight, Testing
    <3>2. pipe.pc \in Testing => pipe.reg.id \in 1..regs' /\ pipe.reg.id # regs'
      BY <1>1, <3>1
    <3>3. pipe.pc = "call" => hist.spent[pipe.reg.id] <= Budget * crashes
      BY DEF PipeSound, Untested
    <3>4. pipe.pc = "judge" /\ pipe.ok => pipe.reg.id \in hist.passed BY DEF PipeSound
    <3> QED BY <1>1, <1>2, <1>3, <2>1, <3>1, <3>2, <3>3, <3>4 DEF PipeSound, Untested, InState, Testing
  <2>2. CASE pipe'.pc = "start"
    BY <1>1, <1>2, <1>3, <2>2 DEF PipeSound, Untested, Testing
  <2> QED BY <2>1, <2>2 DEF NoPipe
<1>5. KeyStored'
  <2>1. CASE indexFile' = entry' BY <2>1 DEF KeyStored, InState, Early
  <2>2. CASE indexFile' = indexFile
    <3>1. indexFile.reg # Nil => indexFile.reg.id \in 1..regs BY DEF Sound, RegSound
    <3>2. indexFile.reg # Nil => indexFile.reg.id # regs + 1 BY <1>1, <3>1
    <3> QED BY <2>2, <3>2 DEF KeyStored
  <2> QED BY <2>1, <2>2
<1>6. MoneySound'
  <2>1. \A i \in Ids : /\ hist.fees[i] <= crashes + 1
                       /\ hist.spent[i] <= Budget * crashes + Budget
                       /\ i > regs + 1 => /\ hist.fees[i] = 0 /\ hist.spent[i] = 0
                                          /\ hist.calls[i] = {}
    <3>1. \A i \in Ids : i > regs + 1 => i > regs BY <1>1 DEF Ids
    <3> QED BY <3>1 DEF MoneySound
  <2>2. hist.fees[regs + 1] <= crashes BY <1>1, <1>2
  <2> QED BY <1>3, <2>1, <2>2 DEF MoneySound, Untested, InState
<1>7. Sound(entry', regs', hist') /\ Sound(indexFile', regs', hist') OBVIOUS
<1> QED BY <1>4, <1>5, <1>6, <1>7

\* The entries the operations store are sound.
LEMMA StoredSound ==
    ASSUME NEW r, NEW h, Sound(entry, r, h)
    PROVE  /\ \A g \in Reg : RegSound(g, r, h) => Sound(WithReg(g), r, h)
           /\ \A f \in BOOLEAN : /\ Sound([entry EXCEPT !.flag = f], r, h)
                                 /\ Sound([entry EXCEPT !.reg = Nil, !.flag = f], r, h)
           /\ Sound([entry EXCEPT !.live = Nil], r, h)
<1>1. entry \in Entry BY DEF Sound
<1>2. ASSUME NEW g \in Reg, RegSound(g, r, h) PROVE Sound(WithReg(g), r, h)
  <2>1. WithReg(g) \in Entry /\ WithReg(g).reg = g /\ WithReg(g).live = entry.live
    BY <1>1, EntryEffect
  <2> QED BY <1>2, <2>1 DEF Sound, ListingSound
<1>3. ASSUME NEW f \in BOOLEAN
      PROVE  /\ Sound([entry EXCEPT !.flag = f], r, h)
             /\ Sound([entry EXCEPT !.reg = Nil, !.flag = f], r, h)
  <2> DEFINE e1 == [entry EXCEPT !.flag = f]
             e2 == [entry EXCEPT !.reg = Nil, !.flag = f]
  <2>1. /\ e1 \in Entry /\ e1.reg = entry.reg /\ e1.live = entry.live
        /\ e2 \in Entry /\ e2.reg = Nil /\ e2.live = entry.live
    BY <1>1, EntryEffect
  <2> HIDE DEF e1, e2
  <2>2. Sound(e1, r, h) /\ Sound(e2, r, h) BY <2>1 DEF Sound, ListingSound
  <2> QED BY <2>2 DEF e1, e2
<1>4. Sound([entry EXCEPT !.live = Nil], r, h)
  <2> DEFINE e == [entry EXCEPT !.live = Nil]
  <2>1. e \in Entry /\ e.reg = entry.reg /\ e.live = Nil BY <1>1, EntryEffect
  <2> HIDE DEF e
  <2>2. Sound(e, r, h) BY <2>1 DEF Sound, ListingSound
  <2> QED BY <2>2 DEF e
<1> QED BY <1>2, <1>3, <1>4

-----------------------------------------------------------------------------
(* Every step keeps the invariant.                                         *)

\* A step that stores an entry with the same registration.
LEMMA KeepsReg ==
    ASSUME DirectoryInv, ScalarType', UNCHANGED <<pipe, regs, crashes, hist>>,
           NEW e, NEW ok \in BOOLEAN, Store(e, ok), Sound(e, regs, hist), e.reg = entry.reg
    PROVE  DirectoryInv'
<1>1. /\ entry' = e /\ indexFile' \in {e, indexFile}
      /\ Sound(entry', regs, hist) /\ Sound(indexFile', regs, hist)
  BY StoreEffect DEF DirectoryInv
<1> QED BY <1>1, RegStays

\* A step that touches neither the entry nor the pipeline.
LEMMA KeepsEntry ==
    ASSUME DirectoryInv, ScalarType', Keep, UNCHANGED <<pipe, regs, crashes, hist>>
    PROVE  DirectoryInv'
<1>1. /\ entry'.reg = entry.reg /\ indexFile' = indexFile
      /\ Sound(entry', regs, hist) /\ Sound(indexFile', regs, hist)
  BY DEF Keep, DirectoryInv
<1> QED BY <1>1, RegStays

\* A step that stores an entry without a registration.
LEMMA DropsReg ==
    ASSUME DirectoryInv, ScalarType', UNCHANGED <<regs, crashes>>,
           pipe'.reg = pipe.reg, pipe'.ok = pipe.ok, pipe'.pc \in {pipe.pc, "end"},
           hist' = hist \/ hist' = [hist EXCEPT !.overtaken = @ \/ Inflight],
           NEW e, NEW ok \in BOOLEAN, Store(e, ok), Sound(e, regs, hist), e.reg = Nil
    PROVE  DirectoryInv'
<1>1. /\ hist'.fees = hist.fees /\ hist'.spent = hist.spent /\ hist'.calls = hist.calls
      /\ hist'.passed = hist.passed /\ (hist.overtaken => hist'.overtaken)
  BY Overtaken DEF DirectoryInv, ScalarType
<1>2. /\ entry' = e
      /\ Sound(entry', regs, hist) /\ Sound(indexFile', regs, hist)
  BY StoreEffect DEF DirectoryInv
<1>3. regs \in Nat BY DEF DirectoryInv, ScalarType
<1>4. Sound(entry', regs, hist') /\ Sound(indexFile', regs, hist')
  BY <1>1, <1>2, <1>3, SoundGrows
<1> QED BY <1>1, <1>2, <1>4, RegLeaves

\* A step that stores an entry with the new registration g.
LEMMA AddsReg ==
    ASSUME DirectoryInv, ScalarType', UNCHANGED crashes, regs' = regs + 1,
           NEW ok \in BOOLEAN,
           pipe' = pipe \/ (pipe.pc = "idle" /\ pipe' = [NoPipe EXCEPT !.pc = "start"] /\ ok),
           hist' = [hist EXCEPT !.overtaken = @ \/ Inflight],
           NEW g \in Reg, Store(WithReg(g), ok),
           g.id = regs + 1, g.outcome = "none", g.state = "testing" => g.key # 0
    PROVE  DirectoryInv'
<1>1. /\ hist'.fees = hist.fees /\ hist'.spent = hist.spent /\ hist'.calls = hist.calls
      /\ hist'.passed = hist.passed
      /\ (hist.overtaken \/ Inflight => hist'.overtaken)
  BY Overtaken DEF DirectoryInv, ScalarType
<1>2. regs \in Nat /\ regs + 1 \in Nat /\ regs + 1 \in Ids /\ regs <= regs + 1
  <2>1. regs' \in 0..MaxRegs /\ regs \in 0..MaxRegs BY DEF DirectoryInv, ScalarType
  <2> QED BY <2>1, Numbers DEF Ids
<1>3. hist.calls[regs + 1] = {} BY <1>2 DEF DirectoryInv, MoneySound
<1>4. Sound(entry, regs', hist') /\ Sound(indexFile, regs', hist')
  BY <1>1, <1>2, SoundGrows DEF DirectoryInv
<1>5. RegSound(g, regs', hist')
  <2>1. hist'.calls[g.id] = {} BY <1>1, <1>3
  <2> QED BY <1>2, <2>1 DEF RegSound
<1>6. Sound(WithReg(g), regs', hist') BY <1>4, <1>5, StoredSound
<1>7. WithReg(g).reg = g BY EntryEffect DEF DirectoryInv, Sound
<1>8. /\ entry' = WithReg(g) /\ indexFile' \in {WithReg(g), indexFile}
      /\ (ok => indexFile' = WithReg(g))
      /\ Sound(entry', regs', hist') /\ Sound(indexFile', regs', hist')
  BY <1>4, <1>6, StoreEffect
<1> QED BY <1>1, <1>7, <1>8, RegComes

LEMMA RegisterStep == DirectoryInv /\ handleRegister => DirectoryInv'
<1> SUFFICES ASSUME DirectoryInv, handleRegister PROVE DirectoryInv'
  OBVIOUS
<1> DEFINE g == Registration(regs + 1, "awaiting_funding", Fee, entry.live # Nil)
<1>1. regs \in 0..MaxRegs /\ regs' = regs + 1 /\ regs + 1 \in 0..MaxRegs
  BY Numbers DEF handleRegister, DirectoryInv, ScalarType
<1>2. ScalarType'
  BY <1>1, Overtaken DEF handleRegister, DirectoryInv, ScalarType
<1>3. /\ g \in Reg /\ g.id = regs + 1 /\ g.outcome = "none" /\ g.state = "awaiting_funding"
  <2> DEFINE b == entry.live # Nil
  <2>1. b \in BOOLEAN OBVIOUS
  <2> HIDE DEF b
  <2>2. /\ Registration(regs + 1, "awaiting_funding", Fee, b) \in Reg
        /\ Registration(regs + 1, "awaiting_funding", Fee, b).id = regs + 1
        /\ Registration(regs + 1, "awaiting_funding", Fee, b).outcome = "none"
        /\ Registration(regs + 1, "awaiting_funding", Fee, b).state = "awaiting_funding"
    BY <1>1, <2>1, Numbers DEF Registration, Reg, States
  <2> QED BY <2>2 DEF b
<1>4. PICK ok \in BOOLEAN : Store(WithReg(g), ok) BY <1>1 DEF handleRegister
<1> HIDE DEF g
<1> QED
  BY <1>1, <1>2, <1>3, <1>4, AddsReg DEF handleRegister

LEMMA SpotCheckStep == DirectoryInv /\ spotCheck => DirectoryInv'
<1> SUFFICES ASSUME DirectoryInv, spotCheck PROVE DirectoryInv'
  OBVIOUS
<1> DEFINE g == [Registration(regs + 1, "testing", 0, TRUE) EXCEPT !.key = newCallKey]
<1>1. /\ regs \in 0..MaxRegs /\ regs' = regs + 1 /\ regs + 1 \in 0..MaxRegs
      /\ keys \in Nat /\ keys' = keys + 1 /\ newCallKey = keys + 1
  BY Numbers DEF spotCheck, DirectoryInv, ScalarType, newCallKey
<1>2. /\ g \in Reg /\ g.id = regs + 1 /\ g.outcome = "none" /\ g.key # 0
  <2> DEFINE r == Registration(regs + 1, "testing", 0, TRUE)
  <2>1. r \in Reg /\ r.id = regs + 1 /\ r.outcome = "none"
    BY <1>1 DEF Registration, Reg, States
  <2> HIDE DEF r
  <2>2. g = [r EXCEPT !.key = keys + 1] BY <1>1 DEF r
  <2> HIDE DEF g
  <2> QED BY <1>1, <2>1, <2>2 DEF Reg
<1>3. PICK ok \in BOOLEAN : /\ Store(WithReg(g), ok)
                            /\ pipe' = IF ok THEN Spawned ELSE pipe
  BY <1>1 DEF spotCheck
<1> HIDE DEF g
<1>4. pipe' = pipe \/ (pipe.pc = "idle" /\ pipe' = [NoPipe EXCEPT !.pc = "start"] /\ ok)
  BY <1>3 DEF Spawned, Inflight
<1>5. [NoPipe EXCEPT !.pc = "start"] \in Pipe BY DEF NoPipe, Pipe
<1>6. ScalarType'
  BY <1>1, <1>4, <1>5, Overtaken DEF spotCheck, Admin, DirectoryInv, ScalarType
<1> QED
  BY <1>1, <1>2, <1>3, <1>4, <1>6, AddsReg DEF spotCheck, Admin

\* Takedowns, notes, rejections, deletions and the reads before them.
LEMMA AdminKeeps ==
    ASSUME DirectoryInv,
           \/ Approve \/ rejectRegistration \/ Unlist \/ UnlistGet \/ UnlistDelete \/ Flag
           \/ SweepExpire \/ SweepDelete \/ SweepRecrawl \/ SweepRecrawled \/ SweepFunding
           \/ WriteIndex \/ CreditTip \/ Tick
    PROVE  DirectoryInv'
<1> USE DEF Admin, Swept
<1>1. ASSUME UNCHANGED <<pipe, regs, crashes, keys, hist>>, balance' \in Nat, now' \in Nat
      PROVE  ScalarType'
  BY <1>1 DEF DirectoryInv, ScalarType
<1>2. ASSUME UNCHANGED <<pipe, regs, crashes, keys, balance, now>>,
             hist' = [hist EXCEPT !.overtaken = @ \/ Inflight]
      PROVE  ScalarType'
  BY <1>2, Overtaken DEF DirectoryInv, ScalarType
<1>3. balance \in Nat /\ now \in Nat /\ balance + TipAtoms \in Nat /\ now + 1 \in Nat
  BY Numbers DEF DirectoryInv, ScalarType
<1>4. Sound(entry, regs, hist) /\ entry \in Entry BY DEF DirectoryInv, Sound
<1>5. CASE Approve \/ UnlistGet \/ SweepRecrawl \/ SweepFunding \/ CreditTip \/ Tick
  <2>1. ScalarType'
    BY <1>1, <1>3, <1>5 DEF Approve, UnlistGet, SweepRecrawl, SweepFunding, CreditTip, Tick
  <2> QED
    BY <1>5, <2>1, KeepsEntry
       DEF Approve, UnlistGet, SweepRecrawl, SweepFunding, CreditTip, Tick
<1>6. CASE WriteIndex \/ SweepRecrawled
  <2>1. ScalarType' BY <1>1, <1>3, <1>6 DEF WriteIndex, SweepRecrawled
  <2>2. UNCHANGED <<pipe, regs, crashes, hist>> BY <1>6 DEF WriteIndex, SweepRecrawled
  <2>3. Keep \/ \E ok \in BOOLEAN : Store(entry, ok)
    BY <1>6 DEF WriteIndex, SweepRecrawled, Recrawled
  <2> QED BY <1>4, <2>1, <2>2, <2>3, KeepsEntry, KeepsReg
<1>7. CASE Unlist \/ (SweepExpire /\ entry.reg # Nil)
  <2>1. ScalarType' BY <1>1, <1>3, <1>7 DEF Unlist, SweepExpire
  <2>2. UNCHANGED <<pipe, regs, crashes, hist>> BY <1>7 DEF Unlist, SweepExpire
  <2>3. PICK ok \in BOOLEAN : Store([entry EXCEPT !.live = Nil], ok)
    BY <1>7 DEF Unlist, SweepExpire
  <2> DEFINE e == [entry EXCEPT !.live = Nil]
  <2>4. e.reg = entry.reg /\ Sound(e, regs, hist) BY <1>4, EntryEffect, StoredSound
  <2> HIDE DEF e
  <2> QED BY <2>1, <2>2, <2>3, <2>4, KeepsReg DEF e
<1>8. CASE SweepExpire /\ entry.reg = Nil
  <2>1. ScalarType' BY <1>1, <1>3, <1>8 DEF SweepExpire
  <2> QED BY <1>8, <2>1, KeepsEntry DEF SweepExpire
<1>9. CASE Flag
  <2>1. ScalarType' BY <1>1, <1>3, <1>9 DEF Flag
  <2>2. PICK ok, noted \in BOOLEAN : Store([entry EXCEPT !.flag = noted], ok)
    BY <1>9 DEF Flag
  <2> DEFINE e == [entry EXCEPT !.flag = noted]
  <2>3. e.reg = entry.reg /\ Sound(e, regs, hist) BY <1>4, EntryEffect, StoredSound
  <2> HIDE DEF e
  <2> QED BY <1>9, <2>1, <2>2, <2>3, KeepsReg DEF e, Flag
<1>10. CASE rejectRegistration
  <2>1. ScalarType' BY <1>2, <1>10 DEF rejectRegistration
  <2>2. PICK ok \in BOOLEAN, f \in {entry.flag, TRUE} :
          Store([entry EXCEPT !.reg = Nil, !.flag = f], ok)
    BY <1>10 DEF rejectRegistration
  <2>3. f \in BOOLEAN BY <1>4, EntryEffect
  <2> DEFINE e == [entry EXCEPT !.reg = Nil, !.flag = f]
  <2>4. e.reg = Nil /\ Sound(e, regs, hist) BY <1>4, <2>3, EntryEffect, StoredSound
  <2> HIDE DEF e
  <2> QED BY <1>10, <2>1, <2>2, <2>4, DropsReg DEF e, rejectRegistration
<1>11. CASE UnlistDelete \/ SweepDelete
  <2>1. ScalarType' BY <1>2, <1>11 DEF UnlistDelete, SweepDelete
  <2>2. PICK ok \in BOOLEAN : Store(NoEntry, ok) BY <1>11 DEF UnlistDelete, SweepDelete
  <2> QED BY <1>11, <2>1, <2>2, NoEntrySound, DropsReg DEF UnlistDelete, SweepDelete
<1> QED BY <1>5, <1>6, <1>7, <1>8, <1>9, <1>10, <1>11

\* A fee is taken for one registration.
LEMMA FeeTaken ==
    ASSUME hist \in Hist, NEW i \in Ids, hist' = [hist EXCEPT !.fees[i] = @ + 1]
    PROVE  /\ hist' \in Hist
           /\ hist'.spent = hist.spent /\ hist'.calls = hist.calls
           /\ hist'.passed = hist.passed /\ hist'.overtaken = hist.overtaken
           /\ hist'.fees[i] = hist.fees[i] + 1
           /\ \A j \in Ids : j # i => hist'.fees[j] = hist.fees[j]
<1> DEFINE f == [hist.fees EXCEPT ![i] = @ + 1]
<1>1. hist.fees \in [Ids -> Nat] BY DEF Hist
<1>2. /\ f \in [Ids -> Nat] /\ f[i] = hist.fees[i] + 1
      /\ \A j \in Ids : j # i => f[j] = hist.fees[j]
  BY <1>1
<1>3. hist' = [hist EXCEPT !.fees = f] OBVIOUS
<1> HIDE DEF f
<1>4. /\ hist' \in Hist /\ hist'.fees = f
      /\ hist'.spent = hist.spent /\ hist'.calls = hist.calls
      /\ hist'.passed = hist.passed /\ hist'.overtaken = hist.overtaken
  BY <1>2, <1>3 DEF Hist
<1> QED BY <1>2, <1>4

\* A step that moves the entry's registration on to g: funding, the crawl's
\* end, the verdict.
LEMMA RegMoves ==
    ASSUME DirectoryInv, ScalarType', UNCHANGED <<regs, crashes>>, entry.reg # Nil,
           hist'.spent = hist.spent, hist'.calls = hist.calls, hist'.passed = hist.passed,
           hist'.overtaken = hist.overtaken,
           \A i \in Ids : /\ hist'.fees[i] <= crashes + 1
                          /\ i > regs => hist'.fees[i] = 0,
           NEW g \in Reg, NEW ok \in BOOLEAN, Store(WithReg(g), ok), g.id = entry.reg.id,
           RegSound(g, regs, hist),
           g.state = "awaiting_funding" => /\ InState({"awaiting_funding"})
                                           /\ hist' = hist /\ pipe'.pc \in {"end", "promote"},
           \/ pipe' = pipe
           \/ pipe'.pc \in {"end", "promote"}
           \/ pipe'.pc = "get" /\ pipe.pc = "crawl" /\ ok
           \/ pipe'.pc = "start" /\ InState({"awaiting_funding"}),
           pipe'.pc \in {"start", "get"} => g.state # "testing" \/ ok
    PROVE  DirectoryInv'
<1> USE DEF DirectoryInv
<1>1. Sound(WithReg(g), regs, hist) BY StoredSound
<1>2. /\ entry' = WithReg(g) /\ indexFile' \in {WithReg(g), indexFile}
      /\ (ok => indexFile' = WithReg(g))
      /\ Sound(entry', regs, hist) /\ Sound(indexFile', regs, hist)
  BY <1>1, StoreEffect
<1>3. entry'.reg = g BY <1>2, EntryEffect DEF Sound
<1>4. regs \in Nat /\ regs <= regs BY DEF ScalarType
<1>5. Sound(entry', regs', hist') /\ Sound(indexFile', regs', hist')
  BY <1>2, <1>4, SoundGrows
<1>6. PipeSound'
  <2>1. Untested(g.id)' <=> Untested(entry.reg.id) BY DEF Untested
  <2>2. CASE pipe' = pipe /\ pipe'.pc \notin {"end", "promote"}
    <3>1. g.state # "awaiting_funding" BY <2>2
    <3> QED BY <1>3, <2>1, <2>2, <3>1 DEF PipeSound, Untested, InState, Testing
  <2>3. CASE pipe'.pc \in {"end", "promote"}
    BY <2>3 DEF PipeSound, Testing
  <2>4. CASE pipe'.pc = "get" /\ pipe.pc = "crawl"
    BY <1>3, <2>1, <2>4 DEF PipeSound, Testing
  <2>5. CASE pipe'.pc = "start" /\ InState({"awaiting_funding"})
    BY <1>3, <2>1, <2>5 DEF PipeSound, MoneySound, Testing
  <2> QED BY <2>2, <2>3, <2>4, <2>5
<1>7. KeyStored'
  BY <1>2, <1>3 DEF KeyStored, InState, Early
<1>8. MoneySound'
  BY <1>3 DEF MoneySound, Untested, InState
<1> QED BY <1>5, <1>6, <1>7, <1>8

\* pokeFunding takes the fee and moves the registration on, once.
LEMMA PokeStep == DirectoryInv /\ pokeFunding => DirectoryInv'
<1> SUFFICES ASSUME DirectoryInv, pokeFunding PROVE DirectoryInv'
  OBVIOUS
<1>1. CASE ~(InState({"awaiting_funding"}) /\ Funded)
  <2>1. UNCHANGED <<pipe, regs, crashes, hist, keys, balance, now>> /\ Keep
    BY <1>1 DEF pokeFunding
  <2>2. ScalarType' BY <2>1 DEF DirectoryInv, ScalarType
  <2> QED BY <2>1, <2>2, KeepsEntry
<1>2. CASE InState({"awaiting_funding"}) /\ Funded
  <2> DEFINE r == entry.reg
             g == [r EXCEPT !.state = "crawling"]
  <2>1. /\ r \in Reg /\ r # Nil /\ r.state = "awaiting_funding" /\ RegSound(r, regs, hist)
        /\ r.id \in Ids /\ entry \in Entry
    <3>1. r # Nil /\ r.state = "awaiting_funding" BY <1>2 DEF InState
    <3>2. entry \in Entry /\ RegSound(r, regs, hist) BY <3>1 DEF DirectoryInv, Sound
    <3>3. r \in Reg BY <3>1, <3>2, EntryEffect
    <3>4. regs \in 0..MaxRegs /\ r.id \in 1..regs BY <3>2 DEF DirectoryInv, ScalarType, RegSound
    <3> QED BY <3>1, <3>2, <3>3, <3>4, Numbers DEF Ids
  <2>2. /\ g \in Reg /\ g.state = "crawling" /\ g.id = r.id /\ g.outcome = r.outcome
        /\ g.key = r.key
    BY <2>1 DEF Reg, States
  <2>3. RegSound(g, regs, hist) BY <2>1, <2>2 DEF RegSound, Early
  <2>4. PICK ok \in BOOLEAN : Store(WithReg(g), ok)
    BY <1>2 DEF pokeFunding, WithReg
  <2>5. /\ hist' = [hist EXCEPT !.fees[r.id] = @ + 1]
        /\ balance' = balance - r.fee /\ balance >= r.fee + Budget
        /\ pipe' = Spawned
        /\ UNCHANGED <<now, regs, keys, crashes>>
    BY <1>2 DEF pokeFunding, Funded
  <2>6. /\ hist' \in Hist
        /\ hist'.spent = hist.spent /\ hist'.calls = hist.calls
        /\ hist'.passed = hist.passed /\ hist'.overtaken = hist.overtaken
        /\ hist'.fees[r.id] = hist.fees[r.id] + 1
        /\ \A j \in Ids : j # r.id => hist'.fees[j] = hist.fees[j]
    BY <2>1, <2>5, FeeTaken DEF DirectoryInv, ScalarType
  <2>7. pipe' = pipe \/ pipe' = [NoPipe EXCEPT !.pc = "start"]
    BY <2>5 DEF Spawned
  <2>8. pipe' \in Pipe /\ (pipe' = pipe \/ pipe'.pc = "start")
    <3>1. [NoPipe EXCEPT !.pc = "start"] \in Pipe /\ [NoPipe EXCEPT !.pc = "start"].pc = "start"
      BY DEF NoPipe, Pipe
    <3>2. pipe \in Pipe BY DEF DirectoryInv, ScalarType
    <3> QED BY <2>7, <3>1, <3>2
  <2>9. balance' \in Nat
    <3>1. r.fee \in Nat /\ balance \in Nat BY <2>1 DEF Reg, DirectoryInv, ScalarType
    <3> QED BY <2>5, <3>1, Numbers
  <2>10. ScalarType' BY <2>5, <2>6, <2>8, <2>9 DEF DirectoryInv, ScalarType
  <2>11. \A i \in Ids : /\ hist'.fees[i] <= crashes + 1
                        /\ i > regs => hist'.fees[i] = 0
    <3> TAKE i \in Ids
    <3>1. /\ hist.fees[i] <= crashes + 1 /\ (i > regs => hist.fees[i] = 0)
          /\ hist.fees[r.id] <= crashes
      BY <1>2 DEF DirectoryInv, MoneySound
    <3>2. r.id \in 1..regs /\ regs \in Nat BY <2>1 DEF RegSound, DirectoryInv, ScalarType
    <3>3. hist.fees[r.id] \in Nat /\ crashes \in Nat
      BY <2>1 DEF Hist, DirectoryInv, ScalarType
    <3> QED BY <2>6, <3>1, <3>2, <3>3
  <2> HIDE DEF g
  <2> QED
    BY <1>2, <2>1, <2>2, <2>3, <2>4, <2>5, <2>6, <2>8, <2>10, <2>11, RegMoves
<1> QED BY <1>1, <1>2

\* A pipeline that moves by pc alone.
LEMMA PcEffect ==
    ASSUME pipe \in Pipe,
           NEW pc \in {"idle", "start", "crawl", "get", "promote", "end"} \cup Testing, PipeGoto(pc)
    PROVE  /\ pipe' \in Pipe /\ pipe'.pc = pc
           /\ pipe'.reg = pipe.reg /\ pipe'.ok = pipe.ok
BY DEF PipeGoto, Pipe

\* The fees a step leaves alone are bounded as before.
LEMMA FeesKept ==
    ASSUME MoneySound
    PROVE  \A i \in Ids : /\ hist.fees[i] <= crashes + 1
                          /\ i > regs => hist.fees[i] = 0
BY DEF MoneySound

\* The crawl ends: the catalog is stored with the key, or the registration parked.
LEMMA CrawlStep == DirectoryInv /\ (Crawled \/ CrawlFailed) => DirectoryInv'
<1> SUFFICES ASSUME DirectoryInv, Crawled \/ CrawlFailed PROVE DirectoryInv'
  OBVIOUS
<1>1. /\ pipe \in Pipe /\ pipe.pc = "crawl" /\ hist' = hist /\ UNCHANGED <<balance, now, regs, crashes>>
      /\ keys' \in Nat
  BY DEF Crawled, CrawlFailed, AtPipe, NotPipe, DirectoryInv, ScalarType, newCallKey
<1>2. \A pc \in {"get", "end"} : PipeGoto(pc) => ScalarType'
  <2> TAKE pc \in {"get", "end"}
  <2>1. PipeGoto(pc) => pipe' \in Pipe BY <1>1, PcEffect
  <2> QED BY <1>1, <2>1 DEF DirectoryInv, ScalarType
<1>3. CASE entry.reg = Nil
  <2>1. Keep /\ PipeGoto("end") BY <1>3 DEF Crawled, CrawlFailed
  <2>2. ScalarType' /\ pipe'.pc = "end" /\ pipe'.reg = pipe.reg /\ pipe'.ok = pipe.ok
    BY <1>1, <1>2, <2>1, PcEffect
  <2>3. Sound(entry', regs, hist') /\ Sound(indexFile', regs, hist') /\ entry'.reg = Nil
    BY <1>1, <1>3, <2>1 DEF Keep, DirectoryInv
  <2> QED BY <1>1, <2>2, <2>3, RegLeaves
<1>4. CASE entry.reg # Nil
  <2> DEFINE r == entry.reg
  <2>1. r \in Reg /\ RegSound(r, regs, hist)
    BY <1>4, EntryEffect DEF DirectoryInv, Sound
  <2>2. hist.calls[r.id] = {} BY <1>1, <1>4 DEF DirectoryInv, PipeSound
  <2>3. CASE Crawled
    <3> DEFINE g == [r EXCEPT !.state = "testing", !.key = TestKey]
    <3>1. TestKey \in Nat /\ TestKey # 0
      <4>1. pipe.key \in Nat /\ keys \in Nat BY <1>1 DEF Pipe, DirectoryInv, ScalarType
      <4> QED BY <4>1 DEF TestKey, newCallKey
    <3>2. /\ g \in Reg /\ g.state = "testing" /\ g.key = TestKey
          /\ g.id = r.id /\ g.outcome = r.outcome
      BY <2>1, <3>1 DEF Reg, States
    <3>3. RegSound(g, regs, hist) BY <2>1, <2>2, <3>1, <3>2 DEF RegSound, Early
    <3>4. PICK ok \in BOOLEAN : Store(WithReg(g), ok) /\ PipeGoto(IF ok THEN "get" ELSE "end")
      BY <1>4, <2>3 DEF Crawled, WithReg
    <3>5. ScalarType' /\ pipe'.pc = IF ok THEN "get" ELSE "end" BY <1>1, <1>2, <3>4, PcEffect
    <3> HIDE DEF g
    <3> QED
      BY <1>1, <1>4, <3>2, <3>3, <3>4, <3>5, FeesKept, RegMoves DEF DirectoryInv
  <2>4. CASE CrawlFailed
    <3> DEFINE g == [r EXCEPT !.state = "pending_review", !.outcome = "failed"]
    <3>1. /\ g \in Reg /\ g.state = "pending_review" /\ g.key = r.key
          /\ g.id = r.id /\ g.outcome = "failed"
      BY <2>1 DEF Reg, States
    <3>2. RegSound(g, regs, hist) BY <2>1, <3>1 DEF RegSound, Early
    <3>3. PICK ok \in BOOLEAN : Store(WithReg(g), ok)
      BY <1>4, <2>4 DEF CrawlFailed, WithReg
    <3>4. ScalarType' /\ pipe'.pc = "end" BY <1>1, <1>2, <2>4, PcEffect DEF CrawlFailed
    <3> HIDE DEF g
    <3> QED
      BY <1>1, <1>4, <3>1, <3>2, <3>3, <3>4, FeesKept, RegMoves DEF DirectoryInv
  <2> QED BY <2>3, <2>4
<1> QED BY <1>3, <1>4

\* The verdict of the test goes to the registration that is there, which is
\* the one that was tested or has overtaken it.
LEMMA JudgedStep == DirectoryInv /\ Judged => DirectoryInv'
<1> SUFFICES ASSUME DirectoryInv, Judged PROVE DirectoryInv'
  OBVIOUS
<1>1. /\ pipe \in Pipe /\ pipe.pc = "judge" /\ hist' = hist
      /\ UNCHANGED <<balance, now, regs, crashes, keys>>
  BY DEF Judged, AtPipe, NotPipe, DirectoryInv, ScalarType
<1>2. \A pc \in {"promote", "end"} : PipeGoto(pc) => ScalarType'
  <2> TAKE pc \in {"promote", "end"}
  <2>1. PipeGoto(pc) => pipe' \in Pipe BY <1>1, PcEffect
  <2> QED BY <1>1, <2>1 DEF DirectoryInv, ScalarType
<1>3. CASE entry.reg = Nil
  <2>1. Keep /\ PipeGoto("end") BY <1>3 DEF Judged
  <2>2. ScalarType' /\ pipe'.pc = "end" /\ pipe'.reg = pipe.reg /\ pipe'.ok = pipe.ok
    BY <1>1, <1>2, <2>1, PcEffect
  <2>3. Sound(entry', regs, hist') /\ Sound(indexFile', regs, hist') /\ entry'.reg = Nil
    BY <1>1, <1>3, <2>1 DEF Keep, DirectoryInv
  <2> QED BY <1>1, <2>2, <2>3, RegLeaves
<1>4. CASE entry.reg # Nil
  <2> DEFINE r == entry.reg
             renew == Verdict = "ok" /\ r.renewal
             state == IF renew THEN r.state ELSE "pending_review"
             paid == pipe.reg.paid + pipe.paid
             g == [r EXCEPT !.paid = paid, !.outcome = Verdict, !.state = state]
  <2>1. r \in Reg /\ RegSound(r, regs, hist)
    BY <1>4, EntryEffect DEF DirectoryInv, Sound
  <2>2. pipe.reg \in Reg /\ paid \in Nat
    <3>1. pipe.reg # Nil BY <1>1 DEF DirectoryInv, PipeSound, Testing
    <3>2. pipe.reg \in Reg /\ pipe.paid \in Nat BY <1>1, <3>1 DEF Pipe
    <3> QED BY <3>2 DEF Reg
  <2>3. state \in States /\ state \in {r.state, "pending_review"} BY <2>1 DEF Reg, States
  <2>4. Verdict \in {"ok", "failed"} BY DEF Verdict
  <2>5. PICK ok \in BOOLEAN : /\ Store(WithReg(g), ok)
                              /\ PipeGoto(IF ok /\ renew THEN "promote" ELSE "end")
    BY <1>4 DEF Judged
  <2>6. Verdict = "ok" => r.id \in hist.passed \/ hist.overtaken
    BY <1>1, <1>4 DEF Verdict, DirectoryInv, PipeSound, Testing
  <2> HIDE DEF paid, state
  <2>7. /\ g \in Reg /\ g.state = state /\ g.key = r.key
        /\ g.id = r.id /\ g.outcome = Verdict
    BY <2>1, <2>2, <2>3, <2>4 DEF Reg
  <2>8. RegSound(g, regs, hist) BY <2>1, <2>3, <2>6, <2>7 DEF RegSound, Early
  <2>9. ScalarType' /\ pipe'.pc \in {"promote", "end"} BY <1>1, <1>2, <2>5, PcEffect
  <2>10. g.state = "awaiting_funding" => InState({"awaiting_funding"})
    BY <1>4, <2>3, <2>7 DEF InState
  <2> HIDE DEF g
  <2> QED
    BY <1>1, <1>4, <2>5, <2>7, <2>8, <2>9, <2>10, FeesKept, RegMoves DEF DirectoryInv
<1> QED BY <1>3, <1>4

\* promote lists the registration whose test passed.
LEMMA PromoteStep ==
    ASSUME DirectoryInv, promote, pipe' \in Pipe,
           pipe'.reg = pipe.reg, pipe'.ok = pipe.ok, pipe'.pc \in {pipe.pc, "end"},
           UNCHANGED <<hist, balance, now, regs, keys, crashes>>
    PROVE  DirectoryInv'
<1>1. ScalarType' BY DEF DirectoryInv, ScalarType
<1>2. CASE Promoted
  <2> DEFINE l == [id |-> entry.reg.id, expires |-> now + Expiry]
             e == [live |-> l, reg |-> Nil, flag |-> FALSE]
  <2>1. /\ entry.reg \in Reg /\ entry.reg.id \in 1..regs
        /\ entry.reg.id \in hist.passed \/ hist.overtaken
    BY <1>2, EntryEffect DEF DirectoryInv, Promoted, Sound, RegSound
  <2>2. l \in Listing /\ l.id = entry.reg.id
    BY <2>1, Numbers DEF Listing, Reg, DirectoryInv, ScalarType
  <2> HIDE DEF l
  <2>3. e \in Entry /\ e.live = l /\ e.reg = Nil BY <2>2 DEF Entry
  <2> HIDE DEF e
  <2>4. Sound(e, regs, hist) BY <2>1, <2>2, <2>3 DEF Sound, ListingSound
  <2>5. PICK ok \in BOOLEAN : Store(e, ok) BY <1>2 DEF promote, e, l
  <2> QED BY <1>1, <2>3, <2>4, <2>5, DropsReg
<1>3. CASE ~Promoted
  <2>1. Keep BY <1>3 DEF promote
  <2>2. PipeSound' /\ KeyStored'
    BY <2>1 DEF Keep, DirectoryInv, PipeSound, KeyStored, Untested, InState, Testing
  <2>3. MoneySound' BY <2>1 DEF Keep, DirectoryInv, MoneySound, Untested, InState
  <2>4. Sound(entry', regs', hist') /\ Sound(indexFile', regs', hist')
    BY <2>1 DEF Keep, DirectoryInv
  <2> QED BY <1>1, <2>2, <2>3, <2>4 DEF DirectoryInv
<1> QED BY <1>2, <1>3

\* A step of the pipeline that leaves the entry, its money and its calls alone.
LEMMA PipeMoves ==
    ASSUME DirectoryInv, Keep, pipe' \in Pipe, PipeSound', KeyStored', hist' \in Hist,
           hist'.fees = hist.fees, hist'.spent = hist.spent, hist'.calls = hist.calls,
           hist.passed \subseteq hist'.passed, hist'.overtaken = hist.overtaken,
           UNCHANGED <<balance, now, regs, keys, crashes>>
    PROVE  DirectoryInv'
<1> USE DEF DirectoryInv
<1>1. ScalarType' BY DEF ScalarType
<1>2. MoneySound' BY DEF Keep, MoneySound, Untested, InState
<1>3. regs \in Nat /\ regs <= regs BY DEF ScalarType
<1>4. Sound(entry', regs', hist') /\ Sound(indexFile', regs', hist')
  BY <1>3, SoundGrows DEF Keep
<1> QED BY <1>1, <1>2, <1>4

\* The steps between the reads and writes of the entry.
LEMMA PipeControl ==
    ASSUME DirectoryInv, PipeStart \/ PipeEnd \/ \E ok \in BOOLEAN : TestEnds(ok)
    PROVE  DirectoryInv'
<1> USE DEF DirectoryInv
<1>1. /\ pipe \in Pipe /\ hist \in Hist /\ Keep
      /\ UNCHANGED <<balance, now, regs, keys, crashes>>
  BY DEF PipeStart, PipeEnd, TestEnds, NotPipe, ScalarType
<1>2. CASE PipeEnd
  <2>1. pipe' \in Pipe /\ pipe'.pc = "idle" BY <1>2 DEF PipeEnd, NoPipe, Pipe
  <2>2. PipeSound' /\ KeyStored' BY <2>1 DEF PipeSound, KeyStored, Testing
  <2> QED BY <1>1, <1>2, <2>1, <2>2, PipeMoves DEF PipeEnd
<1>3. CASE PipeStart
  <2> DEFINE pc == IF entry.reg = Nil THEN "end"
                   ELSE IF entry.reg.state = "crawling" THEN "crawl" ELSE "get"
             key == IF entry.reg = Nil THEN 0 ELSE entry.reg.key
  <2>1. pipe.pc = "start" /\ pipe' = [pipe EXCEPT !.pc = pc, !.key = key] /\ hist' = hist
    BY <1>3 DEF PipeStart, AtPipe
  <2>2. key \in Nat BY EntryEffect DEF Sound, Reg
  <2>3. pc \in {"end", "crawl", "get"} OBVIOUS
  <2>4. pc = "crawl" => entry.reg # Nil /\ entry.reg.state = "crawling" OBVIOUS
  <2> HIDE DEF pc, key
  <2>5. pipe' \in Pipe /\ pipe'.pc = pc BY <1>1, <2>1, <2>2, <2>3 DEF Pipe
  <2>6. pc = "crawl" => hist.calls[entry.reg.id] = {}
    BY <2>4 DEF Sound, RegSound, Early
  <2>7. PipeSound'
    BY <1>1, <2>1, <2>3, <2>5, <2>6 DEF Keep, PipeSound, Untested, Testing
  <2>8. KeyStored'
    BY <1>1, <2>1, <2>3, <2>5 DEF Keep, KeyStored, InState
  <2> QED BY <1>1, <2>1, <2>5, <2>7, <2>8, PipeMoves
<1>4. ASSUME NEW ok \in BOOLEAN, TestEnds(ok) PROVE DirectoryInv'
  <2>1. /\ pipe.pc \in {"call", "again"} /\ pipe' = [pipe EXCEPT !.pc = "judge", !.ok = ok]
        /\ hist' = [hist EXCEPT !.passed = IF ok THEN @ \cup {pipe.reg.id} ELSE @]
    BY <1>4 DEF TestEnds, AtPipe
  <2>2. /\ pipe' \in Pipe /\ pipe'.pc = "judge" /\ pipe'.ok = ok /\ pipe'.reg = pipe.reg
    BY <1>1, <2>1 DEF Pipe, Testing
  <2>3. pipe.reg # Nil /\ pipe.reg.id \in 1..regs /\ regs \in Nat
    BY <2>1 DEF PipeSound, Testing, ScalarType
  <2> DEFINE p == IF ok THEN hist.passed \cup {pipe.reg.id} ELSE hist.passed
  <2>4. p \in SUBSET Nat /\ hist.passed \subseteq p /\ (ok => pipe.reg.id \in p)
    BY <1>1, <2>3 DEF Hist
  <2>5. hist' = [hist EXCEPT !.passed = p] BY <2>1
  <2> HIDE DEF p
  <2>6. /\ hist' \in Hist /\ hist'.passed = p
        /\ hist'.fees = hist.fees /\ hist'.spent = hist.spent /\ hist'.calls = hist.calls
        /\ hist'.overtaken = hist.overtaken
    BY <1>1, <2>4, <2>5 DEF Hist
  <2>7. PipeSound'
    BY <1>1, <2>1, <2>2, <2>3, <2>4, <2>6 DEF Keep, PipeSound, Untested, Testing
  <2>8. KeyStored' BY <2>2 DEF KeyStored
  <2> QED BY <1>1, <2>2, <2>4, <2>6, <2>7, <2>8, PipeMoves
<1> QED BY <1>2, <1>3, <1>4

\* The registration is read for its test, whose call key is noted.
LEMMA PipeGetStep == DirectoryInv /\ PipeGet => DirectoryInv'
<1> SUFFICES ASSUME DirectoryInv, PipeGet PROVE DirectoryInv'
  OBVIOUS
<1> USE DEF DirectoryInv
<1>1. /\ pipe \in Pipe /\ hist \in Hist /\ Keep /\ pipe.pc = "get"
      /\ UNCHANGED <<balance, now, regs, keys, crashes>>
  BY DEF PipeGet, AtPipe, NotPipe, ScalarType
<1>2. CASE ~InState({"testing"})
  <2>1. PipeGoto("end") /\ hist' = hist BY <1>2 DEF PipeGet, PipeGoto
  <2>2. pipe' \in Pipe /\ pipe'.pc = "end" BY <1>1, <2>1, PcEffect
  <2>3. PipeSound' /\ KeyStored' BY <2>2 DEF PipeSound, KeyStored, Testing
  <2> QED BY <1>1, <2>1, <2>2, <2>3, PipeMoves
<1>3. CASE InState({"testing"})
  <2> DEFINE r == entry.reg
             c == [hist.calls EXCEPT ![r.id] = @ \cup {r.key}]
  <2>1. /\ r # Nil /\ r.state = "testing" /\ r \in Reg /\ RegSound(r, regs, hist)
    BY <1>3, EntryEffect DEF InState, Sound
  <2>2. r.id \in Ids /\ r.id \in 1..regs /\ regs \in Nat /\ r.key \in Nat
    BY <2>1, Numbers DEF RegSound, Ids, ScalarType, Reg
  <2>3. pipe' = [pipe EXCEPT !.pc = "call", !.reg = r] /\ hist' = [hist EXCEPT !.calls = c]
    BY <1>3 DEF PipeGet
  <2>4. /\ pipe' \in Pipe /\ pipe'.pc = "call" /\ pipe'.reg = r
    BY <1>1, <2>1, <2>3 DEF Pipe, Testing
  <2>5. /\ c \in [Ids -> SUBSET Nat] /\ c[r.id] = {r.key}
        /\ \A i \in Ids : i # r.id => c[i] = hist.calls[i]
    <3>1. hist.calls \in [Ids -> SUBSET Nat] BY <1>1 DEF Hist
    <3>2. hist.calls[r.id] \subseteq {r.key} BY <2>1 DEF RegSound
    <3> QED BY <2>2, <3>1, <3>2
  <2> HIDE DEF c
  <2>6. /\ hist' \in Hist /\ hist'.calls = c
        /\ hist'.fees = hist.fees /\ hist'.spent = hist.spent /\ hist'.passed = hist.passed
        /\ hist'.overtaken = hist.overtaken
    BY <1>1, <2>3, <2>5 DEF Hist
  <2>7. ScalarType' BY <1>1, <2>4, <2>6 DEF ScalarType
  <2>8. Untested(r.id) BY <1>1, <2>1 DEF PipeSound
  <2>9. PipeSound'
    BY <1>1, <2>1, <2>2, <2>4, <2>6, <2>8 DEF Keep, PipeSound, Untested, InState, Testing
  <2>10. KeyStored' BY <2>4 DEF KeyStored
  <2>11. MoneySound'
    <3>1. \A i \in Ids : i > regs => c[i] = {}
      <4> TAKE i \in Ids
      <4>1. i > regs => i # r.id BY <2>2 DEF Ids
      <4> QED BY <2>5, <4>1 DEF MoneySound
    <3> QED BY <1>1, <2>6, <3>1 DEF Keep, MoneySound, Untested, InState
  <2>12. Sound(entry', regs', hist')
    <3>1. RegSound(r, regs, hist') BY <2>1, <2>5, <2>6 DEF RegSound, Early
    <3> QED BY <1>1, <2>6, <3>1 DEF Keep, Sound, ListingSound
  <2>13. Sound(indexFile', regs', hist')
    <3> DEFINE q == indexFile.reg
    <3>1. ASSUME q # Nil PROVE RegSound(q, regs, hist')
      <4>1. RegSound(q, regs, hist) /\ q.id \in Ids
        BY <3>1, <2>2, Numbers DEF Sound, RegSound, Ids, ScalarType
      <4>2. CASE q.id = r.id
        <5>1. q.key = r.key /\ q.state \notin Early
          BY <1>1, <1>3, <3>1, <4>2 DEF KeyStored
        <5> QED BY <2>5, <2>6, <4>1, <4>2, <5>1 DEF RegSound
      <4>3. CASE q.id # r.id
        BY <2>5, <2>6, <4>1, <4>3 DEF RegSound
      <4> QED BY <4>2, <4>3
    <3> QED BY <1>1, <2>6, <3>1 DEF Keep, Sound, ListingSound
  <2> QED BY <2>7, <2>9, <2>10, <2>11, <2>12, <2>13
<1> QED BY <1>2, <1>3

\* Test money is taken or returned for one registration.
LEMMA SpentChanges ==
    ASSUME hist \in Hist, NEW i \in Ids, NEW d \in Int, hist' = [hist EXCEPT !.spent[i] = @ + d]
    PROVE  /\ hist' \in Hist
           /\ hist'.fees = hist.fees /\ hist'.calls = hist.calls
           /\ hist'.passed = hist.passed /\ hist'.overtaken = hist.overtaken
           /\ hist'.spent[i] = hist.spent[i] + d
           /\ \A j \in Ids : j # i => hist'.spent[j] = hist.spent[j]
<1> DEFINE f == [hist.spent EXCEPT ![i] = @ + d]
<1>1. hist.spent \in [Ids -> Int] BY DEF Hist
<1>2. /\ f \in [Ids -> Int] /\ f[i] = hist.spent[i] + d
      /\ \A j \in Ids : j # i => f[j] = hist.spent[j]
  BY <1>1
<1>3. hist' = [hist EXCEPT !.spent = f] OBVIOUS
<1> HIDE DEF f
<1>4. /\ hist' \in Hist /\ hist'.spent = f
      /\ hist'.fees = hist.fees /\ hist'.calls = hist.calls
      /\ hist'.passed = hist.passed /\ hist'.overtaken = hist.overtaken
  BY <1>3, <1>2 DEF Hist
<1> QED BY <1>2, <1>4

\* The invariant after a step that changes what the test of pipe.reg cost.
LEMMA SpentMoves ==
    ASSUME DirectoryInv, Keep, pipe.pc \in {"call", "pay"}, pipe' \in Pipe,
           pipe'.reg = pipe.reg, pipe'.pc \in Testing \ {"call"}, pipe'.pc = "judge" => ~pipe'.ok,
           NEW d \in Int,
           hist' = [hist EXCEPT !.spent[pipe.reg.id] = @ + d],
           hist.spent[pipe.reg.id] + d <= Budget * crashes + Budget,
           d <= 0 \/ pipe.pc = "call", balance' \in Nat,
           UNCHANGED <<now, regs, keys, crashes>>
    PROVE  DirectoryInv'
<1> USE DEF DirectoryInv
<1> DEFINE i == pipe.reg.id
<1>1. i \in Ids /\ i \in 1..regs /\ regs \in Nat /\ pipe.reg # Nil
  BY Numbers DEF PipeSound, Testing, ScalarType, Ids
<1>2. /\ hist' \in Hist
      /\ hist'.fees = hist.fees /\ hist'.calls = hist.calls
      /\ hist'.passed = hist.passed /\ hist'.overtaken = hist.overtaken
      /\ hist'.spent[i] = hist.spent[i] + d
      /\ \A j \in Ids : j # i => hist'.spent[j] = hist.spent[j]
  BY <1>1, SpentChanges DEF ScalarType
<1>3. ScalarType' BY <1>2 DEF ScalarType
<1>4. Sound(entry', regs', hist') /\ Sound(indexFile', regs', hist')
  <2>1. \A e : Sound(e, regs, hist) => Sound(e, regs, hist')
    <3>1. /\ hist'.passed = hist.passed /\ hist'.overtaken = hist.overtaken
          /\ hist'.calls = hist.calls
      BY <1>2
    <3> QED BY <3>1 DEF Sound, ListingSound, RegSound
  <2>2. Sound(entry, regs, hist') BY <2>1
  <2>3. Sound(indexFile, regs, hist') BY <2>1
  <2> QED BY <2>2, <2>3 DEF Keep
<1>5. PipeSound' BY <1>1, <1>2 DEF Keep, PipeSound, Testing
<1>6. KeyStored' BY DEF KeyStored, Testing
<1>7. hist.spent[i] \in Int /\ Budget * crashes \in Nat
  BY <1>1, BudgetGrows DEF ScalarType, Hist
<1>8. MoneySound'
  <2>1. ASSUME NEW j \in Ids
        PROVE  /\ hist'.spent[j] <= Budget * crashes + Budget
               /\ j > regs => hist'.spent[j] = 0
    BY <1>1, <1>2 DEF MoneySound, Ids
  <2>2. ASSUME InState({"awaiting_funding"}) PROVE hist'.spent[entry.reg.id] <= Budget * crashes
    <3>1. entry.reg.id \in Ids
      BY <2>2, <1>1, Numbers DEF InState, Sound, RegSound, Ids, ScalarType
    <3>2. hist.spent[entry.reg.id] <= Budget * crashes BY <2>2 DEF MoneySound, Untested
    <3>3. CASE entry.reg.id # i BY <1>2, <3>1, <3>2, <3>3
    <3>4. CASE entry.reg.id = i
      <4>1. pipe.pc # "call" BY <2>2, <3>4 DEF PipeSound
      <4> QED BY <1>2, <1>7, <3>2, <3>4, <4>1
    <3> QED BY <3>3, <3>4
  <2> QED BY <1>2, <2>1, <2>2 DEF Keep, MoneySound, Untested, InState
<1> QED BY <1>3, <1>4, <1>5, <1>6, <1>8

\* The escrow debit and its refund.
LEMMA DebitStep ==
    ASSUME DirectoryInv, NEW q \in Quotes, TestDebit(q) PROVE DirectoryInv'
<1> USE DEF DirectoryInv
<1>1. /\ pipe \in Pipe /\ pipe.pc = "call" /\ q \in Nat /\ q <= balance /\ balance \in Nat
      /\ UNCHANGED <<now, regs, keys, crashes>> /\ Keep /\ balance' = balance - q
  BY Numbers DEF TestDebit, AtPipe, Covered, NotPipe, ScalarType
<1>2. pipe.reg # Nil /\ pipe.reg.id \in Ids
  BY <1>1, Numbers DEF PipeSound, Testing, Ids, ScalarType
<1>3. pipe.reg.paid \in Nat BY <1>1, <1>2 DEF Pipe, Reg
<1>4. q <= Budget BY <1>1, <1>3, Numbers DEF TestDebit, WithinRemaining, Remaining
<1>5. Budget * crashes \in Nat /\ hist.spent[pipe.reg.id] \in Int
  BY <1>2, BudgetGrows DEF ScalarType, Hist
<1>6. hist.spent[pipe.reg.id] + q <= Budget * crashes + Budget
  BY <1>1, <1>4, <1>5, Numbers DEF PipeSound, Untested
<1>7. pipe' = [pipe EXCEPT !.pc = "pay", !.paid = q] BY DEF TestDebit
<1>8. pipe' \in Pipe /\ pipe'.reg = pipe.reg /\ pipe'.pc = "pay"
  BY <1>1, <1>7 DEF Pipe, Testing
<1>9. hist' = [hist EXCEPT !.spent[pipe.reg.id] = @ + q] BY DEF TestDebit
<1> QED BY <1>1, <1>6, <1>8, <1>9, SpentMoves DEF Testing

LEMMA PayStep == DirectoryInv /\ TestPay => DirectoryInv'
<1> SUFFICES ASSUME DirectoryInv, TestPay PROVE DirectoryInv'
  OBVIOUS
<1> USE DEF DirectoryInv
<1>1. /\ pipe \in Pipe /\ pipe.pc = "pay" /\ balance \in Nat /\ hist \in Hist
      /\ UNCHANGED <<now, regs, keys, crashes>> /\ Keep
  BY DEF TestPay, AtPipe, NotPipe, ScalarType
<1>2. pipe.reg # Nil /\ pipe.reg.id \in Ids /\ pipe.reg.id \in 1..regs
  BY <1>1, Numbers DEF PipeSound, Testing, Ids, ScalarType
<1>3. CASE UNCHANGED <<hist, balance>>
  <2>1. \/ pipe' = [pipe EXCEPT !.pc = "again"]
        \/ pipe' = [pipe EXCEPT !.pc = "judge", !.ok = FALSE, !.paid = 0]
    BY <1>3 DEF TestPay, PipeGoto
  <2>2. /\ pipe' \in Pipe /\ pipe'.reg = pipe.reg /\ pipe'.pc \in {"again", "judge"}
        /\ pipe'.pc = "judge" => ~pipe'.ok
    <3>1. CASE pipe' = [pipe EXCEPT !.pc = "again"]
      BY <1>1, <3>1 DEF Pipe, Testing
    <3>2. CASE pipe' = [pipe EXCEPT !.pc = "judge", !.ok = FALSE, !.paid = 0]
      BY <1>1, <3>2 DEF Pipe, Testing
    <3> QED BY <2>1, <3>1, <3>2
  <2>3. PipeSound' BY <1>1, <1>2, <1>3, <2>2 DEF Keep, PipeSound, Testing
  <2>4. KeyStored' BY <2>2 DEF KeyStored
  <2> QED BY <1>1, <1>3, <2>2, <2>3, <2>4, PipeMoves
<1>4. CASE /\ pipe' = [pipe EXCEPT !.pc = "judge", !.ok = FALSE, !.paid = 0]
           /\ balance' = balance + pipe.paid
           /\ hist' = [hist EXCEPT !.spent[pipe.reg.id] = @ - pipe.paid]
  <2>1. pipe.paid \in Nat /\ -pipe.paid \in Int /\ -pipe.paid <= 0 BY <1>1 DEF Pipe
  <2>2. /\ pipe' \in Pipe /\ pipe'.reg = pipe.reg /\ pipe'.pc = "judge" /\ ~pipe'.ok
    BY <1>1, <1>4 DEF Pipe, Testing
  <2>3. hist.spent[pipe.reg.id] \in Int BY <1>1, <1>2 DEF Hist
  <2>4. hist' = [hist EXCEPT !.spent[pipe.reg.id] = @ + (-pipe.paid)]
    BY <1>4, <2>1, <2>3
  <2>5. Budget * crashes \in Nat BY BudgetGrows DEF ScalarType
  <2>6. hist.spent[pipe.reg.id] + (-pipe.paid) <= Budget * crashes + Budget
    BY <1>2, <2>1, <2>3, <2>5, Numbers DEF MoneySound
  <2>7. balance' \in Nat BY <1>1, <1>4, <2>1
  <2> QED BY <1>1, <2>1, <2>2, <2>4, <2>6, <2>7, SpentMoves DEF Testing
<1> QED BY <1>3, <1>4 DEF TestPay

\* A restart: memory is what the index file holds, and what was tested or
\* paid before counts as one more crash.
LEMMA RestartStep ==
    ASSUME DirectoryInv, NEW torn \in BOOLEAN, Restart(torn) PROVE DirectoryInv'
<1> USE DEF DirectoryInv
<1>1. /\ entry' = indexFile /\ indexFile' = indexFile /\ crashes' = crashes + 1
      /\ UNCHANGED <<now, regs, keys>> /\ crashes \in Nat /\ hist \in Hist
  BY DEF Restart, ScalarType
<1>2. pipe' \in {NoPipe, [NoPipe EXCEPT !.pc = "start"]} BY DEF Restart
<1>3. pipe' \in Pipe /\ pipe'.pc \in {"idle", "start"}
  <2>1. NoPipe \in Pipe /\ NoPipe.pc = "idle" BY DEF NoPipe, Pipe
  <2>2. /\ [NoPipe EXCEPT !.pc = "start"] \in Pipe
        /\ [NoPipe EXCEPT !.pc = "start"].pc = "start"
    BY DEF NoPipe, Pipe
  <2> QED BY <1>2, <2>1, <2>2
<1>4. /\ Budget * crashes \in Nat /\ Budget * (crashes + 1) = Budget * crashes + Budget
  BY <1>1, BudgetGrows
<1>5. /\ hist' \in Hist /\ balance' \in Nat
      /\ hist'.spent = hist.spent /\ hist'.calls = hist.calls
      /\ hist'.passed = hist.passed /\ hist'.overtaken = hist.overtaken
      /\ \A i \in Ids : /\ hist'.fees[i] <= crashes + 1
                        /\ i > regs => hist'.fees[i] = 0
  <2>1. CASE ~torn
    BY <1>1, <2>1, FeesKept DEF Restart, ScalarType
  <2>2. CASE torn
    <3> DEFINE r == entry.reg
    <3>1. /\ InState({"awaiting_funding"}) /\ balance' = balance - r.fee
          /\ balance >= r.fee + Budget
          /\ hist' = [hist EXCEPT !.fees[r.id] = @ + 1]
      BY <2>2 DEF Restart, Funded
    <3>2. r \in Reg /\ r.id \in 1..regs
      BY <3>1, EntryEffect DEF InState, Sound, RegSound
    <3>3. regs \in 0..MaxRegs /\ balance \in Nat /\ r.fee \in Nat
      BY <3>2 DEF ScalarType, Reg
    <3>4. r.id \in Ids /\ balance' \in Nat BY <3>1, <3>2, <3>3, Numbers DEF Ids
    <3>5. /\ hist' \in Hist
          /\ hist'.spent = hist.spent /\ hist'.calls = hist.calls
          /\ hist'.passed = hist.passed /\ hist'.overtaken = hist.overtaken
          /\ hist'.fees[r.id] = hist.fees[r.id] + 1
          /\ \A j \in Ids : j # r.id => hist'.fees[j] = hist.fees[j]
      BY <1>1, <3>1, <3>4, FeeTaken
    <3>6. hist.fees[r.id] <= crashes /\ hist.fees[r.id] \in Nat
      BY <1>1, <3>1, <3>4 DEF MoneySound, Hist
    <3>7. \A i \in Ids : /\ hist'.fees[i] <= crashes + 1
                         /\ i > regs => hist'.fees[i] = 0
      BY <1>1, <3>2, <3>3, <3>5, <3>6, FeesKept DEF Ids
    <3> QED BY <3>4, <3>5, <3>7
  <2> QED BY <2>1, <2>2
<1>6. ScalarType' BY <1>1, <1>3, <1>5 DEF ScalarType
<1>7. Sound(entry', regs', hist') /\ Sound(indexFile', regs', hist')
  <2>1. regs \in Nat /\ regs <= regs BY DEF ScalarType
  <2> QED BY <1>1, <1>5, <2>1, SoundGrows
<1>8. indexFile.reg # Nil => indexFile.reg.id \in Ids
  BY Numbers DEF Sound, RegSound, Ids, ScalarType
<1>9. \A i \in Ids : /\ hist'.spent[i] <= Budget * crashes'
                     /\ hist'.fees[i] <= crashes'
  <2>1. \A i \in Ids : hist.spent[i] <= Budget * crashes + Budget BY DEF MoneySound
  <2>2. Budget * crashes' = Budget * crashes + Budget BY <1>1, <1>4
  <2>3. \A i \in Ids : hist.spent[i] <= Budget * crashes' BY <2>1, <2>2
  <2>4. \A i \in Ids : hist'.spent[i] = hist.spent[i] BY <1>5
  <2>5. \A i \in Ids : hist'.fees[i] <= crashes' BY <1>1, <1>5
  <2> QED BY <2>3, <2>4, <2>5
<1>10. PipeSound'
  BY <1>1, <1>3, <1>8, <1>9 DEF PipeSound, Untested, Testing
<1>11. KeyStored'
  BY <1>1 DEF KeyStored, InState, Early
<1>12. MoneySound'
  <2>1. \A i \in Ids : /\ hist'.fees[i] <= crashes' + 1
                       /\ hist'.spent[i] <= Budget * crashes' + Budget
    <3> TAKE i \in Ids
    <3>1. hist'.fees[i] \in Nat /\ hist'.spent[i] \in Int BY <1>5 DEF Hist
    <3> QED BY <1>1, <1>4, <1>9, <3>1, Numbers
  <2>2. \A i \in Ids : i > regs' => /\ hist'.fees[i] = 0 /\ hist'.spent[i] = 0
                                    /\ hist'.calls[i] = {}
    <3>1. \A i \in Ids : i > regs => hist.spent[i] = 0 /\ hist.calls[i] = {}
      BY DEF MoneySound
    <3>2. \A i \in Ids : hist'.spent[i] = hist.spent[i] /\ hist'.calls[i] = hist.calls[i]
      BY <1>5
    <3>3. \A i \in Ids : i > regs => hist'.fees[i] = 0 BY <1>5
    <3>4. regs' = regs BY <1>1
    <3> QED BY <3>1, <3>2, <3>3, <3>4
  <2> QED BY <1>1, <1>8, <1>9, <2>1, <2>2 DEF MoneySound, Untested, InState
<1> QED BY <1>6, <1>7, <1>10, <1>11, <1>12

LEMMA DirectoryStep == DirectoryInv /\ [Next]_vars => DirectoryInv'
<1> SUFFICES ASSUME DirectoryInv, [Next]_vars PROVE DirectoryInv'
  OBVIOUS
<1>1. CASE UNCHANGED vars
  <2>1. Keep /\ UNCHANGED <<pipe, regs, crashes, hist, keys, balance, now>>
    BY <1>1 DEF vars, Keep
  <2>2. ScalarType' BY <2>1 DEF DirectoryInv, ScalarType
  <2> QED BY <2>1, <2>2, KeepsEntry
<1>2. CASE PipePromote
  <2>1. /\ PipeGoto("end") /\ promote
        /\ UNCHANGED <<hist, balance, now, regs, keys, crashes>>
    BY <1>2 DEF PipePromote, NotPipe
  <2>2. /\ pipe' \in Pipe /\ pipe'.pc = "end" /\ pipe'.reg = pipe.reg /\ pipe'.ok = pipe.ok
    BY <2>1, PcEffect DEF DirectoryInv, ScalarType
  <2> QED BY <2>1, <2>2, PromoteStep
<1>3. CASE ApprovePromote
  BY <1>3, PromoteStep DEF ApprovePromote, Admin, DirectoryInv, ScalarType
<1>4. CASE PipeStep
  BY <1>2, <1>4, CrawlStep, PipeControl, PipeGetStep, DebitStep, PayStep, JudgedStep
     DEF PipeStep
<1>5. CASE AdminStep
  BY <1>3, <1>5, AdminKeeps, SpotCheckStep DEF AdminStep
<1> QED
  BY <1>1, <1>4, <1>5, RegisterStep, PokeStep, AdminKeeps, RestartStep DEF Next

LEMMA DirectoryInit == Init => DirectoryInv
<1> SUFFICES ASSUME Init PROVE DirectoryInv
  OBVIOUS
<1> USE DEF DirectoryInv
<1>1. /\ entry = NoEntry /\ indexFile = NoEntry /\ pipe = NoPipe /\ entry.reg = Nil
      /\ {balance, now, regs, keys, crashes} = {0} /\ crashes = 0 /\ regs = 0
  BY DEF Init, NoEntry
<1>2. /\ hist \in Hist
      /\ \A i \in Ids : hist.fees[i] = 0 /\ hist.spent[i] = 0 /\ hist.calls[i] = {}
  BY DEF Init, Hist, Ids
<1>3. ScalarType BY <1>1, <1>2, Numbers DEF ScalarType, NoPipe, Pipe
<1>4. Sound(entry, regs, hist) /\ Sound(indexFile, regs, hist) BY <1>1, NoEntrySound
<1>5. PipeSound /\ KeyStored BY <1>1 DEF PipeSound, KeyStored, NoPipe, Testing
<1>6. MoneySound
  <2>1. Budget * crashes = 0 BY <1>1, Numbers
  <2> QED BY <1>1, <1>2, <2>1, Numbers DEF MoneySound, InState
<1> QED BY <1>3, <1>4, <1>5, <1>6

LEMMA DirectoryInvariant == Spec => []DirectoryInv
BY DirectoryInit, DirectoryStep, PTL DEF Spec

-----------------------------------------------------------------------------
(* What the invariant means.                                               *)

\* Every value has its type: no fee, escrow debit or refund makes the balance
\* negative, and nothing is tested without a call key (runTest, pokeFunding).
THEOREM DirectoryTypeCorrect == Spec => []DirectoryTypeOK
<1>1. DirectoryInv => DirectoryTypeOK
  <2> SUFFICES ASSUME DirectoryInv PROVE DirectoryTypeOK
    OBVIOUS
  <2> USE DEF DirectoryInv
  <2>1. balance \in Nat BY DEF ScalarType
  <2>2. entry \in Entry BY DEF Sound
  <2>3. entry.flag \in BOOLEAN BY <2>2, EntryEffect
  <2>4. entry.reg # Nil => /\ entry.reg.state \in States
                           /\ entry.reg.id \in 1..regs
                           /\ entry.reg.state = "testing" => entry.reg.key # 0
    BY <2>2, EntryEffect DEF Sound, RegSound, Reg
  <2>5. entry.live # Nil => entry.live.id \in 1..regs BY DEF Sound, ListingSound
  <2>6. pipe.pc \in Testing => pipe.reg # Nil BY DEF PipeSound
  <2> QED
    BY <2>1, <2>3, <2>4, <2>5, <2>6 DEF DirectoryTypeOK, AtPipe, Testing, States
<1> QED BY <1>1, DirectoryInvariant, PTL

\* What is listed passed its own test, unless an admin, the sweeper or a new
\* registration changed the entry under its pipeline (runPipeline, promote).
THEOREM ListedUnlessOvertakenCorrect == Spec => []ListedUnlessOvertaken
<1>1. DirectoryInv => ListedUnlessOvertaken
  BY DEF DirectoryInv, Sound, ListingSound, ListedUnlessOvertaken
<1> QED BY <1>1, DirectoryInvariant, PTL

\* A registration pays one fee and one budget, and each restart may cost it
\* one more of each (pokeFunding, paidCall).
THEOREM ProviderPaysOnceCorrect == Spec => []ProviderPaysOnce
<1>1. DirectoryInv => ProviderPaysOnce
  <2> SUFFICES ASSUME DirectoryInv PROVE ProviderPaysOnce
    OBVIOUS
  <2>1. crashes \in Nat BY DEF DirectoryInv, ScalarType
  <2>2. Budget * (1 + crashes) = Budget * crashes + Budget
    <3>1. 1 + crashes = crashes + 1 BY <2>1
    <3> QED BY <2>1, <3>1, BudgetGrows
  <2>3. FeeBounded BY <2>1 DEF DirectoryInv, MoneySound, FeeBounded, Ids
  <2>4. BudgetBounded BY <2>2 DEF DirectoryInv, MoneySound, BudgetBounded, Ids
  <2> QED BY <2>3, <2>4 DEF ProviderPaysOnce
<1> QED BY <1>1, DirectoryInvariant, PTL

-----------------------------------------------------------------------------
(* One key per test: the entry remembers the key only as long as it holds  *)
(* the registration, so that the history has an invariant of its own.      *)

OneKey == \A i \in Ids : \A k, l \in hist.calls[i] : k = l

LEMMA OneKeyStep == DirectoryInv /\ OneKey /\ [Next]_vars => OneKey'
<1> SUFFICES ASSUME DirectoryInv, OneKey, [Next]_vars PROVE OneKey'
  OBVIOUS
<1>1. hist \in Hist BY DEF DirectoryInv, ScalarType
<1>2. CASE hist'.calls = hist.calls BY <1>2 DEF OneKey
<1>3. CASE PipeGet /\ InState({"testing"})
  <2> DEFINE r == entry.reg
             c == [hist.calls EXCEPT ![r.id] = @ \cup {r.key}]
  <2>1. hist.calls[r.id] \subseteq {r.key}
    BY <1>3 DEF DirectoryInv, Sound, RegSound, InState
  <2>2. hist' = [hist EXCEPT !.calls = c] BY <1>3 DEF PipeGet
  <2>3. hist.calls \in [Ids -> SUBSET Nat] BY <1>1 DEF Hist
  <2>4. \A i \in Ids : c[i] = IF i = r.id THEN hist.calls[i] \cup {r.key} ELSE hist.calls[i]
    BY <2>3
  <2> HIDE DEF c
  <2>5. hist'.calls = c BY <1>1, <2>2 DEF Hist
  <2> QED BY <2>1, <2>4, <2>5 DEF OneKey
<1>4. ASSUME hist' # hist, ~(PipeGet /\ InState({"testing"})) PROVE hist'.calls = hist.calls
  <2>1. CASE hist' = [hist EXCEPT !.overtaken = @ \/ Inflight]
    BY <1>1, <2>1, Overtaken
  <2>2. ASSUME NEW f, hist' = [hist EXCEPT !.fees = f] \/ hist' = [hist EXCEPT !.spent = f]
                              \/ hist' = [hist EXCEPT !.passed = f]
        PROVE  hist'.calls = hist.calls
    BY <1>1, <2>2 DEF Hist
  <2> QED
    BY <1>4, <2>1, <2>2
       DEF Next, vars, handleRegister, WriteIndex, CreditTip, pokeFunding, PipeStep, PipeStart,
           Crawled, CrawlFailed, PipeGet, TestDebit, TestPay, TestEnds, Judged, PipePromote,
           PipeEnd, AdminStep, Approve, ApprovePromote, rejectRegistration, Unlist, UnlistGet,
           UnlistDelete, Flag, spotCheck, SweepExpire, SweepDelete, SweepRecrawl,
           SweepRecrawled, SweepFunding, Restart, Tick
<1> QED BY <1>2, <1>3, <1>4

\* The test of a registration is issued under one call key, also when a crash
\* or a lost write has it issued again (runPipeline, runTest).
THEOREM OneKeyPerTestCorrect == Spec => []OneKeyPerTest
<1>1. Init => OneKey BY DEF Init, OneKey, Ids
<1>2. Spec => []OneKey BY <1>1, DirectoryInvariant, OneKeyStep, PTL DEF Spec
<1>3. OneKey => OneKeyPerTest
  <2> SUFFICES ASSUME OneKey, NEW i \in Ids PROVE Cardinality(hist.calls[i]) <= 1
    BY DEF OneKeyPerTest, Ids
  <2>1. CASE hist.calls[i] = {} BY <2>1, FS_EmptySet
  <2>2. CASE hist.calls[i] # {}
    <3>1. PICK k \in hist.calls[i] : hist.calls[i] = {k} BY <2>2 DEF OneKey
    <3> QED BY <3>1, FS_Singleton
  <2> QED BY <2>1, <2>2
<1> QED BY <1>2, <1>3, PTL
=============================================================================
