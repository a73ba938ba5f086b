# Verification of brmcp

TLA+ models of brmcp (MCP over Bison Relay private messages, with paid tools,
a local bridge and a tool directory), TLC configurations that check them on
small instances, and TLAPS proofs about every component modelled: the paid-call
harness and the bridge that calls it, the tip loop, the bridge's payments, message
reassembly and the session router, the directory, the federation and the registrant. Paths below are relative to the repository.

## 1. The system

| Component | Code | State | Operations | Interacts with |
|---|---|---|---|---|
| Wire format, reassembly | `wire/wire.go` | pending messages, per-peer and total byte counters | `Encode`, `Parse`, `Assembler.Add` | the router feeds it every private message |
| Router and sessions | `transport.go` | session table, per-peer counts, inbox and `done` of each `Conn` | `HandlePM`, `Dial`, `Conn.Read/Write/Close`, idle sweeper, `Close` | one goroutine delivers messages; owners, sweeper and `Close` close sessions |
| Serving harness | `server/harness.go` | claims by idempotency key, call records | paid tool handler, `claimCall`, `charge`, `completeCall`, `releaseCall`, crash reconciliation | ledger, journal, the operator's tool code |
| Paid-call journal | `server/journal.go` | `calls.json` | `charged`, `complete`, `remove`, `interrupted`, `completedRecords`, `gc` | the harness only |
| Ledger | `server/ledger.go` | balances in memory and in a file | `Credit`, `Debit`, `OpenLedger` | harness, tip loop, directory |
| Tip loop, tip journal | `server/bot.go`, `server/tipjournal.go` | ids of tips already credited | receive, credit, record, acknowledge, reconnect | the Bison Relay daemon redelivers unacknowledged tips |
| Bridge payments | `bridge/payment.go`, `tippayer.go`, `tipmatcher.go` | spend log, pending approvals, waiters for tip outcomes | `settle`, `ResolvePayment`, `Pay`, `Progress`, `ResolveSpend` | user, tip rail, settings |
| Bridge sessions | `bridge/session.go`, `bridge.go` | a table with one link per bot: session, mirrored catalog | dial, reset, mirror, passthrough call with one key across retry and payment, `Close` | router below, agents' HTTP requests above, the bot's harness at the other end |
| HTTP gate, settings | `bridge/http.go`, `settings.go`, `allowlist.go` | listener, tokens, policy, allow list | request gate, `ApplySettings` | drops links, changes caps |
| Directory | `directory/pipeline.go`, `service.go`, `client.go`, `store.go`, `admin.go` | index entries (listing, registration, flag), pipelines in flight, balances | register, fund, crawl, paid test, review, promote, renew, recrawl, expire, take down | providers over MCP, admins, sweeper |
| Spend journal | `directory/client.go` | `spend.json` | `record`, `remove` around each payment | paid tests and snapshots |
| Federation | `directory/federation.go`, `snapshot.go` | leads, peers | verify a peer's snapshot, make leads, pursue, introduce, resume after a key exchange, convert | other directories, providers, the index |
| Registrant | `directory/registrant.go` | fund history `regfund.json` | `Register`, `listing_invite`, auto-fund policy | directories, payment rail |
| Commands, adapters | `cmd/`, `botkit`, `brclient`, `brmcptest` | none of their own | wiring | |

What is hard: every component is driven by several goroutines that release
their lock between looking and acting; money is moved by a rail that may
answer late, never, or for somebody else's equal tip; balances, journals and
indexes are separate files written one after the other, each write may fail,
and the process may die between any two; the relay loses the connection and
delivers again. `PROJECT.json` lists these hazards line by line with the
properties that cover them, and says which ones no property covers and why.

What makes each component correct:

* harness: one logical call (caller and key) is executed, charged and answered
  once, whatever is retried; a caller who was charged either gets the output or
  his money back; nobody waits for ever;
* tips: acknowledged implies credited, recorded implies never credited again;
* reassembly: bounds hold, the counters they rest on do not drift, a completed
  message is the one that was sent;
* router: table, counts and open connections agree; the message loop is never
  blocked; `Close` leaves nothing behind;
* bridge: what has been or may have been spent is always counted against the
  caps;
* directory: what is listed passed its own paid test; fees and tests cost what
  was announced, once;
* passthrough: one logical call costs once at most, its answer agrees with what
  it cost, and no session is lost without being closed;
* spend journal: it never has fewer entries than there are payments that may have left;
* federation: a registered provider has no lead left to pursue, and a parked pursuit is
  not forgotten;
* registrant: what may have left is in the history before it leaves.

## 2. Modules

| Module | Models | Checked through |
|---|---|---|
| `Ledger` | `server/ledger.go`, used by `Harness` and `TipCredit` | `MCHarness`, `MCTipCredit` |
| `Harness` | `server/harness.go`, `server/journal.go`, composed with `Ledger` | `MCHarness` |
| `PaidCall` | the promise of the harness about money, without its machinery | as a property, through `HarnessRefinement` |
| `HarnessRefinement` | the mapping from `Harness` to `PaidCall` | `MCHarness` |
| `Relay` | `bridge/session.go`, the allow check of `http.go`, the links' part of `settings.go` and `bridge.go`, composed with `Harness` | `MCRelay` |
| `HarnessProofs` | theorems about the five modules above | tlapm |
| `TipCredit` | tip loops of `server/bot.go` and `cmd/brmcpdir/main.go`, `server/tipjournal.go`, composed with `Ledger` | `MCTipCredit` |
| `TipCreditProofs` | theorems about `TipCredit` | tlapm |
| `Assembler` | `wire/wire.go` | `MCTransport` |
| `Router` | `transport.go`, in both roles | `MCTransport` |
| `TransportProofs` | theorems about `Router` and `Assembler` | tlapm |
| `BridgeSpend` | `bridge/payment.go`, `tippayer.go`, `tipmatcher.go`, the policy of `settings.go` | `MCBridgeSpend` |
| `BridgeSpendProofs` | theorems about `BridgeSpend` | tlapm |
| `Directory` | `directory/pipeline.go` and the parts of `service.go`, `client.go`, `store.go`, `admin.go` it drives | `MCDirectory` |
| `DirectoryProofs` | theorems about `Directory` | tlapm |
| `Federation` | `directory/federation.go`, the spend journal of `client.go`, the peer and lead tools of `admin.go` | `MCFederation` |
| `FederationProofs` | theorems about `Federation` | tlapm |
| `Registrant` | `directory/registrant.go` | `MCRegistrant` |
| `RegistrantProofs` | theorems about `Registrant` | tlapm |
| `SumTheorems` | lemmas on sums over finite sets, for the proofs about money | tlapm |

The granularity is the same everywhere: one action is one critical section, one
durable write or one call of an external party, and a program counter holds
what a goroutine remembers between two of them. Every write of a file takes
`ok`: a failing write changes memory and not the file, as the code does
(memory first, then temporary file and rename). A crash keeps files and loses
everything else. History variables (`deposited`, `charged`, `refunds`, `raced`,
`revived`, `unsure`, `astray`, `missed`, `hist`, `left`, ...) are never read by the actions of the program.

Operators whose comment begins with "Mutant:" are plausible bugs. They stand
before the definition they would replace and are used by nothing; `PROJECT.json`
pairs each property with at least one that breaks it under the run's own
configuration.

### Harness
`pc[c]` follows one delivery through the paid tool handler of `AddToolPriced`:
claim, price, gates, charge, journal entry, tool, refund of a failure, completion.
`claimCall` is the critical section on `calls`; a duplicate goes to `wait` and is
answered when the record is closed (`AnswerDuplicate`). `journalCharged`,
`completeCall`, `RemoveInterrupted`, `Serve` write `callsFile`. `RecoveryStep` is
`NewHarness`: reload, one refund and one removal per interrupted charge,
then the replayable outcomes return and the harness serves.
Abstractions: `completeCall` is one step (memory, journal and closing the
record; nobody can see the memory before the file); outcomes are ok, error, or
"not retained" (too big for the journal); the token bucket and the allow list
are a refusal that may come at any time (`RefuseEarly`); the journal's
whole-second expiry and the record's finer one are the same clock here; a
graceful shutdown is a crash.

### PaidCall and HarnessRefinement
`PaidCall` knows bills only: a charge is `Hold`, `Settle`d (kept for an output),
`GiveBack` (the tool failed), or taken by a crash, and then owed until
`MakeGood` or, unjournaled, lost. One delivery of a key holds a charge at a time,
none while an outcome of the key answers it, and nothing is taken up while
anything is owed. `BillOf` reads the bill off history, file and records. The harness
promises nothing once a write has failed, which is `Fault`: from then on the mapped
state is constant. A refund before its entry is completed may be repeated by a
crash: the abstract `Crash` may make a returned bill owed again, and
`GivenBackOncePerCrash` says how often that can happen.

### Relay
One bot, and the links (`botLink`) the bridge makes for it. `entry` is the one in its
table (`b.bots`), `link[l]` the session of each, dead or alive, `held[r]` the link a request
works on. A request passes the `Gate` (the bot is allowed at that moment), then looks its
link up and has the catalog mirrored twice (`Find`, `Mirror`: once in `authMiddleware`, once
for the handler, `http.go:28-37`, `98-103`), and then calls. `dialLocked` uses the link's
session or dials one, `reset` closes whatever session it has by now.
`rpc[r]` follows a `passthrough`: `Dial`, `CallFails` (one retry, then the error), `CallReturns`,
`Settle`, `Poll`. `Attempts[r]` are the deliveries its attempts cause, with one
key; each is a delivery of `Harness`, which is the bot at the other end, and
the payment is a tip that becomes a `TopUp`. `settle` is abstracted to its
outcomes (see `BridgeSpend`): paid, or not paid with or without a tip still under
way. `tips` is shared, as all calls of a bridge share one balance at the bot.

`ApplySettings` takes the bot off the allow list or puts it back, any number of times up to
the bound; when it takes it off, the link in the table is deleted and then, outside the
lock, reset (`DropLink`). A request on its way keeps the link it holds. The HTTP handler is stateless
(`http.go:43`), so nobody else does: a new request asks the table. While the bot is not
allowed the router drops what it sends (`transport.go:145`), so that no dial comes to an
end and no answer arrives; `dialLocked` then ends without a session, and closes its
connection. Once it is allowed again, a request finds a new link in the table, while a call
that kept the old one may dial on that. `astray` remembers those links. `Close`, `CloseLink`,
`CloseRouter` are `Bridge.Close`; the router's own `Close` is one step here and
several in `Router`.

Around it: other calls on a link (`NeighbourFails`), a connection that breaks
(`Break`), the bot's sweeper (`BotSweeps`), its crash (`BotCrash`), agents that leave
(`Disconnect`). A first delivery that was late may still execute after its agent was told
that no payment was made. A dial is one step, with the bot's end opening together with the
bridge's: the handshake, during which the link is locked, is not modelled.

### TipCredit
The relay keeps tips until they are acknowledged (`unacked`) and streams them
again after every reconnect (`Reconnect`, `Stream`; external). `Receive`,
`CreditTip`, `RecordTip`, `AckTip` are the steps of `tipLoop`; `tipChan` survives a
lost connection, a crash loses it. An acknowledgement may fail while connected (`AckTip`):
the error is logged (`bot.go:163-165`), and the tip stays with the daemon until the next
connection. `missed` remembers the tips for which only that is left.
`host` is chosen in `Init`: the serving bot leaves a tip it could not credit
unacknowledged and credits allowed peers only; `brmcpdir` credits every peer and goes on
whatever the ledger said (`Service.CreditTip` only logs the error).

### Assembler
`Encode` yields the parts of a message; the relay delivers any part at any time
and any number of times, together with parts no `Encode` produced (`Rogue`).
`Add` is one critical section and one action. `pending` is a map of the messages that
are pending, `gcLocked` the drop of all stale ones at once (the order of
its loop does not matter: a counter only goes down, and not below 0). A part is a record; `Parse` is what
the code demands of its numbers, regular expressions and base64 are left out.
The module shares no name with `Router`, so that the two stand beside each other.

### Router
`HandlePM` takes the lock once (`Lookup`, `Admit` or `Refuse`), hands a new
connection to the MCP server (`Accept`), then queues outside the lock
(`Enqueue`). `Close({c})` closes `done` once; `onClose` is the second critical
section. Sweeper and `Router.Close` collect under the lock and close
outside it (`Sweep`/`SweepClose`, `RouterClose`/`CloseDoomed`). The update of a
connection's activity is part of `HandlePM`'s critical section. `serverRole` is
chosen in `Init`: a client router opens no session for an unknown id. Payload and
reassembly are left out.

### BridgeSpend
`call[c]` follows one `settle`: cap check, approval, log entry, `Expect`, tip,
wait for an outcome or the budget, mark. The rail (`Progress`) is external and may
report at any time or never; an outcome goes to the oldest waiter of the same payee
and amount, whoever's tip it was, and one without a waiter goes to `ResolveSpend`
(`late`). When the call that starts a tip returns an error, the tip was not sent, or it was
and the answer got lost (`TipRefused`): `Pay` cannot tell and reports a failure. `unsure`
remembers the second case. Whatever ends a wait takes the waiter out (`Cancel`). A settle that
returns forgets what it remembered (`Returned`). `Others` are tips the user sends from the
chat. `spend` is every entry ever logged, `dropped` how many pruning removed.

### Directory
One provider's index entry with its listing, registration and flag; a pipeline
goroutine; one admin operation at a time; the sweeper, which expires and refreshes
(`SweepRecrawl` looks, `SweepRecrawled` replaces the listing's catalog); `poke` stands
for a call of `pokeFunding` under way. `get` followed by `mutate` is two steps (that
is where the code is exposed), a `mutate` is one. `WriteIndex` stands for the writes of the
shared index file by other entries. `Restart(torn)` includes the debit
whose index write was lost. The directory's own ledger does not fail here.

### Federation
`job[j]` is a goroutine: a peer verification, another paid test, or a pursuit, each
once. They share the leads, the peers and the spend journal, each a map in memory and a
file. A payment is `record` (its token is the position in the journal), `Pay`,
`PayEnds` or `PayFails`, and `remove`, which takes out what is at that position by
then. A bought snapshot goes through the index and the leads (`LookInIndex`,
`LookInLeads`, `MakeLead`), then `Stamp`s the peer's record, which it makes anew,
without a key, when the peer was removed meanwhile; the snapshot of such a peer
is bought for nothing. A pursuit invites, asks for an introduction, and is parked;
`NotifyKX` resumes it. Of the index only matters whether it knows the provider
(`Register`, `convertLead`, `Delist`). One provider: leads of different providers share
only their file.

### Registrant
`job[j]` follows one `Register`, called by the host or by `listing_invite`. The
policy check, the history entry and the payment are separate steps, several
registrations run at once. What the directory answers and what the rail reports
is nondeterministic; `left` is the set of payments whose money may have left.

## 3. Runs

| Run | Shows | Bounds, and why they suffice |
|---|---|---|
| `Harness_safety` | `TypeOK`, `SingleFlight`, `SettledIsFinal`, `OutcomeWasProduced`, `LedgerAddsUp`, `GivenBackOncePerCrash`, `ImplementsPaidCall` | two deliveries of one key and one without, from one balance that does not pay for all; free and priced calls; two crashes (the second may hit the recovery), one failing write anywhere, one tick (a replay window ends, a later claim uses the key again); symmetry in the two deliveries, safety only |
| `Relay_calls` | `RelayTypeOK`, `ChargedOnce`, `AnswerMatchesBill`, `EverythingIsAnswered` | one logical call of three attempts (`MaxPolls` 2 for the code's 6: one retry before the payment, one poll after it); two sessions, one broken connection, one change of the settings, neighbours, agent and bot's sweeper at any time; one crash of the bot; no failing write, `Harness_safety` has it |
| `Relay_links` | `NoSessionLeaks` | two calls, three sessions, and two changes of the settings: the fewest with which a link goes astray beside a new one; `Close` at any time; a state constraint ends a behaviour when a request reaches the bot's handler, since what the bot does with it matters to no session, and the calls fail by the bot's sweeper, by resets and by agents that leave; symmetry in the calls, safety only |
| `Relay_retry` (violated) | `OneFailureIsAbsorbed` | two calls, three sessions, one broken connection, no crash, no settings |
| `TipCredit_loop` | `TipTypeOK`, `AckedIsCredited`, `OverCreditBounded`, `EveryTipAcked` | both hosts; three tips, one of a peer that is not allowed; channel of two; one lost connection, any number of failing acknowledgements, two crashes, one failing write; a journal of two ids, so that the third tip pushes the first out |
| `Transport_parts` | `RouterTypeOK`, `TableExact`, `NothingOutlivesClose`, `HandlePMNeverBlocks`, `NoRevival`, `AssemblerTypeOK`, `BuffersAccounted`, `ReturnedIntact`, `FreshCompletion` | router and assembler, which share no state, each while the other is at rest. Router: both roles; two handlers, two inbound and one dialed session id, three connections ever (one id is used again), limit 1, inbox 1, one tick; symmetry in handlers and inbound ids, safety only. Assembler: messages of one to three parts of two peers, with and without deadline, and three parts nobody encoded (another part count, too long, unparsable); each of the bounds on pending messages, message bytes and total bytes is reached |
| `BridgeSpend_settle` | `BridgeTypeOK`, `LogCoversMoney`, `CapUnlessRaced`, `EverySettleReturns` | two calls of equal payee and amount, the cap admits one of them, autopay and approval with changes in between, one failing write, one restart; the clock's one tick moves entries out of the window, and pruning keeps one entry besides those it must keep |
| `BridgeSpend_cap` (violated) | `CapIsHard` | two equal calls, one without an amount, a chat tip of the same amount; no fault |
| `Directory_life` | `DirectoryTypeOK`, `ListedUnlessOvertaken`, `ProviderPaysOnce`, `OneKeyPerTest` | two registrations or spot checks (a renewal, a replacement), two tips, each covering fee and budget of one registration, a tick (the listing expires), one failing write, one crash |
| `Directory_stuck` (violated) | `VerificationStarts` | two registrations, no fault, under fairness |
| `Federation_leads` | `FederationTypeOK`, `SpendCoversMoney`, `RegisteredIsConverted`, `PursuitNotForgotten` | three jobs of any kind on one peer, the fewest for which a shifted position can hit a payment that did leave; one failing write, one restart; registration and delisting any number of times; symmetry in jobs, safety only |
| `Registrant_fund` | `RegistrantTypeOK`, `HistoryCoversMoney`, `MonthlyCapUnlessRaced` | three registrations at two directories; the monthly cap admits one full amount; amounts within and above the request cap; two ticks (entries leave the month), one failing write, one crash |

Deadlock is not checked: these instances are done when every call, tip, registration and
connection is. That nobody is stuck before is what the liveness properties and
`HandlePMNeverBlocks` say.

### What the violated runs show
* `Relay_retry`: `session.go` gives every call one retry on a fresh session.
  When one connection breaks under two calls, the first resets the link and
  dials a new session for its retry; the second then notices its own failure and
  resets the link too, which closes that fresh session, and the first call, whose
  one retry is used up, fails.
* `BridgeSpend_cap`: `settle` reads the day's total, releases the lock, and logs
  its own spend later without looking again; two calls pass together a cap that
  `settings.go` calls hard. `CapUnlessRaced` names the one other way (below).
* `Directory_stuck`: `pokeFunding` debits the fee and sets the state to crawling,
  but `spawnPipeline` does nothing while an earlier pipeline is still leaving, and
  nothing starts one later.

### Limits that the exact properties make visible
Several properties carry an exception, and the exception is where the code
promises less than a reader may expect. Two of them (`revived`, and the second half of
the `missed` of `Federation`) were met in proving the property, on instances one call larger than
the run's:
* `AnswerMatchesBill` counts an empty success as an answer that cost nothing:
  a duplicate that waited for a call which is then refused before execution
  (`releaseCall`, `harness.go:229-230`, `268-273`, `323`) gets one, though
  `harness.go` says duplicates share the original's outcome. An output is the
  product of one of the call's deliveries, whose charge is kept unless it was free; it need
  not be the delivery that answers. After an error or an empty success no delivery of the
  call keeps or holds a charge, then or later.
* `CapUnlessRaced`: besides the race, an entry that was failed may be marked paid
  (`revived`). With three equal tips the late failure of one fails the entry of another, a
  third call is approved against the lowered total, and then the second tip
  settles.
* `ListedUnlessOvertaken`: `runPipeline` applies a test's outcome to whatever
  registration the entry holds when the test ends; an entry replaced meanwhile can be listed
  untested. The look-then-delete windows of `expire` and `unlist` are of the same
  family, and `unlist` leaves a renewal in flight, which lists the provider again.
* `ProviderPaysOnce`: after a crash or a failed write a test or a fee may be paid
  again, because it is stored after the money moved.
* `OverCreditBounded`: each crash between credit and record credits one tip again.
  A failed write of the tip journal can do it too, and so can an id that is pushed
  out of the journal before its tip is acknowledged.
* `AckedIsCredited` lets the directory lose one tip for each write that fails:
  `CreditTip` (`service.go:294`) swallows the ledger's error and the tip is acknowledged.
  The serving bot loses none.
* `LedgerAddsUp`: a crash between the debit and its journal entry, or of an
  unkeyed call, keeps the charge.
* `GivenBackOncePerCrash`, `ImplementsPaidCall`: a crash between a refund and the
  removal or completion of its entry refunds again, once per crash.
* `LogCoversMoney`: outcomes are matched by payee and amount, so the outcome of an
  equal tip from the chat may settle the bridge's entry. A failed write of the spend log is
  only logged, and a restart on that file forgets what it lacks: one entry at most for each.
  An error of the call that starts a tip is taken for a failure (`tippayer.go:63`,
  `payment.go:129-134`): if the tip was sent all the same, its payment does not count
  (`unsure`), one for each such error.
* `NoSessionLeaks`: `settings.go:101` says that bots removed from the allow list have their live
  sessions closed. A call on its way when its bot is removed keeps the deleted link. When
  the bot is allowed again the call may dial a session on it (its retry, its re-issue after
  payment, a poll), and the next removal looks in the table, where that link is not (`astray`).
  The session stays open until the call resets its link or the bridge is closed; once the call
  has returned nobody owns it, and a client router sweeps nothing (`transport.go:84`).
  `Bridge.Close` closes it through the router.
* `TableExact`: the sweeper closes the sessions it has listed, also one that has carried
  traffic since; it is a session less, and the table agrees.
* `MonthlyCapUnlessRaced`: two registrations may both pass the check first.
* `EveryTipAcked`: a tip whose credit the serving bot could not write, or whose
  acknowledgement failed, waits for a reconnect, and nothing forces one (`missed`).
* `SpendCoversMoney`: each failed write of the spend journal may leave one payment without an
  entry, since the payment is made all the same. Beyond that it speaks of the number of
  entries always, of each payment's own entry only unless two payments failed out of order
  (`shifted`): `remove` goes by position (`client.go:92`).
* `RegisteredIsConverted`: a crash between `handleRegister`'s two writes (`torn`), a restart
  after a failed write, and a verification that looked before the registration and puts its
  lead after it (`raced`, `federation.go:54-57`), leave a lead to pursue.
* `PursuitNotForgotten`: a key exchange that completes before the pursuit is parked
  (`missed`, `federation.go:102`) resumes nothing, even when the lead is parked already
  by another pursuit, and an invite that fails after one
  (`gaveUp`) parks the lead with no exchange to come.

## 4. Fairness

* `Harness` by itself is checked for safety. In `Relay_calls` the steps of
  each passthrough and of each delivery's goroutine, and the bot's recovery, are weakly fair
  (the scheduler runs goroutines; tool code is assumed to return; a bot that starts
  goes on until it serves), and so is `Disconnect`: no agent waits for ever. That
  is needed: a call whose session the bot has swept waits for an answer until its
  request ends. Arrivals, tips, breaks, settings and crashes are not.
* `TipCredit`: the loop, the stream of the daemon, and `Reconnect` (`RunBot` retries
  for ever).
* `BridgeSpend`: a settle's steps, since every wait in it has a timeout; neither the
  user nor the rail.
* `Directory`: pipelines (dials, calls and payments have deadlines) and a
  `pokeFunding` that has been called.
* `Assembler`, `Router`, `Federation`, `Registrant`: safety only.
  `HandlePMNeverBlocks` is the invariant behind the router's liveness: a handler that took a message
  always has a step.

## 5. Proofs

The proofs hold for any sets of keys, callers, peers, handlers and relays, any finite sets
of deliveries, bridge calls, registrations and goroutines of the directory, any number of tips, any
prices, caps and windows, and any number of sessions, polls, crashes and failing
writes. Few of the safety properties are inductive: they speak of answers, counters and
totals, and say nothing of how memory and files relate in the middle of an operation.
For each module an inductive invariant says that; a step preserves it by one
lemma per action and part, and the properties follow from it.

**`HarnessProofs`** has four parts.

*The harness.* `TypeCorrect` (in particular no balance, in memory or on disk,
is ever negative), `SingleFlightCorrect`, and from
`IInv == TypeOK /\ ClaimInv /\ (diskFaults = 0 => Books)` (`IInvCorrect`) the theorems
`SettledIsFinalCorrect`, `SettledStaysPaidCorrect`, `InterruptedIsRefundedCorrect`.
`ClaimInv` ties claims to execution: a keyed delivery that executes is the one its
key's claim names, with an open record; it gives `SingleFlight` directly, faults or
not. `Books` relates the copies of the truth: `OpenInv` (a charged delivery from its
journal entry to its completion has an open entry in the file, and an open entry belongs
to a delivery in flight, a dead one whenever the harness recovers), `FinalInv` (inside
its window a settled call's outcome is in the file, complete and with the record's
expiry, and its claim stands), `RecoveryInv` (what a start still owes is exactly what
the file says is open, and an interrupted charge is refunded or still open in the file)
and `RefundInv` (a living delivery that succeeded has no refund, and a settled one
reported its own result). `Books` is conditional because after a failed journal write the
code itself goes on with file and memory apart.
`OutcomeWasProducedCorrect` needs `ToldInv` and no such condition: whatever record or
entry an outcome passes through, it is under the key it was produced under.

*The refinement.* `HarnessImplementsPaidCall`: every step of the harness
is, under the mapping, a step of `PaidCall` or a stutter. It needs
`RInv == IInv /\ ...` (`RInvCorrect`), which adds that a charge is priced and
precedes its entry, that what failed has been refunded, and that a completed entry agrees
with its record. Steps after a failed write map to stutters and the step that fails to
`Fault`. `GivenBackOncePerCrashCorrect` is then argued on `PaidCall` alone and carried
back through the mapping.

*The books.* `LedgerAddsUpCorrect`, from `AuditInv == RInv /\ ToldInv /\ (Sound => Audited)`:
while no write has failed, the file is the memory, a balance is the deposits less the
sum over the caller's charges of `price * (1 - refunds)`, and an entry holds the price of its
delivery.

*The relay.* `RelayImplementsHarness` (a step of the composition is a step of the
harness or leaves it alone, and takes no time), hence `RelayImplementsPaidCall`;
`RelayTypeCorrect`. `ChargedOnceCorrect` rests on `OnceInv` (what has been settled is
inside its window, and is the only one of its key), which holds because no replay window
ends while a call lasts; together with `SingleFlight` no two attempts of a call can both hold
or keep a charge. `NoSessionLeaksCorrect` rests on `TableInv` (with the bounds on
attempts, `LinkInv`): a link that has a session is in the table, about to be reset, or
astray; a call that works while the bot is allowed has the link in the table or one astray; and
a connection is open only on a link that has its session. `AnswerMatchesBillCorrect` needs an account of everything an answer can come from,
`AnswerInv`: at the bot the claims, entries, records, waits and replies agree with what
was charged (`HeardInv`), and at the bridge what was sent, what an attempt waits for and what
errors and outputs it has seen (`SentInv`, `AttemptInv`, `ErrInv`, `OutInv`).
The many steps of the harness reach the second group in five kinds only: a delivery is taken
up, worked on, answered, left alone, or the bot crashes.

**`TipCreditProofs`**: `TipTypeCorrect`, `AckedIsCreditedCorrect`, `OverCreditBoundedCorrect`.
`PastIsStored`: the ledger's file covers the sum of all tips that are past their credit
(acknowledged, recorded, or about to be) but for one tip for each failed write at the
directory, and memory is never behind it. While the journal has room, it forgets nothing that
its file holds (`JournalComplete`), and the sum over all tips of the credits beyond the one
that the file records is at most the number of crashes and failed writes (`SurplusBounded`).

**`TransportProofs`** has two parts.

*The session table*: `RouterTypeCorrect`, `TableExactCorrect`, `NothingOutlivesCloseCorrect`,
`NoRevivalCorrect`. `Linked`: a connection is found in the table exactly until its `onClose`;
`Counted`: the per-peer counts are cardinalities; `Rounded`: once closed, what is still open
is on `Close`'s list.

*Reassembly*: `AssemblerTypeCorrect`, `BuffersAccountedCorrect`, `ReturnedIntactCorrect`,
`FreshCompletionCorrect`, from `AssemblerInv`. Its main part, `Accounted(a, t)`, speaks of
any state `a` of an Assembler at time `t`, because one `Add` goes through several: each
counter is the sum or the number of what is pending and within its limit, and what is
pending of a message nobody forged a part of are the pieces `Encode` cut (`Pieces`).
`DropKeeps`, `OpenKeeps` and `StoreKeeps` say that the operators keep it. `PieceBounds`
shows that the numbers of the parts cut a payload into adjacent pieces, whatever its length
and the chunk size, and `JoinIsPayload` that their concatenation is the payload. The
concatenation is the library's recursive function over the prefixes; `FlattenUnique` proves,
at the least prefix where they would differ, that only one function has that recursion.

**`BridgeSpendProofs`**: `BridgeTypeCorrect`, `LogCoversMoneyCorrect`, `CapUnlessRacedCorrect`.
Since outcomes are exchanged between equal tips, no call can be said to have an entry of its
own; `ClaimsCovered` counts instead: for each payee and amount, the tips that run,
settled or are about to, and the failures still on their way to the log, are together at most
the entries that count, plus the failed writes and the tips sent though starting them erred
(`Excused`). That holds of memory's log and of the file's,
which differ once a write has failed, so that a restart keeps it; in the same way the cap bounds
the day's total of both (`CapInv`). `LogInv` says that pruning took nothing that counts from
either, `CallInv` that a call's sequence number leads to its entry, `WaiterInv` that who
waits has no outcome yet, `Checked` that a call about to be logged passed the cap.

**`DirectoryProofs`**: `DirectoryTypeCorrect`, `ListedUnlessOvertakenCorrect`,
`ProviderPaysOnceCorrect`, `OneKeyPerTestCorrect`. The same condition (`Sound`) holds of the
entry in memory and of the entry on disk, so that a restart keeps it; `PipeSound` says
what the pipeline may rely on between reading the registration and applying its verdict,
`KeyStored` that the key it calls with is the one a restart would find, `MoneySound`
what each registration has paid since the last restart.

**`FederationProofs`**: `FederationTypeCorrect`, `RegisteredIsConvertedCorrect` (`LeadInv`:
the leads are what their file holds while no write has failed, so a restart brings back a
converted lead), `SpendCoversMoneyCorrect` (`Covers`: of the payments that left or are about to,
at most as many as writes failed have no entry; while nothing is shifted each payment's token is
its position), `PursuitNotForgottenCorrect`, through failing writes too.

**`RegistrantProofs`**: `RegistrantTypeCorrect`, `HistoryCoversMoneyCorrect`,
`MonthlyCapUnlessRacedCorrect`, from `RegistrantInv`. `EntriesInv`: every payment that left or is
about to has an entry of its own on disk (there is an injection), so the entries of any window
come to at least what left in it. `WithinCap`: the month's total is within the
cap, and stays so with what an approved registration is about to record, if the history is the
one it was checked against.

**`SumTheorems`** has the lemmas on sums over finite sets which the proofs about money share.
The sum of a set is a recursive function on its subsets; in place of induction
over the set, which the prover cannot instantiate, each lemma looks at a smallest
subset that breaks it.

Assumptions, which TLC evaluates on the runs' instances:

* `LedgerAssumption`: the bound on failing writes is a natural number.
* `HarnessAssumption`: every delivery has a caller and a key or none; deliveries of
  one key have one caller, since a key belongs to a peer; `NoKey` and `NoCall` are
  not keys or calls; prices, tips and bounds are natural numbers. `FiniteDeliveries`:
  there are finitely many deliveries, for the sums.
* `RelayAssumption`: the attempts of a call are distinct deliveries with one key, keys
  of different calls differ, since each call generates its own (`passthrough`), and there is
  a poll after the payment.
* `AssemblerAssumption`: there are finitely many messages, each with one sender; a forged
  part may carry any number, and any bytes of known messages.
* `TipAssumption`, `RouterAssumption`, `BridgeAssumption`, `DirectoryAssumption`,
  `FederationAssumption`, `RegistrantAssumption`: types and bounds of the constants; the
  calls of a bridge, the registrations and the federation's jobs are finitely many.

Only model-checked:

* liveness (`EverythingIsAnswered`, `EveryTipAcked`, `EverySettleReturns`), since the
  prover has no ENABLED, and for the same reason `HandlePMNeverBlocks`;
* what the violated runs check, of course.

## 6. Not modelled

* Tokens, addresses and the listener's lifecycle (of the HTTP gate only the allow check is in
  `Relay`): request checks without state. The payment
  refusal protocol `payment.go` appears only as the amounts it carries.
* The making and verifying of snapshots is cryptography: a signature is good or not.
  Search and formatting change no state.
* The token bucket of the harness (a refusal that may always come), per-peer MCP servers,
  dispatch of messages.
* Torn files: `bridge` writes its files in place; the models write atomically.
* The end of a replay window within one passthrough (`Relay` has no `Tick`): the harness
  keeps outcomes for 30 minutes (`callKeyTTL`), approval and tip wait take five
  together by default. `ChargedOnce` is stated for settings that keep them below the
  window; `approval_timeout_secs` and `tip_wait_secs` have no upper bound in the code.
* Adapters, commands (but the tip loop of `brmcpdir`), test doubles.

## 7. Plan

Done, in this order: money and idempotency (`Ledger`, `Harness` with its proofs,
`TipCredit`); the transport (`Assembler`, `Router`), the payer
(`BridgeSpend`), the directory (`Directory`, `Registrant`); then the abstract
`PaidCall` with its refinement, the composition of bridge and harness
(`Relay`), and the federation with the spend journal (`Federation`). Then the proofs:
every safety property of these modules that a run checks is a theorem, except
`HandlePMNeverBlocks` (ENABLED). Next: the token bucket of the harness and the listener's
lifecycle in `settings.go`.
