-------------------------------- MODULE Relay --------------------------------
(***************************************************************************)
(* The bridge relays tool calls of local agents to one bot                 *)
(* (bridge/session.go): the link in its table holds one session for all    *)
(* calls, and every logical call carries one idempotency key through a     *)
(* transport retry, a payment and the polls that follow it.  Taking the    *)
(* bot off the allow list takes its link out of the table; calls on their  *)
(* way keep theirs, and a bot that is allowed again gets a new one.  The   *)
(* bot at the other end is the serving harness: each attempt is one of its *)
(* deliveries, and the payment is a tip its tip loop credits.              *)
(***************************************************************************)
EXTENDS HarnessRefinement, Sequences

CONSTANTS
    Relays,         \* logical calls of the agents
    Attempts,       \* the deliveries each one may cause, in order
    MaxPolls,       \* last attempt that may still wait for the tip (code: 6)
    Tip,            \* what a settled payment sends the bot
    Bridge,         \* the caller the bot sees
    Shared,         \* whether further calls use the links
    MaxSessions,    \* bound: sessions the bridge may dial
    MaxBreaks,      \* bound: transport failures
    MaxSettings,    \* bound: how often the settings are saved
    MayClose,       \* whether the bridge may be closed
    NoSession       \* no session

ASSUME RelayAssumption ==
    /\ MaxPolls \in Nat \ {0, 1}
    /\ Bridge \in Peers /\ Tip \in Tips
    /\ MaxBreaks \in Nat /\ Shared \in BOOLEAN
    /\ MaxSessions \in Nat /\ MaxSettings \in Nat /\ MayClose \in BOOLEAN
    /\ NoSession \notin 1..MaxSessions
    /\ Attempts \in [Relays -> Seq(Calls)]
    /\ \A r \in Relays :
          /\ Len(Attempts[r]) = MaxPolls + 1
          /\ \A i, j \in 1..(MaxPolls + 1) :
                /\ Keyed(Attempts[r][i])
                /\ KeyOf[Attempts[r][i]] = KeyOf[Attempts[r][j]]
                /\ Attempts[r][i] = Attempts[r][j] => i = j
    /\ \A r, q \in Relays, i, j \in 1..(MaxPolls + 1) :
          KeyOf[Attempts[r][i]] = KeyOf[Attempts[q][j]] => r = q

VARIABLES
    rpc,        \* where each passthrough is
    attempt,    \* its attempt
    paid,       \* it has settled a payment
    held,       \* the botLink it works on
    via,        \* the session its attempt uses
    out,        \* what it returned
    gone,       \* relays whose agent has disconnected
    link,       \* botLink.session of each link, alive or not
    mirrored,   \* botLink.proxy is there
    made,       \* links made so far
    entry,      \* Bridge.bots: the bot's link
    open,       \* sessions whose connection is open at the bridge
    dialed,     \* sessions dialed so far
    listed,     \* the bot is on the allow list
    changes,    \* settings saved so far
    dropped,    \* links ApplySettings has taken out and not reset yet
    bridge,     \* "open", "closing" (in Close) or "closed"
    closing,    \* links Close has taken out and not reset yet
    astray,     \* history: links out of the table that a call was still using
                \* when the bot was allowed again
    served,     \* sessions that are open at the bot
    sentOn,     \* the session each delivery was sent on
    tips,       \* tips on their way to the bot
    breaks      \* transport failures at the bridge so far

linkVars  == <<link, mirrored, made, entry, open, dialed>>
ruleVars  == <<listed, changes, dropped, bridge, closing, astray>>
callState == <<rpc, attempt, paid, held, via, out, gone>>
wireVars  == <<served, sentOn, tips, breaks>>
relayVars == <<linkVars, ruleVars, callState, wireVars>>

\* A request looks its link up and has it mirrored twice, in authMiddleware
\* and again for the handler, before its tool is called.
RpcSteps == {"idle", "find", "mirror", "findAgain", "mirrorAgain", "dial", "call",
             "settle", "poll", "done"}
Results  == Replies \cup {"error", "unavailable", "notPaid"}
Sessions == 1..MaxSessions
Links    == 1..(MaxSettings + 1)
NoLink   == 0

\* The calls that use a link.
Holds(r) == rpc[r] \notin {"idle", "find", "findAgain", "done"}

RelayTypeOK ==
    /\ rpc \in [Relays -> RpcSteps]
    /\ attempt \in [Relays -> 0..MaxPolls]
    /\ paid \in [Relays -> BOOLEAN]
    /\ held \in [Relays -> Links \cup {NoLink}]
    /\ via \in [Relays -> Sessions \cup {NoSession}]
    /\ out \in [Relays -> Results]
    /\ gone \subseteq Relays
    /\ link \in [Links -> Sessions \cup {NoSession}]
    /\ mirrored \in [Links -> BOOLEAN]
    /\ made \in 0..(MaxSettings + 1) /\ entry \in Links \cup {NoLink}
    /\ open \subseteq Sessions /\ served \subseteq Sessions
    /\ dialed \in 0..MaxSessions
    /\ listed \in BOOLEAN /\ changes \in 0..MaxSettings
    /\ dropped \subseteq Links /\ closing \subseteq Links /\ astray \subseteq Links
    /\ bridge \in {"open", "closing", "closed"}
    /\ sentOn \in [Calls -> Sessions \cup {NoSession}]
    /\ tips \in Nat
    /\ breaks \in 0..MaxBreaks
    /\ \A r \in Relays : Holds(r) => held[r] # NoLink

RelayInit ==
    /\ Init
    /\ rpc = [r \in Relays |-> "idle"]
    /\ attempt = [r \in Relays |-> 0]
    /\ paid = [r \in Relays |-> FALSE]
    /\ held = [r \in Relays |-> NoLink]
    /\ via = [r \in Relays |-> NoSession]
    /\ out = [r \in Relays |-> "none"]
    /\ gone = {}
    /\ link = [l \in Links |-> NoSession]
    /\ mirrored = [l \in Links |-> FALSE]
    /\ made = 0 /\ entry = NoLink
    /\ open = {} /\ served = {} /\ dialed = 0
    /\ listed = TRUE /\ changes = 0
    /\ dropped = {} /\ closing = {} /\ astray = {}
    /\ bridge = "open"
    /\ sentOn = [d \in Calls |-> NoSession]
    /\ tips = 0 /\ breaks = 0

\* The delivery of a relay's present attempt.
Delivery(r) == Attempts[r][attempt[r] + 1]

-----------------------------------------------------------------------------
(* The links.                                                              *)

\* Mutant: the session is forgotten, its connection stays open.
resetKeepingConn(l) ==
    /\ link' = [link EXCEPT ![l] = NoSession]
    /\ mirrored' = [mirrored EXCEPT ![l] = FALSE]
    /\ UNCHANGED open

\* botLink.reset: whatever session the link has by now is closed.
reset(l) ==
    /\ link' = [link EXCEPT ![l] = NoSession]
    /\ mirrored' = [mirrored EXCEPT ![l] = FALSE]
    /\ open' = open \ {link[l]}

\* dialLocked: the link's session is used as it is, dead or alive; without one
\* a session is dialed, in the table or not.  The router lets the bot's answers
\* in only while the bot is allowed (HandlePM), so only then a Connect ends
\* well, and none is started once the router is closed.  s is the session got.
dialLocked(l, s) ==
    IF link[l] # NoSession
    THEN s = link[l] /\ UNCHANGED <<link, open, dialed, served>>
    ELSE \/ /\ listed /\ bridge # "closed" /\ dialed < MaxSessions
            /\ s = dialed + 1
            /\ dialed' = s /\ link' = [link EXCEPT ![l] = s]
            /\ open' = open \cup {s} /\ served' = served \cup {s}
         \/ s = NoSession /\ UNCHANGED <<link, open, dialed, served>>

Finish(r, o) ==
    /\ rpc' = [rpc EXCEPT ![r] = "done"]
    /\ out' = [out EXCEPT ![r] = o]

GoOn(r, l) == rpc' = [rpc EXCEPT ![r] = l]

Again(r, l) ==
    /\ GoOn(r, l)
    /\ attempt' = [attempt EXCEPT ![r] = @ + 1]

\* The listener's gate lets a request for an allowed bot through.
Gate(r) ==
    /\ rpc[r] = "idle" /\ listed
    /\ GoOn(r, "find")
    /\ UNCHANGED <<attempt, paid, held, via, out, gone, linkVars, ruleVars, wireVars>>

\* proxyServerFor takes the bot's link from the table, or puts a new one there,
\* without asking whether the bot is still allowed.
Find(r) ==
    /\ rpc[r] \in {"find", "findAgain"}
    /\ IF bridge # "open"
       THEN Finish(r, "unavailable") /\ UNCHANGED <<held, made, entry>>
       ELSE /\ GoOn(r, IF rpc[r] = "find" THEN "mirror" ELSE "mirrorAgain")
            /\ IF entry = NoLink
               THEN made' = made + 1 /\ entry' = made'
               ELSE UNCHANGED <<made, entry>>
            /\ held' = [held EXCEPT ![r] = entry']
            /\ UNCHANGED out
    /\ UNCHANGED <<attempt, paid, via, gone, link, mirrored, open, dialed, ruleVars,
                   wireVars>>

Mirrored(r) == GoOn(r, IF rpc[r] = "mirror" THEN "findAgain" ELSE "dial")

\* ... and mirrors the catalog once per session.
Mirror(r) ==
    /\ rpc[r] \in {"mirror", "mirrorAgain"}
    /\ IF mirrored[held[r]]
       THEN Mirrored(r) /\ UNCHANGED <<linkVars, served, out>>
       ELSE /\ \E s \in Sessions \cup {NoSession} :
                  /\ dialLocked(held[r], s)
                  /\ \/ /\ listed /\ s \in open' \cap served'
                        /\ mirrored' = [mirrored EXCEPT ![held[r]] = TRUE]
                        /\ Mirrored(r) /\ UNCHANGED out
                     \/ s = NoSession /\ Finish(r, "unavailable")
                        /\ UNCHANGED mirrored
            /\ UNCHANGED <<made, entry>>
    /\ UNCHANGED <<attempt, paid, held, via, gone, ruleVars, sentOn, tips, breaks>>

\* Its tools cannot be listed: the session is dropped again.
MirrorFails(r) ==
    /\ rpc[r] \in {"mirror", "mirrorAgain"}
    /\ ~mirrored[held[r]] /\ link[held[r]] # NoSession
    /\ reset(held[r])
    /\ Finish(r, "unavailable")
    /\ UNCHANGED <<attempt, paid, held, via, gone, made, entry, dialed, ruleVars,
                   wireVars>>

-----------------------------------------------------------------------------
(* passthrough: one logical call.                                          *)

\* The link's session is used, or a new one, and the call sent on it.
Dial(r) ==
    /\ rpc[r] = "dial"
    /\ \E s \in Sessions \cup {NoSession} :
          /\ dialLocked(held[r], s)
          /\ IF s = NoSession
             THEN Finish(r, "unavailable") /\ UNCHANGED <<via, sentOn>>
             ELSE /\ GoOn(r, "call")
                  /\ via' = [via EXCEPT ![r] = s]
                  /\ sentOn' = [sentOn EXCEPT ![Delivery(r)] =
                                   IF s \in open' THEN s ELSE NoSession]
                  /\ UNCHANGED out
    /\ UNCHANGED <<attempt, paid, held, gone, mirrored, made, entry, ruleVars, tips,
                   breaks>>

\* The bot answers a request that reaches it on a session it does not have
\* with an error of the protocol.
Rejected(r) == pc[Delivery(r)] = "new" /\ via[r] \notin served

\* The transport fails, or the agent has left: the call's link is reset, and
\* the first attempt repeated.
CallFails(r) ==
    /\ rpc[r] = "call"
    /\ via[r] \notin open \/ r \in gone \/ (listed /\ Rejected(r))
    /\ reset(held[r])
    /\ IF attempt[r] = 0
       THEN Again(r, "dial") /\ UNCHANGED out
       ELSE Finish(r, "error") /\ UNCHANGED attempt
    /\ UNCHANGED <<paid, held, via, gone, made, entry, dialed, ruleVars, wireVars>>

\* Mutant: a call already paid for is settled again.
AfterRefusalPayingAgain(r) == GoOn(r, "settle") /\ UNCHANGED out

\* payment_required: settle, or wait for the tip to arrive.
AfterRefusal(r) ==
    IF ~paid[r] THEN GoOn(r, "settle") /\ UNCHANGED out
    ELSE IF attempt[r] < MaxPolls THEN GoOn(r, "poll") /\ UNCHANGED out
    ELSE Finish(r, "unpaid")

\* The bot's reply comes back on the session the call went out on, while the
\* router takes anything from the bot.
CallReturns(r) ==
    /\ rpc[r] = "call" /\ listed
    /\ via[r] \in open \cap served /\ sentOn[Delivery(r)] = via[r]
    /\ pc[Delivery(r)] = "done"
    /\ IF reply[Delivery(r)] = "unpaid"
       THEN AfterRefusal(r)
       ELSE Finish(r, reply[Delivery(r)])
    /\ UNCHANGED <<attempt, paid, held, via, gone, linkVars, ruleVars, wireVars>>

\* settle (see BridgeSpend) pays, refuses, or stops waiting for a tip that
\* is still under way.
Settle(r) ==
    /\ rpc[r] = "settle"
    /\ \/ /\ r \notin gone
          /\ paid' = [paid EXCEPT ![r] = TRUE]
          /\ Again(r, "dial")
          /\ tips' = tips + 1
          /\ UNCHANGED out
       \/ /\ Finish(r, "notPaid")
          /\ tips' \in {tips, tips + 1}
          /\ UNCHANGED <<attempt, paid>>
    /\ UNCHANGED <<held, via, gone, linkVars, ruleVars, served, sentOn, breaks>>

\* The next poll; a wait ends with the agent's request.
Poll(r) ==
    /\ rpc[r] = "poll"
    /\ \/ Again(r, "dial") /\ UNCHANGED out
       \/ r \in gone /\ Finish(r, "error") /\ UNCHANGED attempt
    /\ UNCHANGED <<paid, held, via, gone, linkVars, ruleVars, wireVars>>

-----------------------------------------------------------------------------
(* Agents, settings, network and bot.                                      *)

\* The agent closes its request.
Disconnect(r) ==
    /\ rpc[r] \in {"dial", "call", "settle", "poll"} /\ r \notin gone
    /\ gone' = gone \cup {r}
    /\ UNCHANGED <<rpc, attempt, paid, held, via, out, linkVars, ruleVars, wireVars,
                   vars>>

\* ApplySettings saves whether the bot is allowed.  A bot that is not loses its
\* link in the table; calls on their way keep it.
ApplySettings(allow) ==
    /\ changes < MaxSettings
    /\ changes' = changes + 1
    /\ listed' = allow
    /\ IF allow \/ entry = NoLink
       THEN UNCHANGED <<entry, dropped>>
       ELSE entry' = NoLink /\ dropped' = dropped \cup {entry}
    /\ astray' = IF allow /\ ~listed
                 THEN astray \cup ({held[r] : r \in {q \in Relays : Holds(q)}} \ {entry})
                 ELSE astray
    /\ UNCHANGED <<link, mirrored, made, open, dialed, bridge, closing, callState,
                   wireVars, vars>>

\* Outside the lock, it then resets the link it took out.
DropLink(l) ==
    /\ l \in dropped
    /\ reset(l)
    /\ dropped' = dropped \ {l}
    /\ UNCHANGED <<made, entry, dialed, listed, changes, bridge, closing, astray,
                   callState, wireVars, vars>>

\* Bridge.Close empties the table, ...
Close ==
    /\ MayClose /\ bridge = "open"
    /\ bridge' = "closing"
    /\ entry' = NoLink /\ closing' = {entry} \ {NoLink}
    /\ UNCHANGED <<link, mirrored, made, open, dialed, listed, changes, dropped,
                   astray, callState, wireVars, vars>>

\* ... resets the links it found there, ...
CloseLink(l) ==
    /\ l \in closing
    /\ reset(l)
    /\ closing' = closing \ {l}
    /\ UNCHANGED <<made, entry, dialed, listed, changes, dropped, bridge, astray,
                   callState, wireVars, vars>>

\* ... and closes the router with every connection it has (see Router).
CloseRouter ==
    /\ bridge = "closing" /\ closing = {}
    /\ bridge' = "closed"
    /\ open' = {}
    /\ UNCHANGED <<link, mirrored, made, entry, dialed, listed, changes, dropped,
                   closing, astray, callState, wireVars, vars>>

\* Another call on a link finds its own transport failed or its agent gone,
\* and resets the link (passthrough).
NeighbourFails(l) ==
    /\ Shared /\ link[l] # NoSession
    /\ reset(l)
    /\ UNCHANGED <<made, entry, dialed, ruleVars, callState, wireVars, vars>>

\* A connection closes at the bridge: a failed send, an inbox that is full.
Break(s) ==
    /\ s \in open /\ breaks < MaxBreaks
    /\ open' = open \ {s}
    /\ breaks' = breaks + 1
    /\ UNCHANGED <<link, mirrored, made, entry, dialed, ruleVars, callState, served,
                   sentOn, tips, vars>>

\* The bot's sweeper closes a session without traffic, also one whose call
\* still runs.
BotSweeps(s) ==
    /\ s \in served
    /\ served' = served \ {s}
    /\ UNCHANGED <<linkVars, ruleVars, callState, sentOn, tips, breaks, vars>>

\* A request reaches the harness.
Arrive(d) ==
    /\ sentOn[d] \in served
    /\ \E ok \in BOOLEAN : claimCall(d, ok)
    /\ UNCHANGED relayVars

BotStep(d) == HandlerStep(d) /\ UNCHANGED relayVars

\* A duplicate's wait ends with its session.
BotCancels(d) ==
    /\ sentOn[d] \notin served
    /\ CancelDuplicate(d)
    /\ UNCHANGED relayVars

TipLands(ok) ==
    /\ tips > 0
    /\ TopUp(Bridge, Tip, ok)
    /\ tips' = tips - 1
    /\ UNCHANGED <<linkVars, ruleVars, callState, served, sentOn, breaks>>

BotCrash ==
    /\ Crash
    /\ served' = {}
    /\ UNCHANGED <<linkVars, ruleVars, callState, sentOn, tips, breaks>>

BotRecovers == RecoveryStep /\ UNCHANGED relayVars

RelayStep(r) ==
    /\ \/ Gate(r) \/ Find(r) \/ Mirror(r) \/ MirrorFails(r)
       \/ Dial(r) \/ CallFails(r) \/ CallReturns(r) \/ Settle(r) \/ Poll(r)
    /\ UNCHANGED vars

RelayNext ==
    \/ \E r \in Relays : RelayStep(r) \/ Disconnect(r)
    \/ \E allow \in BOOLEAN : ApplySettings(allow)
    \/ \E l \in Links : DropLink(l) \/ CloseLink(l) \/ NeighbourFails(l)
    \/ Close \/ CloseRouter
    \/ \E s \in Sessions : Break(s) \/ BotSweeps(s)
    \/ \E d \in Calls : Arrive(d) \/ BotStep(d) \/ BotCancels(d)
    \/ \E ok \in BOOLEAN : TipLands(ok)
    \/ BotCrash \/ BotRecovers

RelaySpec == RelayInit /\ [][RelayNext]_<<vars, relayVars>>

\* Handlers and relays keep running, a start goes on until the harness
\* serves, and no agent waits for ever.
RelayFairSpec ==
    /\ RelaySpec
    /\ \A r \in Relays : WF_<<vars, relayVars>>(RelayStep(r))
    /\ \A r \in Relays : WF_<<vars, relayVars>>(Disconnect(r))
    /\ \A d \in Calls : WF_<<vars, relayVars>>(BotStep(d))
    /\ WF_<<vars, relayVars>>(BotRecovers)

-----------------------------------------------------------------------------
(* Properties.                                                             *)

\* One logical call costs its price once at most, whatever is retried, paid,
\* polled or crashes: "the bot can never execute or charge the same call
\* twice on a lost reply" (passthrough, claimCall, openJournal).
ChargedOnce ==
    diskFaults = 0 =>
        \A r \in Relays, i, j \in 1..(MaxPolls + 1) :
            LET c == Attempts[r][i]  d == Attempts[r][j]
            IN  BillOf(c) \in {"held", "kept"} /\ BillOf(d) \in {"held", "kept"}
                => i = j

\* What an agent is told agrees with what its call cost: an output it gets was
\* produced by one of its deliveries, whose charge is kept unless it was free;
\* for the tool's own failure nothing is kept or held, then or later
\* (passthrough hands on what the bot recorded, whichever delivery produced it).
AnswerMatchesBill ==
    diskFaults = 0 =>
        \A r \in Relays :
            /\ out[r] = "ok" =>
                   \E i \in 1..(MaxPolls + 1) :
                       LET d == Attempts[r][i]
                       IN  result[d] = "ok" /\ (price[d] > 0 => BillOf(d) = "kept")
            /\ out[r] \in {"err", "empty"} =>
                   \A i \in 1..(MaxPolls + 1) :
                       BillOf(Attempts[r][i]) \notin {"kept", "held"}

\* The sessions of links somebody will still look at: the one in the table,
\* those about to be reset, and those that went astray.
Reachable == {link[l] : l \in Links \cap ({entry} \cup dropped \cup astray)}

\* No session leaks: whatever retries, resets, settings and failed sends come
\* together, a connection that is open belongs to the link in the table or to
\* one ApplySettings is about to reset, so that a bot taken off the list soon
\* has none, as settings.go says ("Bots removed from the allowlist have their
\* live sessions closed").  The exception: a call under way when its bot was
\* taken off and allowed again may have one on the link it holds, and no later
\* settings close that.  Once Bridge.Close is through, none at all is open
\* (reset, dialLocked, ApplySettings, Close).
NoSessionLeaks ==
    /\ bridge = "open" => open \subseteq Reachable
    /\ bridge = "closed" => open = {}

\* Whatever fails, every call an agent made comes back to it or the agent has
\* left, every delivery the bot took up is answered or died with its process,
\* and a bot that restarts gets through openJournal and serves.  All of these
\* happen a bounded number of times: in the end everything has come to rest.
EverythingIsAnswered ==
    <>[](/\ \A r \in Relays : rpc[r] \in {"idle", "done"}
         /\ \A d \in Calls : pc[d] \in {"new", "done"} \/ d \in dead
         /\ phase = "up")

\* session.go: "One transport-level retry on a fresh session."  When one
\* connection has failed and nothing else, no call has.
OneFailureIsAbsorbed ==
    /\ breaks <= 1 /\ gone = {} /\ changes = 0 /\ bridge = "open"
    /\ served = 1..dialed /\ crashes = 0
    /\ \A r \in Relays : out[r] # "unavailable"
    => \A r \in Relays : out[r] # "error"
==============================================================================
