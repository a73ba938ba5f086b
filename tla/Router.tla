-------------------------------- MODULE Router --------------------------------
(***************************************************************************)
(* The session router (transport.go): it hands the messages of one private *)
(* message stream to per-(peer, sid) connections.  Sessions are opened by  *)
(* inbound messages and by Dial, and closed by their owner, by an inbox    *)
(* overflow, by the idle sweeper and by the router's Close, all running    *)
(* beside each other.  A critical section of the router's lock is one      *)
(* step; everything the code does outside the lock is a step of its own.   *)
(* Reassembly is the Assembler module's: here a message arrives complete.  *)
(***************************************************************************)
EXTENDS Integers, Sequences, FiniteSets

CONSTANTS
    Handlers,           \* goroutines that call HandlePM
    Peers,
    Allowed,            \* peers that pass the Allow gate
    InSids,             \* session ids chosen by peers
    DialSids,           \* session ids NewID returns
    MaxSessionsPerPeer, InboxSize, IdleTimeout,     \* RouterConfig
    MaxConns,           \* bound: connections ever created
    MaxTime             \* bound: last value of the clock

ASSUME RouterAssumption ==
    /\ Allowed \subseteq Peers
    /\ InSids \cap DialSids = {}
    /\ {MaxSessionsPerPeer, InboxSize} \subseteq Nat \ {0}
    /\ {IdleTimeout, MaxConns, MaxTime} \subseteq Nat

VARIABLES
    serverRole, \* RouterConfig.Accept is set
    sessions,   \* key -> the connection that serves it, 0 for none
    peers,      \* concurrent sessions per peer
    closed,     \* the router is closed
    conns,      \* every connection ever created
    closing,    \* connections between close(done) and onClose
    handler,    \* what each HandlePM is about to do, and to which connection
    idle,       \* sessions the sweeper has found idle and not closed yet
    sweeping,   \* the sweeper runs
    doomed,     \* sessions the router's Close has yet to close
    now

table == <<sessions, peers, closed>>
vars  == <<serverRole, table, conns, closing, handler, idle, sweeping, doomed, now>>

Keys == Peers \X (InSids \cup DialSids)
Peer(key) == key[1]

-----------------------------------------------------------------------------
Idle == [pc |-> "idle", conn |-> 0]

Init ==
    /\ serverRole \in BOOLEAN
    /\ sessions = [k \in Keys |-> 0]
    /\ peers = [p \in Peers |-> 0]
    /\ closed = FALSE
    /\ conns = <<>>
    /\ closing = {}
    /\ handler = [h \in Handlers |-> Idle]
    /\ idle = {} /\ sweeping = TRUE
    /\ doomed = {}
    /\ now = 0

Conn(key, dialed) ==
    [key |-> key, dialed |-> dialed, inbox |-> 0, done |-> FALSE, active |-> now]

\* Mutant: a closed router still takes messages and dials.
IgnoreClosed == TRUE

Open == ~closed

\* newConnLocked.
newConn(key, dialed) ==
    /\ Len(conns) < MaxConns
    /\ conns' = Append(conns, Conn(key, dialed))
    /\ sessions' = [sessions EXCEPT ![key] = Len(conns) + 1]
    /\ peers' = [peers EXCEPT ![Peer(key)] = @ + 1]

-----------------------------------------------------------------------------
(* Conn.Close: done is closed once, then onClose takes the router's lock.  *)

\* Mutant: Close without the Once.
CloseAgain(cs) ==
    /\ closing' = closing \cup cs
    /\ conns' = [c \in DOMAIN conns |-> [conns[c] EXCEPT !.done = @ \/ c \in cs]]

\* The first half, for the connections cs.
Close(cs) ==
    /\ closing' = closing \cup {c \in cs : ~conns[c].done}
    /\ conns' = [c \in DOMAIN conns |-> [conns[c] EXCEPT !.done = @ \/ c \in cs]]

\* Mutant: the peer's count is left alone.
onCloseUncounted(c) ==
    /\ c \in closing
    /\ closing' = closing \ {c}
    /\ sessions' = [sessions EXCEPT ![conns[c].key] = 0]
    /\ UNCHANGED <<peers, closed, conns, handler, idle, sweeping, doomed, now>>

\* The second half: the key leaves the table, whichever connection it names.
onClose(c) ==
    /\ c \in closing
    /\ closing' = closing \ {c}
    /\ LET key == conns[c].key
       IN  IF sessions[key] = 0 THEN UNCHANGED table
           ELSE /\ sessions' = [sessions EXCEPT ![key] = 0]
                /\ peers' = [peers EXCEPT ![Peer(key)] = IF @ <= 1 THEN 0 ELSE @ - 1]
                /\ UNCHANGED closed
    /\ UNCHANGED <<conns, handler, idle, sweeping, doomed, now>>

\* The MCP session that owns a connection ends it.
OwnerClose(c) ==
    /\ ~conns[c].done
    /\ Close({c})
    /\ UNCHANGED <<table, handler, idle, sweeping, doomed, now>>

-----------------------------------------------------------------------------
(* HandlePM.                                                               *)

Goto(h, pc, c) == handler' = [handler EXCEPT ![h] = [pc |-> pc, conn |-> c]]

AtLimit(p) == peers[p] >= MaxSessionsPerPeer

\* A message for a session in the table: the connection is touched.
Lookup(h, key) ==
    /\ sessions[key] # 0
    /\ conns' = [conns EXCEPT ![sessions[key]].active = now]
    /\ Goto(h, "enqueue", sessions[key])
    /\ UNCHANGED <<sessions, peers>>

\* A message for an unknown session: the server role opens it.
Admit(h, key) ==
    /\ sessions[key] = 0 /\ serverRole
    /\ ~AtLimit(Peer(key))
    /\ newConn(key, FALSE)
    /\ Goto(h, "accept", Len(conns) + 1)

\* Mutant: a late reply reopens its session in the client role too.
RefuseAtLimitOnly(h, key) ==
    /\ sessions[key] = 0
    /\ \/ AtLimit(Peer(key)) /\ UNCHANGED <<handler, sessions, peers, conns>>
       \/ ~AtLimit(Peer(key)) /\ newConn(key, FALSE) /\ Goto(h, "accept", Len(conns) + 1)

\* ... and the client role, or a peer at its limit, drops it.
Refuse(h, key) ==
    /\ sessions[key] = 0
    /\ ~serverRole \/ AtLimit(Peer(key))
    /\ UNCHANGED <<handler, sessions, peers, conns>>

\* The critical section.
HandlePM(h, key) ==
    /\ handler[h].pc = "idle"
    /\ Peer(key) \in Allowed
    /\ Open
    /\ Lookup(h, key) \/ Admit(h, key) \/ Refuse(h, key)
    /\ UNCHANGED <<closed, closing, idle, sweeping, doomed, now>>

\* Accept hands a new connection to the MCP server, which may fail and
\* close it.
Accept(h) ==
    /\ handler[h].pc = "accept"
    /\ Goto(h, "enqueue", handler[h].conn)
    /\ \/ UNCHANGED <<conns, closing>>
       \/ Close({handler[h].conn})
    /\ UNCHANGED <<table, idle, sweeping, doomed, now>>

\* Mutant: a full inbox grows.
EnqueueUnbounded(h) ==
    /\ handler[h].pc = "enqueue"
    /\ Goto(h, "idle", 0)
    /\ conns' = [conns EXCEPT ![handler[h].conn].inbox = @ + 1]
    /\ UNCHANGED <<table, closing, idle, sweeping, doomed, now>>

\* Mutant: HandlePM waits for room in the inbox.
EnqueueBlocking(h) ==
    LET c == handler[h].conn
    IN  /\ handler[h].pc = "enqueue"
        /\ Goto(h, "idle", 0)
        /\ \/ conns[c].inbox < InboxSize /\ conns' = [conns EXCEPT ![c].inbox = @ + 1]
           \/ conns[c].done /\ UNCHANGED conns
        /\ UNCHANGED <<table, closing, idle, sweeping, doomed, now>>

\* The message is queued, or lost when the connection is closed (the select
\* takes either when both are possible); with no room the session is closed.
Enqueue(h) ==
    LET c == handler[h].conn
        room == conns[c].inbox < InboxSize
    IN  /\ handler[h].pc = "enqueue"
        /\ Goto(h, "idle", 0)
        /\ \/ room /\ conns' = [conns EXCEPT ![c].inbox = @ + 1] /\ UNCHANGED closing
           \/ conns[c].done /\ UNCHANGED <<conns, closing>>
           \/ ~room /\ ~conns[c].done /\ Close({c})
        /\ UNCHANGED <<table, idle, sweeping, doomed, now>>

-----------------------------------------------------------------------------
(* The other callers.                                                      *)

Dial(key) ==
    /\ Open
    /\ \A c \in DOMAIN conns : conns[c].key[2] # key[2]     \* a fresh id
    /\ newConn(key, TRUE)
    /\ UNCHANGED <<closed, closing, handler, idle, sweeping, doomed, now>>

\* Read returns a queued message; a closed connection may return EOF instead.
Read(c) ==
    /\ conns[c].inbox > 0
    /\ conns' = [conns EXCEPT ![c].inbox = @ - 1]
    /\ UNCHANGED <<table, closing, handler, idle, sweeping, doomed, now>>

\* Write of an outgoing message counts as traffic.
Write(c) ==
    /\ ~conns[c].done
    /\ conns' = [conns EXCEPT ![c].active = now]
    /\ UNCHANGED <<table, closing, handler, idle, sweeping, doomed, now>>

IdleFor(c) == now - conns[c].active

\* sweep finds the idle sessions under the lock...
Sweep ==
    /\ sweeping /\ idle = {}
    /\ idle' = {c \in DOMAIN conns : sessions[conns[c].key] = c /\ IdleFor(c) > IdleTimeout}
    /\ UNCHANGED <<table, conns, closing, handler, sweeping, doomed, now>>

\* ... and closes them one by one after it has released the lock.
SweepClose(c) ==
    /\ c \in idle
    /\ idle' = idle \ {c}
    /\ Close({c})
    /\ UNCHANGED <<table, handler, sweeping, doomed, now>>

\* sweepStop is closed with the router.
SweepStop ==
    /\ closed /\ sweeping /\ idle = {}
    /\ sweeping' = FALSE
    /\ UNCHANGED <<table, conns, closing, handler, idle, doomed, now>>

\* The router's Close collects the sessions under the lock...
RouterClose ==
    /\ closed' = TRUE
    /\ doomed' = doomed \cup {c \in DOMAIN conns : sessions[conns[c].key] = c}
    /\ UNCHANGED <<sessions, peers, conns, closing, handler, idle, sweeping, now>>

\* ... and closes them outside it.
CloseDoomed(c) ==
    /\ c \in doomed
    /\ doomed' = doomed \ {c}
    /\ Close({c})
    /\ UNCHANGED <<table, handler, idle, sweeping, now>>

Tick ==
    /\ now < MaxTime
    /\ now' = now + 1
    /\ UNCHANGED <<table, conns, closing, handler, idle, sweeping, doomed>>

-----------------------------------------------------------------------------
HandlerStep(h) == Accept(h) \/ Enqueue(h)

Next ==
    /\ \/ \E h \in Handlers, p \in Peers, s \in InSids \cup DialSids : HandlePM(h, <<p, s>>)
       \/ \E h \in Handlers : HandlerStep(h)
       \/ \E p \in Peers, s \in DialSids : Dial(<<p, s>>)
       \/ \E c \in DOMAIN conns : \/ onClose(c) \/ OwnerClose(c) \/ Read(c) \/ Write(c)
                                  \/ SweepClose(c) \/ CloseDoomed(c)
       \/ Sweep \/ SweepStop \/ RouterClose
       \/ Tick
    /\ UNCHANGED serverRole

Spec == Init /\ [][Next]_vars

-----------------------------------------------------------------------------
(* Properties.                                                             *)

SessionsOf(p) == {k \in Keys : Peer(k) = p /\ sessions[k] # 0}
Live == {c \in DOMAIN conns : ~conns[c].done}

\* Every value has its type: no inbox holds more than its buffer, no table
\* points to a connection that was never made (newConn, HandlePM).
RouterTypeOK ==
    /\ sessions \in [Keys -> 0..Len(conns)]
    /\ peers \in [Peers -> Nat]
    /\ \A c \in DOMAIN conns :
          /\ conns[c].key \in Keys
          /\ conns[c].inbox \in 0..InboxSize
          /\ conns[c].active \in 0..now
    /\ closing \cup idle \cup doomed \subseteq DOMAIN conns
    /\ \A h \in Handlers : handler[h].conn \in 0..Len(conns)

PeersExact == \A p \in Peers : peers[p] = Cardinality(SessionsOf(p))

RoutedIsLive ==
    /\ \A c \in Live : sessions[conns[c].key] = c
    /\ \A k \in Keys : sessions[k] # 0 => sessions[k] \in Live \cup closing

\* Through every overlap of closings the per-peer count that admits sessions
\* is the number of the peer's sessions: a drift would shut the peer out for
\* good or lift its limit.  A connection that is not closed is the one its
\* key leads to, so that its messages reach it and the sweeper and the
\* router's Close find it; one that is closed is about to leave the table.
TableExact == PeersExact /\ RoutedIsLive

\* Once the router's Close has done its work no session is left, whatever
\* was being handled, dialed or swept when it began.
NothingOutlivesClose == closed /\ doomed = {} => Live = {}

\* A late reply never reopens a session in the client role.
NoRevival ==
    [][~serverRole => \A k \in Keys :
          sessions[k] = 0 /\ (\E c \in DOMAIN conns : conns[c].key = k)
              => sessions'[k] = 0]_vars

\* A session whose reader has stopped never holds up the message stream:
\* whatever the inboxes hold, a HandlePM that has begun has a step to take.
HandlePMNeverBlocks ==
    \A h \in Handlers : handler[h].pc # "idle" => ENABLED HandlerStep(h)
=============================================================================
