--------------------------- MODULE TransportProofs ---------------------------
(***************************************************************************)
(* The two halves of the transport: the session table (transport.go), for  *)
(* any number of peers, sessions, connections and concurrent handlers, in  *)
(* both roles; and reassembly (wire/wire.go), for any messages, senders,   *)
(* limits and parts that no Encode produced.                               *)
(***************************************************************************)
EXTENDS Router, Assembler, SumTheorems, SequenceTheorems

Connection == [key : Keys, dialed : BOOLEAN, inbox : 0..InboxSize, done : BOOLEAN,
               active : Nat]

\* The table and the connections, typed.
TableType ==
    /\ conns \in Seq(Connection)
    /\ sessions \in [Keys -> 0..Len(conns)]
    /\ peers \in [Peers -> Nat]
    /\ closing \subseteq 1..Len(conns)

\* The goroutines beside it: each points to connections that were made.
HandlerType ==
    /\ handler \in [Handlers -> [pc : {"idle", "accept", "enqueue"}, conn : Nat]]
    /\ \A h \in Handlers :
          /\ handler[h].conn <= Len(conns)
          /\ handler[h].pc # "idle" => handler[h].conn \in 1..Len(conns)

SweepType == idle \subseteq 1..Len(conns) /\ doomed \subseteq 1..Len(conns)

ClockType == now \in Nat /\ \A c \in 1..Len(conns) : conns[c].active <= now

AllTyped == TableType /\ HandlerType /\ SweepType /\ ClockType

\* A connection that still has to leave the table.
Holding(c) == ~conns[c].done \/ c \in closing

\* The table leads to a connection exactly while it has not left the table,
\* and closing is what Close has done and onClose has not.
Linked ==
    /\ \A c \in closing : conns[c].done
    /\ \A c \in 1..Len(conns) : Holding(c) => sessions[conns[c].key] = c
    /\ \A k \in Keys : sessions[k] # 0 => /\ conns[sessions[k]].key = k
                                          /\ Holding(sessions[k])

Counted == \A p \in Peers : /\ IsFiniteSet(SessionsOf(p))
                            /\ peers[p] = Cardinality(SessionsOf(p))

\* What the router's Close has left to do, it knows.
Rounded == closed => Live \subseteq doomed

RouterInv == AllTyped /\ Linked /\ Counted /\ Rounded

-----------------------------------------------------------------------------
(* The ways a step touches the table.                                      *)

\* A step that only closes connections: their keys, and which are touched
\* or read, are as they were.
Closes(cs) ==
    /\ conns' \in Seq(Connection) /\ Len(conns') = Len(conns)
    /\ \A c \in 1..Len(conns) : /\ conns'[c].key = conns[c].key
                                /\ conns'[c].done = (conns[c].done \/ c \in cs)
    /\ closing' = closing \cup {c \in cs : ~conns[c].done}
    /\ UNCHANGED <<sessions, peers>>

LEMMA CloseEffect ==
    ASSUME TableType, NEW cs \in SUBSET (1..Len(conns)), Close(cs), UNCHANGED <<sessions, peers>>
    PROVE  /\ Closes(cs)
           /\ \A c \in 1..Len(conns) : conns'[c].active = conns[c].active
<1> DEFINE next(c) == [conns[c] EXCEPT !.done = @ \/ c \in cs]
<1>1. ASSUME NEW c \in 1..Len(conns)
      PROVE  /\ next(c) \in Connection
             /\ next(c).key = conns[c].key
             /\ next(c).done = (conns[c].done \/ c \in cs)
             /\ next(c).active = conns[c].active
  <2> DEFINE b == conns[c].done \/ c \in cs
  <2>0. conns[c] \in Connection BY DEF TableType
  <2>1. conns[c] \in Connection /\ b \in BOOLEAN BY <2>0
  <2>2. next(c) = [conns[c] EXCEPT !.done = b] OBVIOUS
  <2> HIDE DEF b
  <2>3. /\ [conns[c] EXCEPT !.done = b] \in Connection
        /\ [conns[c] EXCEPT !.done = b].key = conns[c].key
        /\ [conns[c] EXCEPT !.done = b].done = b
        /\ [conns[c] EXCEPT !.done = b].active = conns[c].active
    BY <2>1 DEF Connection
  <2> QED BY <2>2, <2>3 DEF b
<1>2. conns' = [c \in 1..Len(conns) |-> next(c)]
  BY DEF Close, TableType
<1> HIDE DEF next
<1>3. conns' \in Seq(Connection) /\ Len(conns') = Len(conns)
  BY <1>1, <1>2 DEF TableType
<1> QED BY <1>1, <1>2, <1>3 DEF Close, Closes

LEMMA ClosesKeeps ==
    ASSUME TableType, Linked, Counted, NEW cs \in SUBSET (1..Len(conns)), Closes(cs)
    PROVE  TableType' /\ Linked' /\ Counted' /\ Live' = Live \ cs
<1>1. TableType' BY DEF TableType, Closes
<1>2. ASSUME NEW c \in 1..Len(conns) PROVE Holding(c)' <=> Holding(c)
  BY <1>2 DEF Closes, Holding, Linked
<1>3. Linked'
  <2>1. \A c \in closing' : conns'[c].done BY DEF Closes, Linked, TableType
  <2>2. \A c \in 1..Len(conns)' : Holding(c)' => sessions'[conns'[c].key] = c
    BY <1>2 DEF Closes, Linked
  <2>3. \A k \in Keys : sessions'[k] # 0 => /\ conns'[sessions'[k]].key = k
                                            /\ Holding(sessions[k])'
    BY <1>2 DEF Closes, Linked, TableType
  <2> QED BY <2>1, <2>2, <2>3 DEF Linked
<1>4. Counted'
  <2>1. \A p \in Peers : SessionsOf(p)' = SessionsOf(p) BY DEF Closes, SessionsOf
  <2> QED BY <2>1 DEF Closes, Counted
<1>5. Live' = Live \ cs
  <2>1. DOMAIN conns = 1..Len(conns) /\ DOMAIN conns' = 1..Len(conns)
    BY DEF Closes, TableType
  <2> QED BY <2>1 DEF Closes, Live
<1> QED BY <1>1, <1>3, <1>4, <1>5

\* A step that makes a connection for a key the table does not hold.
LEMMA newConnKeeps ==
    ASSUME AllTyped, Linked, Counted, NEW key \in Keys, NEW dialed \in BOOLEAN,
           sessions[key] = 0, newConn(key, dialed), UNCHANGED <<closing, now>>
    PROVE  /\ TableType' /\ Linked' /\ Counted' /\ ClockType'
           /\ Len(conns') = Len(conns) + 1
<1> DEFINE n == Len(conns) + 1
           new == Conn(key, dialed)
<1>1. n \in Nat /\ n > 0 BY DEF AllTyped, TableType
<1>2. new \in Connection /\ new.key = key /\ new.done = FALSE /\ new.active = now
  BY RouterAssumption DEF Conn, Connection, AllTyped, ClockType
<1>3. conns' = Append(conns, new) BY DEF newConn
<1> HIDE DEF new
<1>4. /\ conns' \in Seq(Connection) /\ Len(conns') = n
      /\ conns'[n] = new /\ \A c \in 1..Len(conns) : conns'[c] = conns[c]
  BY <1>2, <1>3 DEF AllTyped, TableType
<1>5. sessions' = [sessions EXCEPT ![key] = n] BY DEF newConn
<1>6. Peer(key) \in Peers BY DEF Keys, Peer
<1>7. peers' = [peers EXCEPT ![Peer(key)] = @ + 1] BY DEF newConn
<1>8. TableType'
  BY <1>1, <1>4, <1>5, <1>6, <1>7 DEF AllTyped, TableType
<1>9. \A c \in 1..Len(conns) : Holding(c)' <=> Holding(c)
  BY <1>4 DEF Holding
<1>10. Linked'
  <2>1. \A c \in closing' : conns'[c].done BY <1>4 DEF AllTyped, TableType, Linked
  <2>2. ASSUME NEW c \in 1..n, Holding(c)' PROVE sessions'[conns'[c].key] = c
    <3>1. CASE c = n BY <1>2, <1>4, <1>5, <3>1 DEF AllTyped, TableType
    <3>2. CASE c # n
      <4>1. c \in 1..Len(conns) BY <1>1, <3>2 DEF AllTyped, TableType
      <4>2. conns[c] \in Connection BY <4>1 DEF AllTyped, TableType
      <4>3. Holding(c) BY <1>9, <2>2, <4>1
      <4>4. sessions[conns[c].key] = c /\ conns[c].key \in Keys
        BY <4>1, <4>2, <4>3 DEF Connection, Linked
      <4> QED BY <1>4, <1>5, <4>1, <4>4 DEF AllTyped, TableType
    <3> QED BY <3>1, <3>2
  <2>3. ASSUME NEW k \in Keys, sessions'[k] # 0
        PROVE  conns'[sessions'[k]].key = k /\ Holding(sessions[k])'
    <3>1. CASE k = key
      <4>1. sessions'[k] = n BY <1>5, <3>1 DEF AllTyped, TableType
      <4> QED BY <1>2, <1>4, <3>1, <4>1 DEF Holding
    <3>2. CASE k # key
      <4>1. sessions'[k] = sessions[k] /\ sessions[k] \in 1..Len(conns)
        BY <1>5, <2>3, <3>2 DEF AllTyped, TableType
      <4> QED BY <1>4, <1>9, <4>1 DEF Linked, Holding
    <3> QED BY <3>1, <3>2
  <2> QED BY <1>4, <2>1, <2>2, <2>3 DEF Linked
<1>11. Counted'
  <2> SUFFICES ASSUME NEW p \in Peers
               PROVE  /\ IsFiniteSet(SessionsOf(p)')
                      /\ peers'[p] = Cardinality(SessionsOf(p)')
    BY DEF Counted
  <2>1. CASE p = Peer(key)
    <3>1. SessionsOf(p)' = SessionsOf(p) \cup {key} /\ key \notin SessionsOf(p)
      BY <1>1, <1>5, <2>1 DEF SessionsOf, AllTyped, TableType
    <3>2. IsFiniteSet(SessionsOf(p)) /\ peers[p] = Cardinality(SessionsOf(p))
      BY DEF Counted
    <3>3. peers'[p] = peers[p] + 1 BY <1>7, <2>1 DEF AllTyped, TableType
    <3> QED BY <3>1, <3>2, <3>3, FS_AddElement
  <2>2. CASE p # Peer(key)
    <3>1. SessionsOf(p)' = SessionsOf(p)
      BY <1>5, <2>2 DEF SessionsOf, AllTyped, TableType
    <3>2. peers'[p] = peers[p] BY <1>7, <2>2 DEF AllTyped, TableType
    <3> QED BY <3>1, <3>2 DEF Counted
  <2> QED BY <2>1, <2>2
<1>12. ClockType'
  BY <1>1, <1>2, <1>4 DEF AllTyped, ClockType, TableType
<1> QED BY <1>4, <1>8, <1>10, <1>11, <1>12

\* onClose: the key of a closing connection leaves the table.
LEMMA LeaveKeeps ==
    ASSUME RouterInv, NEW c \in 1..Len(conns), onClose(c)
    PROVE  TableType' /\ Linked' /\ Counted' /\ sessions' = [sessions EXCEPT ![conns[c].key] = 0]
<1> USE DEF RouterInv, AllTyped, TableType
<1> DEFINE key == conns[c].key
<1>1. key \in Keys /\ Peer(key) \in Peers
  <2>1. conns[c] \in Connection OBVIOUS
  <2> QED BY <2>1 DEF Connection, Keys, Peer
<1>2. sessions[key] = c /\ c # 0 /\ c \in closing BY DEF onClose, Linked, Holding
<1>3. /\ sessions' = [sessions EXCEPT ![key] = 0]
      /\ peers' = [peers EXCEPT ![Peer(key)] = IF @ <= 1 THEN 0 ELSE @ - 1]
      /\ closing' = closing \ {c} /\ conns' = conns
  BY <1>2 DEF onClose
<1> HIDE DEF key
<1>4. TableType'
  <2>1. peers' \in [Peers -> Nat] BY <1>1, <1>3
  <2>2. sessions' \in [Keys -> 0..Len(conns')] BY <1>1, <1>3
  <2> QED BY <1>3, <2>1, <2>2
<1>5. Linked'
  <2>1. \A d \in closing' : conns'[d].done BY <1>3 DEF Linked
  <2>2. ASSUME NEW d \in 1..Len(conns)', Holding(d)' PROVE sessions'[conns'[d].key] = d
    <3>1. d # c BY <1>2, <1>3, <2>2 DEF Holding, Linked
    <3>2. Holding(d) BY <1>3, <2>2 DEF Holding
    <3>3. sessions[conns[d].key] = d BY <1>3, <2>2, <3>2 DEF Linked
    <3>4. conns[d].key # key BY <1>2, <3>1, <3>3
    <3> QED BY <1>1, <1>3, <3>3, <3>4
  <2>3. ASSUME NEW k \in Keys, sessions'[k] # 0
        PROVE  conns'[sessions'[k]].key = k /\ Holding(sessions[k])'
    <3>1. k # key /\ sessions'[k] = sessions[k] BY <1>1, <1>3, <2>3
    <3>2. conns[sessions[k]].key = k /\ Holding(sessions[k]) BY <2>3, <3>1 DEF Linked
    <3>3. sessions[k] # c BY <1>2, <3>1, <3>2 DEF key
    <3> QED BY <1>3, <3>1, <3>2, <3>3 DEF Holding
  <2> QED BY <2>1, <2>2, <2>3 DEF Linked
<1>6. Counted'
  <2> SUFFICES ASSUME NEW p \in Peers
               PROVE  /\ IsFiniteSet(SessionsOf(p)')
                      /\ peers'[p] = Cardinality(SessionsOf(p)')
    BY DEF Counted
  <2>1. CASE p = Peer(key)
    <3>1. SessionsOf(p)' = SessionsOf(p) \ {key} /\ key \in SessionsOf(p)
      BY <1>1, <1>2, <1>3, <2>1 DEF SessionsOf
    <3>2. IsFiniteSet(SessionsOf(p)) /\ peers[p] = Cardinality(SessionsOf(p)) /\ peers[p] \in Nat
      BY DEF Counted
    <3>3. peers[p] # 0 BY <3>1, <3>2, FS_EmptySet
    <3>4. peers'[p] = peers[p] - 1 BY <1>1, <1>3, <2>1, <3>2, <3>3
    <3> QED BY <3>1, <3>2, <3>4, FS_RemoveElement
  <2>2. CASE p # Peer(key)
    <3>1. SessionsOf(p)' = SessionsOf(p) BY <1>1, <1>3, <2>2 DEF SessionsOf
    <3>2. peers'[p] = peers[p] BY <1>3, <2>2
    <3> QED BY <3>1, <3>2 DEF Counted
  <2> QED BY <2>1, <2>2
<1> QED BY <1>3, <1>4, <1>5, <1>6 DEF key

-----------------------------------------------------------------------------
(* Every step keeps the invariant.                                         *)

\* A step that neither makes a connection nor takes a key from the table:
\* what is left of the invariant follows from what it does to the goroutines.
LEMMA ClosingStep ==
    ASSUME RouterInv, NEW cs \in SUBSET (1..Len(conns)), Closes(cs), ClockType',
           HandlerType', SweepType',
           closed' => closed, doomed \ cs \subseteq doomed'
    PROVE  RouterInv'
<1>1. TableType' /\ Linked' /\ Counted' /\ Live' = Live \ cs
  BY ClosesKeeps DEF RouterInv, AllTyped
<1>2. Rounded' BY <1>1 DEF RouterInv, Rounded
<1> QED BY <1>1, <1>2 DEF RouterInv, AllTyped

\* A step that changes no key, no done flag and no table.
LEMMA QuietStep ==
    ASSUME RouterInv, conns' \in Seq(Connection), Len(conns') = Len(conns),
           \A c \in 1..Len(conns) : /\ conns'[c].key = conns[c].key
                                    /\ conns'[c].done = conns[c].done,
           UNCHANGED <<sessions, peers, closing>>,
           ClockType', HandlerType', SweepType',
           closed' => closed, doomed \subseteq doomed'
    PROVE  RouterInv'
<1>1. Closes({})
  <2>1. \A c \in 1..Len(conns) : conns'[c].done = (conns[c].done \/ c \in {})
    <3> TAKE c \in 1..Len(conns)
    <3>1. conns[c] \in Connection BY DEF RouterInv, AllTyped, TableType
    <3>2. conns[c].done \in BOOLEAN BY <3>1 DEF Connection
    <3> QED BY <3>2
  <2> QED BY <2>1 DEF Closes
<1> QED BY <1>1, ClosingStep

\* Updating a connection's inbox or time of traffic is quiet.
LEMMA TouchEffect ==
    ASSUME TableType, ClockType, NEW c \in 1..Len(conns), NEW new \in Connection,
           conns' = [conns EXCEPT ![c] = new],
           new.key = conns[c].key, new.done = conns[c].done, new.active <= now, now' = now
    PROVE  /\ conns' \in Seq(Connection) /\ Len(conns') = Len(conns)
           /\ \A d \in 1..Len(conns) : /\ conns'[d].key = conns[d].key
                                       /\ conns'[d].done = conns[d].done
           /\ ClockType'
<1>1. conns' \in Seq(Connection) /\ Len(conns') = Len(conns) BY DEF TableType
<1>2. ASSUME NEW d \in 1..Len(conns) PROVE conns'[d] = IF d = c THEN new ELSE conns[d]
  BY DEF TableType
<1>3. ClockType' BY <1>1, <1>2 DEF ClockType
<1> QED BY <1>1, <1>2, <1>3

\* A step that closes connections of cs leaves the clock in order.
LEMMA CloseStep ==
    ASSUME RouterInv, NEW cs \in SUBSET (1..Len(conns)), Close(cs), HandlerType', SweepType',
           UNCHANGED <<table, now>>, doomed \ cs \subseteq doomed'
    PROVE  RouterInv'
<1>1. Closes(cs) /\ \A c \in 1..Len(conns) : conns'[c].active = conns[c].active
  BY CloseEffect DEF RouterInv, AllTyped, table
<1>2. ClockType' BY <1>1 DEF RouterInv, AllTyped, ClockType, Closes
<1> QED BY <1>1, <1>2, ClosingStep DEF table

\* HandlePM's message reaches the session it finds, makes one, or is dropped.
LEMMA HandlePMStep ==
    ASSUME RouterInv, NEW h \in Handlers, NEW key \in Keys, HandlePM(h, key)
    PROVE  RouterInv'
<1> USE DEF RouterInv, AllTyped
<1>1. CASE Lookup(h, key)
  <2> DEFINE c == sessions[key]
             new == [conns[c] EXCEPT !.active = now]
  <2>1. c \in 1..Len(conns) BY <1>1 DEF Lookup, TableType
  <2>2. conns[c] \in Connection BY <2>1 DEF TableType
  <2>3. /\ new \in Connection /\ new.key = conns[c].key /\ new.done = conns[c].done
        /\ new.active <= now
    BY <2>2 DEF Connection, ClockType
  <2>4. conns' = [conns EXCEPT ![c] = new] BY <1>1 DEF Lookup
  <2>5. handler' = [handler EXCEPT ![h] = [pc |-> "enqueue", conn |-> c]]
    BY <1>1 DEF Lookup, Goto
  <2>6. UNCHANGED <<sessions, peers, closed, closing, idle, doomed, now>>
    BY <1>1 DEF HandlePM, Lookup
  <2> HIDE DEF c, new
  <2>7. /\ conns' \in Seq(Connection) /\ Len(conns') = Len(conns) /\ ClockType'
        /\ \A d \in 1..Len(conns) : /\ conns'[d].key = conns[d].key
                                    /\ conns'[d].done = conns[d].done
    BY <2>1, <2>3, <2>4, <2>6, TouchEffect
  <2>8. HandlerType' BY <2>1, <2>5, <2>7 DEF HandlerType, TableType
  <2>9. SweepType' BY <2>6, <2>7 DEF SweepType
  <2> QED BY <2>6, <2>7, <2>8, <2>9, QuietStep
<1>2. CASE Admit(h, key)
  <2>1. /\ TableType' /\ Linked' /\ Counted' /\ ClockType' /\ Len(conns') = Len(conns) + 1
    BY <1>2, newConnKeeps DEF Admit, HandlePM
  <2>2. handler' = [handler EXCEPT ![h] = [pc |-> "accept", conn |-> Len(conns) + 1]]
    BY <1>2 DEF Admit, Goto
  <2>3. Len(conns) \in Nat BY DEF TableType
  <2>4. HandlerType' BY <2>1, <2>2, <2>3 DEF HandlerType
  <2>5. SweepType' BY <2>1, <2>3 DEF SweepType, HandlePM
  <2>6. Rounded' BY DEF HandlePM, Open, Rounded
  <2> QED BY <2>1, <2>4, <2>5, <2>6
<1>3. CASE Refuse(h, key)
  <2>1. UNCHANGED <<handler, table, conns, closing, idle, doomed, now>>
    BY <1>3 DEF Refuse, HandlePM, table
  <2> QED
    BY <2>1, QuietStep DEF table, TableType, ClockType, HandlerType, SweepType
<1> QED BY <1>1, <1>2, <1>3 DEF HandlePM

LEMMA EnqueueStep ==
    ASSUME RouterInv, NEW h \in Handlers, Enqueue(h) PROVE RouterInv'
<1> USE DEF RouterInv, AllTyped
<1> DEFINE c == handler[h].conn
<1>1. c \in 1..Len(conns) BY DEF Enqueue, HandlerType
<1>2. /\ handler' = [handler EXCEPT ![h] = [pc |-> "idle", conn |-> 0]]
      /\ UNCHANGED <<table, idle, doomed, now>>
  BY DEF Enqueue, Goto
<1>3. Len(conns') = Len(conns) => HandlerType' /\ SweepType'
  BY <1>2 DEF HandlerType, SweepType, TableType
<1>4. CASE /\ conns[c].inbox < InboxSize
           /\ conns' = [conns EXCEPT ![c].inbox = @ + 1] /\ UNCHANGED closing
  <2> DEFINE new == [conns[c] EXCEPT !.inbox = @ + 1]
  <2>1. conns[c] \in Connection BY <1>1 DEF TableType
  <2>2. /\ new \in Connection /\ new.key = conns[c].key /\ new.done = conns[c].done
        /\ new.active <= now
    <3>1. InboxSize \in Nat /\ now \in Nat /\ conns[c].active <= now
      BY <1>1, RouterAssumption DEF ClockType
    <3>2. conns[c].inbox \in 0..InboxSize BY <2>1 DEF Connection
    <3>3. conns[c].inbox + 1 \in 0..InboxSize BY <1>4, <3>1, <3>2
    <3> QED BY <2>1, <3>1, <3>3 DEF Connection
  <2>3. conns' = [conns EXCEPT ![c] = new] BY <1>4
  <2> HIDE DEF new, c
  <2>4. /\ conns' \in Seq(Connection) /\ Len(conns') = Len(conns) /\ ClockType'
        /\ \A d \in 1..Len(conns) : /\ conns'[d].key = conns[d].key
                                    /\ conns'[d].done = conns[d].done
    BY <1>1, <1>2, <2>2, <2>3, TouchEffect
  <2> QED BY <1>2, <1>3, <1>4, <2>4, QuietStep DEF table
<1>5. CASE UNCHANGED <<conns, closing>>
  BY <1>2, <1>3, <1>5, QuietStep DEF table, TableType, ClockType
<1>6. CASE Close({c})
  <2>1. Len(conns') = Len(conns)
    BY <1>1, <1>2, <1>6, CloseEffect DEF Closes, table
  <2> QED BY <1>1, <1>2, <1>3, <1>6, <2>1, CloseStep
<1> QED BY <1>4, <1>5, <1>6 DEF Enqueue

LEMMA AcceptStep ==
    ASSUME RouterInv, NEW h \in Handlers, Accept(h) PROVE RouterInv'
<1> USE DEF RouterInv, AllTyped
<1> DEFINE c == handler[h].conn
<1>1. c \in 1..Len(conns) BY DEF Accept, HandlerType
<1>2. /\ handler' = [handler EXCEPT ![h] = [pc |-> "enqueue", conn |-> c]]
      /\ UNCHANGED <<table, idle, doomed, now>>
  BY DEF Accept, Goto
<1>3. Len(conns') = Len(conns) => HandlerType' /\ SweepType'
  BY <1>1, <1>2 DEF HandlerType, SweepType, TableType
<1>4. CASE UNCHANGED <<conns, closing>>
  BY <1>2, <1>3, <1>4, QuietStep DEF table, TableType, ClockType
<1>5. CASE Close({c})
  <2>1. Len(conns') = Len(conns)
    BY <1>1, <1>2, <1>5, CloseEffect DEF Closes, table
  <2> QED BY <1>1, <1>2, <1>3, <1>5, <2>1, CloseStep
<1> QED BY <1>4, <1>5 DEF Accept

\* The steps of one connection's owner, its sweep and its end.
LEMMA ConnStep ==
    ASSUME RouterInv, NEW c \in 1..Len(conns),
           onClose(c) \/ OwnerClose(c) \/ Read(c) \/ Write(c) \/ SweepClose(c) \/ CloseDoomed(c)
    PROVE  RouterInv'
<1> USE DEF RouterInv, AllTyped
<1>1. CASE onClose(c)
  <2>1. TableType' /\ Linked' /\ Counted' BY <1>1, LeaveKeeps
  <2>2. UNCHANGED <<closed, conns, handler, idle, doomed, now>>
    BY <1>1 DEF onClose, table
  <2> QED
    BY <2>1, <2>2 DEF HandlerType, SweepType, ClockType, Rounded, Live
<1>2. CASE Read(c) \/ Write(c)
  <2>1. PICK new \in Connection : /\ conns' = [conns EXCEPT ![c] = new]
                                  /\ new.key = conns[c].key /\ new.done = conns[c].done
                                  /\ new.active <= now
    <3>1. conns[c] \in Connection /\ conns[c].active <= now BY DEF TableType, ClockType
    <3>2. InboxSize \in Nat /\ now \in Nat BY RouterAssumption DEF ClockType
    <3>3. CASE Read(c)
      <4> DEFINE new == [conns[c] EXCEPT !.inbox = @ - 1]
      <4>1. conns[c].inbox - 1 \in 0..InboxSize BY <3>1, <3>2, <3>3 DEF Read, Connection
      <4>2. /\ new \in Connection /\ new.key = conns[c].key /\ new.done = conns[c].done
            /\ new.active = conns[c].active
        BY <3>1, <4>1 DEF Connection
      <4>3. conns' = [conns EXCEPT ![c] = new] BY <3>3 DEF Read
      <4> QED BY <3>1, <4>2, <4>3
    <3>4. CASE Write(c)
      <4> DEFINE new == [conns[c] EXCEPT !.active = now]
      <4>1. /\ new \in Connection /\ new.key = conns[c].key /\ new.done = conns[c].done
            /\ new.active <= now
        BY <3>1, <3>2 DEF Connection
      <4>2. conns' = [conns EXCEPT ![c] = new] BY <3>4 DEF Write
      <4> HIDE DEF new
      <4> QED BY <4>1, <4>2
    <3> QED BY <1>2, <3>3, <3>4
  <2>2. UNCHANGED <<table, closing, handler, idle, doomed, now>> BY <1>2 DEF Read, Write
  <2>3. /\ conns' \in Seq(Connection) /\ Len(conns') = Len(conns) /\ ClockType'
        /\ \A d \in 1..Len(conns) : /\ conns'[d].key = conns[d].key
                                    /\ conns'[d].done = conns[d].done
    BY <2>1, <2>2, TouchEffect
  <2> QED BY <2>2, <2>3, QuietStep DEF table, HandlerType, SweepType
<1>3. CASE OwnerClose(c) \/ SweepClose(c) \/ CloseDoomed(c)
  <2>1. Close({c}) /\ UNCHANGED <<table, handler, now>>
    BY <1>3 DEF OwnerClose, SweepClose, CloseDoomed
  <2>2. idle' \subseteq idle /\ doomed \ {c} \subseteq doomed' /\ doomed' \subseteq doomed
    BY <1>3 DEF OwnerClose, SweepClose, CloseDoomed
  <2>3. Len(conns') = Len(conns) BY <2>1, CloseEffect DEF Closes, table
  <2>4. HandlerType' /\ SweepType' BY <2>1, <2>2, <2>3 DEF HandlerType, SweepType
  <2> QED BY <2>1, <2>2, <2>4, CloseStep
<1> QED BY <1>1, <1>2, <1>3

LEMMA DialStep ==
    ASSUME RouterInv, NEW key \in Keys, Dial(key) PROVE RouterInv'
<1> USE DEF RouterInv, AllTyped
<1>1. sessions[key] = 0
  <2> SUFFICES ASSUME sessions[key] # 0 PROVE FALSE
    OBVIOUS
  <2>1. sessions[key] \in 1..Len(conns) /\ conns[sessions[key]].key = key
    BY DEF TableType, Linked
  <2> QED BY <2>1 DEF Dial, TableType
<1>2. /\ TableType' /\ Linked' /\ Counted' /\ ClockType' /\ Len(conns') = Len(conns) + 1
  BY <1>1, newConnKeeps DEF Dial
<1>3. Len(conns) \in Nat BY DEF TableType
<1>4. HandlerType' /\ SweepType' BY <1>2, <1>3 DEF HandlerType, SweepType, Dial
<1>5. Rounded' BY DEF Dial, Open, Rounded
<1> QED BY <1>2, <1>4, <1>5

\* The router's Close knows every session that is live.
LEMMA RouterCloseStep == RouterInv /\ RouterClose => RouterInv'
<1> SUFFICES ASSUME RouterInv, RouterClose PROVE RouterInv'
  OBVIOUS
<1> USE DEF RouterInv, AllTyped
<1>1. UNCHANGED <<sessions, peers, conns, closing, handler, idle, now>> BY DEF RouterClose
<1>2. TableType' /\ HandlerType' /\ ClockType'
  BY <1>1 DEF TableType, HandlerType, ClockType
<1>3. Linked' BY <1>1 DEF Linked, Holding
<1>4. Counted'
  <2>1. \A p \in Peers : SessionsOf(p)' = SessionsOf(p) BY <1>1 DEF SessionsOf
  <2> QED BY <1>1, <2>1 DEF Counted
<1>5. DOMAIN conns = 1..Len(conns) BY DEF TableType
<1>6. SweepType' BY <1>1, <1>5 DEF SweepType, RouterClose
<1>7. Live' = Live /\ Live \subseteq doomed'
  BY <1>1, <1>5 DEF Live, RouterClose, Linked, Holding
<1>8. Rounded' BY <1>7 DEF Rounded
<1> QED BY <1>2, <1>3, <1>4, <1>6, <1>8

LEMMA RouterStep == RouterInv /\ [Next]_vars => RouterInv'
<1> SUFFICES ASSUME RouterInv, [Next]_vars PROVE RouterInv'
  OBVIOUS
<1>1. ASSUME UNCHANGED <<table, conns, closing, handler, doomed>>,
             idle' \subseteq 1..Len(conns), ClockType'
      PROVE  RouterInv'
  BY <1>1, QuietStep
     DEF RouterInv, AllTyped, table, TableType, HandlerType, SweepType
<1>2. ASSUME NEW h \in Handlers, NEW p \in Peers, NEW s \in InSids \cup DialSids,
             HandlePM(h, <<p, s>>)
      PROVE  RouterInv'
  BY <1>2, HandlePMStep DEF Keys
<1>3. ASSUME NEW h \in Handlers, HandlerStep(h) PROVE RouterInv'
  BY <1>3, AcceptStep, EnqueueStep DEF HandlerStep
<1>4. ASSUME NEW p \in Peers, NEW s \in DialSids, Dial(<<p, s>>) PROVE RouterInv'
  BY <1>4, DialStep DEF Keys
<1>5. DOMAIN conns = 1..Len(conns) BY DEF RouterInv, AllTyped, TableType
<1>6. ASSUME NEW c \in DOMAIN conns,
             onClose(c) \/ OwnerClose(c) \/ Read(c) \/ Write(c) \/ SweepClose(c) \/ CloseDoomed(c)
      PROVE  RouterInv'
  BY <1>5, <1>6, ConnStep
<1>7. CASE Sweep \/ SweepStop \/ UNCHANGED vars
  <2>1. ClockType' BY <1>7 DEF Sweep, SweepStop, vars, ClockType, RouterInv, AllTyped
  <2>2. idle' \subseteq 1..Len(conns)
    BY <1>5, <1>7 DEF Sweep, SweepStop, vars, SweepType, RouterInv, AllTyped
  <2> QED BY <1>1, <1>7, <2>1, <2>2 DEF Sweep, SweepStop, vars
<1>8. CASE Tick
  <2>1. ClockType'
    <3>1. \A c \in 1..Len(conns) : conns[c].active \in Nat
      <4> TAKE c \in 1..Len(conns)
      <4>1. conns[c] \in Connection BY DEF RouterInv, AllTyped, TableType
      <4> QED BY <4>1 DEF Connection
    <3> QED BY <1>8, <3>1 DEF Tick, ClockType, RouterInv, AllTyped
  <2>2. idle' \subseteq 1..Len(conns) BY <1>8 DEF Tick, SweepType, RouterInv, AllTyped
  <2> QED BY <1>1, <1>8, <2>1, <2>2 DEF Tick
<1>9. CASE RouterClose
  BY <1>9, RouterCloseStep
<1> QED BY <1>2, <1>3, <1>4, <1>6, <1>7, <1>8, <1>9 DEF Next

LEMMA RouterInit == Init => RouterInv
<1> SUFFICES ASSUME Init PROVE RouterInv
  OBVIOUS
<1>1. conns = <<>> /\ Len(conns) = 0 BY DEF Init
<1>2. AllTyped
  BY <1>1 DEF Init, Idle, AllTyped, TableType, HandlerType, SweepType, ClockType
<1>3. Linked BY <1>1 DEF Init, Linked
<1>4. Counted
  <2>1. \A p \in Peers : SessionsOf(p) = {} BY DEF Init, SessionsOf
  <2> QED BY <2>1, FS_EmptySet DEF Init, Counted
<1>5. Rounded BY DEF Init, Rounded
<1> QED BY <1>2, <1>3, <1>4, <1>5 DEF RouterInv

LEMMA RouterInvariant == Spec => []RouterInv
BY RouterInit, RouterStep, PTL DEF Spec

-----------------------------------------------------------------------------
(* What the invariant means.                                               *)

\* Every value has its type: no inbox holds more than its buffer and no table
\* points to a connection that was never made (newConn, HandlePM).
THEOREM RouterTypeCorrect == Spec => []RouterTypeOK
<1>1. RouterInv => RouterTypeOK
  <2> SUFFICES ASSUME RouterInv PROVE RouterTypeOK
    OBVIOUS
  <2> USE DEF RouterInv, AllTyped
  <2>1. DOMAIN conns = 1..Len(conns) /\ Len(conns) \in Nat BY DEF TableType
  <2>2. ASSUME NEW c \in 1..Len(conns)
        PROVE  /\ conns[c].key \in Keys /\ conns[c].inbox \in 0..InboxSize
               /\ conns[c].active \in 0..now
    <3>1. conns[c] \in Connection BY DEF TableType
    <3> QED BY <3>1 DEF Connection, ClockType
  <2>3. \A h \in Handlers : handler[h].conn \in 0..Len(conns)
    BY <2>1 DEF HandlerType
  <2> QED BY <2>1, <2>2, <2>3 DEF RouterTypeOK, TableType, SweepType
<1> QED BY <1>1, RouterInvariant, PTL

\* The per-peer count of newConnLocked and onClose is the number of the peer's
\* sessions, and the table leads to every connection that is not closed.
THEOREM TableExactCorrect == Spec => []TableExact
<1>1. RouterInv => TableExact
  <2> SUFFICES ASSUME RouterInv PROVE TableExact
    OBVIOUS
  <2> USE DEF RouterInv, AllTyped
  <2>1. DOMAIN conns = 1..Len(conns) BY DEF TableType
  <2>2. PeersExact BY DEF Counted, PeersExact
  <2>3. RoutedIsLive BY <2>1 DEF RoutedIsLive, Live, Linked, Holding, TableType
  <2> QED BY <2>2, <2>3 DEF TableExact
<1> QED BY <1>1, RouterInvariant, PTL

\* Once the router's Close has closed what it collected, no session is left
\* (Router.Close beside HandlePM and Dial).
THEOREM NothingOutlivesCloseCorrect == Spec => []NothingOutlivesClose
<1>1. RouterInv => NothingOutlivesClose
  BY DEF RouterInv, Rounded, NothingOutlivesClose
<1> QED BY <1>1, RouterInvariant, PTL

\* A late reply never reopens a session in the client role (HandlePM, Dial).
THEOREM NoRevivalCorrect == Spec => NoRevival
<1> DEFINE Past(k) == sessions[k] = 0 /\ \E c \in DOMAIN conns : conns[c].key = k
<1>1. RouterInv /\ [Next]_vars =>
        [~serverRole => \A k \in Keys : Past(k) => sessions'[k] = 0]_vars
  <2> SUFFICES ASSUME RouterInv, Next, ~serverRole, NEW k \in Keys, Past(k)
               PROVE  sessions'[k] = 0
    BY DEF vars
  <2> USE DEF RouterInv, AllTyped
  <2>1. CASE UNCHANGED sessions BY <2>1
  <2>2. ASSUME NEW c \in DOMAIN conns, onClose(c) PROVE sessions'[k] = 0
    <3>1. c \in 1..Len(conns) BY DEF TableType
    <3>2. sessions' = [sessions EXCEPT ![conns[c].key] = 0] BY <2>2, <3>1, LeaveKeeps
    <3> QED BY <3>2 DEF TableType
  <2>3. ASSUME NEW p \in Peers, NEW s \in DialSids, Dial(<<p, s>>) PROVE sessions'[k] = 0
    <3>1. k # <<p, s>> BY <2>3 DEF Dial
    <3>2. sessions' = [sessions EXCEPT ![<<p, s>>] = Len(conns) + 1]
      BY <2>3 DEF Dial, newConn
    <3> QED BY <3>1, <3>2 DEF TableType
  <2>4. ASSUME NEW h \in Handlers, NEW key \in Keys, HandlePM(h, key)
        PROVE  UNCHANGED sessions
    BY <2>4 DEF HandlePM, Lookup, Admit, Refuse
  <2> QED
    BY <2>1, <2>2, <2>3, <2>4
       DEF Next, Keys, HandlerStep, Accept, Enqueue, OwnerClose, Read, Write, SweepClose,
           CloseDoomed, Sweep, SweepStop, RouterClose, Tick, table
<1> QED BY <1>1, RouterInvariant, PTL DEF Spec, NoRevival

-----------------------------------------------------------------------------
(* Reassembly.  Encode: what the parts of a message are.                   *)

LEMMA DivCeil ==
    ASSUME NEW n \in Nat \ {0}, NEW k \in Nat \ {0}
    PROVE  LET q == (n + k - 1) \div k
           IN  q \in Nat \ {0} /\ (q - 1) * k < n /\ n <= q * k
<1> DEFINE q == (n + k - 1) \div k
           r == (n + k - 1) % k
<1>1. q \in Int /\ r \in 0..k - 1 /\ n + k - 1 = k * q + r
  OBVIOUS
<1>2. q * k = k * q /\ (q - 1) * k = k * q - k
  BY <1>1
<1> HIDE DEF q, r
<1>3. n <= q * k /\ (q - 1) * k < n
  BY <1>1, <1>2
<1>4. q >= 1
  <2> SUFFICES ASSUME q <= 0 PROVE FALSE
    BY <1>1
  <2>1. k * q <= 0
    BY <1>1
  <2> QED BY <1>1, <1>2, <1>3, <2>1
<1> QED BY <1>1, <1>3, <1>4 DEF q

\* The part numbers of a message cut its payload into adjacent, non-empty
\* pieces.
LEMMA PieceBounds ==
    ASSUME NEW m \in Messages, LenOf[m] > 0
    PROVE  /\ Total(m) \in Nat \ {0}
           /\ ChunkEnd(m, Total(m)) = LenOf[m]
           /\ \A i \in 1..Total(m) : /\ ChunkEnd(m, i) \in 1..LenOf[m]
                                     /\ (i - 1) * ChunkSize \in 0..LenOf[m] - 1
                                     /\ (i - 1) * ChunkSize < ChunkEnd(m, i)
                                     /\ i # 1 => ChunkEnd(m, i - 1) = (i - 1) * ChunkSize
<1> DEFINE L == LenOf[m]
           K == ChunkSize
           q == Total(m)
<1>0. L \in Nat \ {0} /\ K \in Nat \ {0}
  BY AssemblerAssumption
<1>1. q \in Nat \ {0} /\ (q - 1) * K < L /\ L <= q * K
  BY <1>0, DivCeil DEF Total
<1>2. \A i \in Int : ChunkEnd(m, i) = IF i * K > L THEN L ELSE i * K
  BY DEF ChunkEnd
<1> HIDE DEF L, K, q
<1>3. ChunkEnd(m, q) = L
  BY <1>0, <1>1, <1>2
<1>4. ASSUME NEW i \in 1..q
      PROVE  /\ ChunkEnd(m, i) \in 1..L
             /\ (i - 1) * K \in 0..L - 1
             /\ (i - 1) * K < ChunkEnd(m, i)
             /\ i # 1 => ChunkEnd(m, i - 1) = (i - 1) * K
  <2> DEFINE j == i - 1
  <2>1. j \in 0..q - 1 /\ i * K = j * K + K
    BY <1>0, <1>1
  <2>2. j * K \in Int /\ j * K >= 0
    BY <1>0, <1>1, <2>1
  <2>3. j * K <= (q - 1) * K
    BY <1>0, <1>1, <2>1
  <2>4. ChunkEnd(m, j) = IF j * K > L THEN L ELSE j * K
    BY <1>2, <2>1
  <2>5. ChunkEnd(m, i) = IF j * K + K > L THEN L ELSE j * K + K
    BY <1>2, <2>1
  <2> HIDE DEF j
  <2>6. (q - 1) * K \in Int
    BY <1>0, <1>1
  <2>7. /\ ChunkEnd(m, i) \in 1..L /\ j * K \in 0..L - 1 /\ j * K < ChunkEnd(m, i)
        /\ ChunkEnd(m, j) = j * K
    BY <1>0, <1>1, <2>2, <2>3, <2>4, <2>5, <2>6
  <2> QED BY <2>7 DEF j
<1> QED BY <1>1, <1>3, <1>4 DEF L, K, q

Piece(m, i) == SubSeq(Payload(m), (i - 1) * ChunkSize + 1, ChunkEnd(m, i))

LEMMA PayloadType ==
    ASSUME NEW m \in Messages
    PROVE  Payload(m) \in Seq(Bytes) /\ Len(Payload(m)) = LenOf[m] /\ LenOf[m] \in Nat
BY AssemblerAssumption DEF Payload, Bytes

\* A non-empty set of numbers has a least one.
LEMMA LeastNumber ==
    ASSUME NEW n \in Nat, NEW S \in SUBSET (1..n), S # {}
    PROVE  \E k \in S : \A y \in S : k <= y
<1> DEFINE upTo(k) == 1..k
           base == 1..n
           T == {V \in SUBSET base : \E k \in S : V = upTo(k)}
<1>0. IsFiniteSet(base) /\ \A k \in S : upTo(k) \in SUBSET base
  BY FS_Interval
<1> HIDE DEF upTo, base
<1>1. T \in SUBSET (SUBSET base) /\ T # {}
  BY <1>0
<1>2. PICK U \in T : \A V \in T : V \subseteq U => V = U
  <2> HIDE DEF T
  <2> QED BY <1>0, <1>1, SmallestSet
<1>3. PICK k \in S : U = upTo(k)
  BY <1>2
<1>4. ASSUME NEW y \in S PROVE k <= y
  <2>1. SUFFICES ASSUME y < k PROVE FALSE
    OBVIOUS
  <2>2. upTo(y) \subseteq upTo(k) /\ k \in upTo(k) /\ k \notin upTo(y)
    BY <2>1 DEF upTo
  <2>3. upTo(y) \in T
    BY <1>0
  <2>4. upTo(y) = upTo(k)
    BY <1>2, <1>3, <2>2, <2>3
  <2> QED BY <2>2, <2>4
<1> QED BY <1>4

\* g is what FlattenSeq builds from s, part by part.
Flattens(g, s, n) == g = [i \in 1..n |-> IF i = 1 THEN s[i] ELSE g[i - 1] \o s[i]]

\* There is only one.
LEMMA FlattenUnique ==
    ASSUME NEW n \in Nat \ {0}, NEW s, Len(s) = n, NEW g, Flattens(g, s, n)
    PROVE  FlattenSeq(s) = g[n]
<1> DEFINE Rec(h) == Flattens(h, s, n)
           f == CHOOSE h : Rec(h)
<1>1. FlattenSeq(s) = f[n]
  BY DEF FlattenSeq, Flattens
<1>2. Rec(f)
  <2>1. Rec(g)
    OBVIOUS
  <2> HIDE DEF Rec
  <2> QED BY <2>1
<1> HIDE DEF f
<1>3. ASSUME NEW i \in 1..n, f[i] # g[i] PROVE FALSE
  <2> DEFINE S == {j \in 1..n : f[j] # g[j]}
  <2>1. PICK k \in S : \A j \in S : k <= j
    <3>1. S \in SUBSET (1..n) /\ S # {}
      BY <1>3
    <3> HIDE DEF S
    <3> QED BY <3>1, LeastNumber
  <2>2. k \in 1..n /\ f[k] # g[k]
    BY <2>1
  <2>3. \A h : Rec(h) => h[k] = IF k = 1 THEN s[k] ELSE h[k - 1] \o s[k]
    <3> HIDE DEF S
    <3> QED BY <2>2, Zenon DEF Flattens
  <2>4. k # 1 /\ f[k] = f[k - 1] \o s[k] /\ g[k] = g[k - 1] \o s[k]
    <3>1. Rec(g)
      OBVIOUS
    <3> HIDE DEF Rec, S
    <3> QED BY <1>2, <2>2, <2>3, <3>1
  <2>5. f[k - 1] = g[k - 1]
    <3>1. k - 1 \in 1..n /\ k - 1 \notin S
      BY <2>1, <2>4
    <3> QED BY <3>1
  <2> HIDE DEF Rec, S
  <2> QED BY <2>2, <2>4, <2>5
<1> QED BY <1>1, <1>3

\* Put together in order, the pieces are the payload.
LEMMA JoinIsPayload ==
    ASSUME NEW m \in Messages, LenOf[m] > 0,
           NEW s, s = [i \in 1..Total(m) |-> Piece(m, i)]
    PROVE  FlattenSeq(s) = Payload(m)
<1> DEFINE n == Total(m)
           P == Payload(m)
           g == [i \in 1..n |-> SubSeq(P, 1, ChunkEnd(m, i))]
<1>1. n \in Nat \ {0} /\ ChunkEnd(m, n) = LenOf[m]
  BY PieceBounds
<1>2. P \in Seq(Bytes) /\ Len(P) = LenOf[m] /\ LenOf[m] \in Nat
  BY PayloadType
<1>3. ASSUME NEW i \in 1..n
      PROVE  g[i] = IF i = 1 THEN s[i] ELSE g[i - 1] \o s[i]
  <2> DEFINE b == (i - 1) * ChunkSize
             e == ChunkEnd(m, i)
  <2>1. /\ e \in 1..LenOf[m] /\ b \in 0..LenOf[m] - 1 /\ b < e
        /\ i # 1 => ChunkEnd(m, i - 1) = b
    BY PieceBounds
  <2>2. s[i] = SubSeq(P, b + 1, e)
    BY DEF Piece
  <2>3. g[i] = SubSeq(P, 1, e)
    OBVIOUS
  <2>4. CASE i = 1
    <3>1. b = 0
      BY <2>4, AssemblerAssumption
    <3> HIDE DEF b, e, g
    <3> QED BY <2>2, <2>3, <2>4, <3>1
  <2>5. CASE i # 1
    <3>1. g[i - 1] = SubSeq(P, 1, b)
      <4>1. i - 1 \in 1..n
        BY <1>1, <2>5
      <4> QED BY <2>1, <2>5, <4>1
    <3>2. SubSeq(P, 1, b) \o SubSeq(P, b + 1, e) = SubSeq(P, 1, e)
      <4> HIDE DEF b, e, P
      <4>1. 1 \in 1..Len(P) + 1 /\ b \in 1 - 1..Len(P) /\ e \in b..Len(P)
        BY <1>2, <2>1
      <4> QED BY <1>2, <4>1, ConcatAdjacentSubSeq
    <3> HIDE DEF b, e, g, P
    <3> QED BY <2>2, <2>3, <2>5, <3>1, <3>2
  <2> QED BY <2>4, <2>5
<1>4. Len(s) = n
  <2> HIDE DEF n
  <2>1. DOMAIN s = 1..n
    BY DEF n
  <2> QED BY <1>1, <2>1 DEF n
<1>5. Flattens(g, s, n)
  BY <1>3 DEF Flattens
<1>6. FlattenSeq(s) = g[n]
  <2> HIDE DEF g, n
  <2> QED BY <1>1, <1>4, <1>5, FlattenUnique
<1>7. g[n] = SubSeq(P, 1, LenOf[m])
  <2>1. n \in 1..n
    BY <1>1
  <2>2. g[n] = SubSeq(P, 1, ChunkEnd(m, n))
    <3> HIDE DEF n, P
    <3> QED BY <2>1
  <2> HIDE DEF g, n, P
  <2> QED BY <1>1, <2>2
<1>8. SubSeq(P, 1, LenOf[m]) = P
  BY <1>2, SubSeqFull
<1> QED BY <1>6, <1>7, <1>8

-----------------------------------------------------------------------------
(* The inductive invariant.                                                *)

\* Every part of m comes from its Encode.
Clean(m) == \A r \in Rogue : r.mid # m

\* A pending message at time t: its counter is what its parts hold.
MessageOK(msg, t) ==
    /\ msg.total \in 2..MaxParts /\ msg.exp \in Int /\ msg.firstSeen \in 0..t
    /\ DOMAIN msg.parts \subseteq 1..msg.total
    /\ \A i \in DOMAIN msg.parts : msg.parts[i] \in Seq(Bytes)
    /\ msg.bytes \in Nat /\ msg.bytes = Held(msg) /\ msg.bytes <= MaxMessageBytes

\* What it holds of a message that only Encode made are that message's pieces.
Pieces(m, msg) ==
    Clean(m) => /\ LenOf[m] > 0 /\ msg.total = Total(m)
                /\ \A i \in DOMAIN msg.parts : msg.parts[i] = Piece(m, i)

BytesOf(a) == [m \in DOMAIN a.pending |-> a.pending[m].bytes]

OfPeer(a, p) == {m \in DOMAIN a.pending : PeerOf[m] = p}

\* The state a of an Assembler at time t.
Accounted(a, t) ==
    /\ DOMAIN a.pending \subseteq Messages
    /\ \A m \in DOMAIN a.pending : MessageOK(a.pending[m], t) /\ Pieces(m, a.pending[m])
    /\ a.perPeer \in [Senders -> Nat]
    /\ \A p \in Senders : /\ a.perPeer[p] = Cardinality(OfPeer(a, p))
                        /\ a.perPeer[p] <= MaxPendingPerPeer
    /\ a.bytes \in Nat /\ a.bytes = SumFunctionOnSet(BytesOf(a), DOMAIN a.pending)
    /\ a.bytes <= MaxTotalBytes

AssemblerInv ==
    /\ clock \in 0..MaxClock
    /\ Accounted(asm, clock)
    /\ out.st \in {"none", "partial", "error", "full"}
    /\ ReturnedIntact

-----------------------------------------------------------------------------
(* The operators keep the accounts.                                        *)

\* What a part that parses says.
LEMMA PartSays ==
    ASSUME NEW p \in Parts, Parse(p)
    PROVE  /\ p.mid \in Messages /\ PeerOf[p.mid] \in Senders
           /\ p.total \in 1..MaxParts /\ p.seq \in 1..p.total /\ p.exp \in Int
           /\ p.chunk \in Seq(Bytes) /\ Len(p.chunk) \in Nat
           /\ Clean(p.mid) => /\ LenOf[p.mid] > 0 /\ p.total = Total(p.mid)
                              /\ p.chunk = Piece(p.mid, p.seq)
<1>1. CASE p \in Rogue
  BY <1>1, AssemblerAssumption DEF Parse, Clean
<1>2. ASSUME NEW m \in Messages, p \in Encode(m)
      PROVE  p.mid = m /\ p.mid \in Messages
             /\ p.total \in Int /\ p.seq \in Int /\ p.exp \in Int
             /\ p.chunk \in Seq(Bytes)
             /\ LenOf[m] > 0 /\ p.total = Total(m) /\ p.chunk = Piece(m, p.seq)
  <2>1. LenOf[m] # 0
    BY <1>2 DEF Encode
  <2>2. LenOf[m] \in Nat /\ LenOf[m] > 0 /\ ExpOf[m] \in Int
    BY <2>1, AssemblerAssumption
  <2>3. PICK i \in 1..Total(m) :
            p = [mid |-> m, seq |-> i, total |-> Total(m), exp |-> ExpOf[m],
                 chunk |-> SubSeq(Payload(m), (i - 1) * ChunkSize + 1, ChunkEnd(m, i))]
    BY <1>2 DEF Encode
  <2>4. Total(m) \in Nat /\ p.chunk = Piece(m, i)
    BY <2>2, <2>3, PieceBounds DEF Piece
  <2>5. p.chunk \in Seq(Bytes)
    <3> DEFINE b == (i - 1) * ChunkSize + 1
               e == ChunkEnd(m, i)
               P == Payload(m)
    <3>1. b \in 1..LenOf[m] /\ e \in 1..LenOf[m]
      BY <2>2, PieceBounds
    <3>2. P \in Seq(Bytes) /\ Len(P) = LenOf[m]
      BY PayloadType
    <3>3. p.chunk = SubSeq(P, b, e)
      BY <2>4 DEF Piece
    <3> HIDE DEF b, e, P
    <3>4. \A j \in b..e : P[j] \in Bytes
      BY <2>2, <3>1, <3>2
    <3> QED BY <3>1, <3>3, <3>4, <2>2, SubSeqProperties
  <2> QED BY <2>2, <2>3, <2>4, <2>5
<1>3. CASE p \notin Rogue
  <2>1. PICK m \in Messages : p \in Encode(m)
    BY <1>3 DEF Parts
  <2>2. Len(p.chunk) \in Nat
    BY <1>2, <2>1
  <2> QED BY <1>2, <2>1, <2>2, AssemblerAssumption DEF Parse
<1> QED BY <1>1, <1>3

\* The parts of a message have a size.
LEMMA HeldType ==
    ASSUME NEW msg, NEW n \in Nat, DOMAIN msg.parts \subseteq 1..n,
           \A i \in DOMAIN msg.parts : msg.parts[i] \in Seq(Bytes)
    PROVE  IsFiniteSet(DOMAIN msg.parts) /\ Held(msg) \in Nat
<1> DEFINE D == DOMAIN msg.parts
           f == [i \in D |-> Len(msg.parts[i])]
<1>1. IsFiniteSet(D)
  <2>1. IsFiniteSet(1..n) /\ D \in SUBSET (1..n)
    BY FS_Interval
  <2> QED BY <2>1, FS_Subset
<1>2. \A i \in D : f[i] \in Nat
  OBVIOUS
<1>3. SumFunctionOnSet(f, D) \in Nat
  <2> HIDE DEF f, D
  <2> QED BY <1>1, <1>2, SumNat
<1> QED BY <1>1, <1>3 DEF Held

\* Dropping messages takes from every counter what they counted for.
LEMMA DropKeeps ==
    ASSUME NEW a, NEW t, Accounted(a, t), NEW ms \in SUBSET DOMAIN a.pending
    PROVE  Accounted(dropLocked(a, ms), t)
<1> DEFINE D == DOMAIN a.pending
           b == dropLocked(a, ms)
           f == BytesOf(a)
<1>1. /\ D \subseteq Messages /\ IsFiniteSet(D) /\ IsFiniteSet(ms) /\ IsFiniteSet(D \ ms)
      /\ a.perPeer \in [Senders -> Nat] /\ a.bytes \in Nat
      /\ MaxPendingPerPeer \in Nat /\ MaxTotalBytes \in Nat
      /\ \A m \in D : a.pending[m].bytes \in Nat
  BY AssemblerAssumption, FS_Subset DEF Accounted, MessageOK
<1>2. /\ b.pending = [m \in D \ ms |-> a.pending[m]]
      /\ DOMAIN b.pending = D \ ms
      /\ b.bytes = a.bytes - SumFunctionOnSet([m \in ms |-> a.pending[m].bytes], ms)
  BY DEF dropLocked
<1>3. \A m \in DOMAIN b.pending : b.pending[m] = a.pending[m] /\ m \in D
  BY <1>2
<1>4. /\ b.perPeer \in [Senders -> Nat]
      /\ \A p \in Senders : /\ b.perPeer[p] = Cardinality(OfPeer(b, p))
                          /\ b.perPeer[p] <= MaxPendingPerPeer
  <2> DEFINE gone(p) == {m \in ms : PeerOf[m] = p}
             n(p) == Cardinality(gone(p))
  <2>1. b.perPeer = [p \in Senders |-> IF a.perPeer[p] <= n(p) THEN 0 ELSE a.perPeer[p] - n(p)]
    BY DEF dropLocked
  <2>2. ASSUME NEW p \in Senders
        PROVE  /\ n(p) \in Nat /\ n(p) <= a.perPeer[p]
               /\ Cardinality(OfPeer(b, p)) = a.perPeer[p] - n(p)
    <3> DEFINE A == OfPeer(a, p)
               G == gone(p)
    <3>1. IsFiniteSet(A) /\ G \in SUBSET A
      BY <1>1, FS_Subset DEF OfPeer
    <3>2. OfPeer(b, p) = A \ G /\ A \cap G = G
      BY <1>2 DEF OfPeer
    <3>3. a.perPeer[p] = Cardinality(A)
      BY DEF Accounted
    <3> HIDE DEF A, G
    <3>4. /\ IsFiniteSet(G) /\ Cardinality(G) \in Nat /\ Cardinality(G) <= Cardinality(A)
          /\ Cardinality(A) \in Nat
      BY <3>1, FS_Subset, FS_CardinalityType
    <3>5. Cardinality(A \ G) = Cardinality(A) - Cardinality(A \cap G)
      BY <3>1, FS_Difference
    <3> QED BY <3>2, <3>3, <3>4, <3>5 DEF G
  <2>3. \A p \in Senders : a.perPeer[p] \in Nat /\ a.perPeer[p] <= MaxPendingPerPeer
    BY <1>1 DEF Accounted
  <2> HIDE DEF n, b
  <2>4. \A p \in Senders : b.perPeer[p] = a.perPeer[p] - n(p)
    BY <2>1, <2>2, <2>3
  <2>5. b.perPeer \in [Senders -> Nat]
    BY <2>1, <2>2, <2>3
  <2> QED BY <1>1, <2>2, <2>3, <2>4, <2>5
<1>5. /\ b.bytes \in Nat /\ b.bytes <= MaxTotalBytes
      /\ b.bytes = SumFunctionOnSet(BytesOf(b), DOMAIN b.pending)
  <2> DEFINE g == [m \in ms |-> a.pending[m].bytes]
             h == BytesOf(b)
  <2>1. /\ \A m \in D : f[m] \in Nat
        /\ \A m \in ms : g[m] = f[m] /\ g[m] \in Nat
        /\ \A m \in D \ ms : h[m] = f[m] /\ h[m] \in Nat
    BY <1>1, <1>2 DEF BytesOf
  <2>2. a.bytes = SumFunctionOnSet(f, D) /\ a.bytes <= MaxTotalBytes
    BY DEF Accounted
  <2> HIDE DEF f, g, h, D
  <2>3. ms \in SUBSET D
    BY DEF D
  <2>4. SumFunctionOnSet(f, D) = SumFunctionOnSet(f, ms) + SumFunctionOnSet(f, D \ ms)
    BY <1>1, <2>1, <2>3, SumSplit
  <2>5. SumFunctionOnSet(g, ms) = SumFunctionOnSet(f, ms)
    BY <1>1, <2>1, SumSame
  <2>6. SumFunctionOnSet(h, D \ ms) = SumFunctionOnSet(f, D \ ms)
    BY <1>1, <2>1, SumSame
  <2>7. SumFunctionOnSet(g, ms) \in Nat /\ SumFunctionOnSet(h, D \ ms) \in Nat
    BY <1>1, <2>1, SumNat
  <2>8. b.bytes = a.bytes - SumFunctionOnSet(g, ms)
    BY <1>2 DEF g
  <2>9. b.bytes = SumFunctionOnSet(h, D \ ms)
    BY <1>1, <2>2, <2>4, <2>5, <2>6, <2>7, <2>8
  <2> QED BY <1>1, <1>2, <2>2, <2>7, <2>8, <2>9 DEF D, h
<1>6. /\ DOMAIN b.pending \subseteq Messages
      /\ \A m \in DOMAIN b.pending : MessageOK(b.pending[m], t) /\ Pieces(m, b.pending[m])
  BY <1>1, <1>2, <1>3 DEF Accounted
<1> HIDE DEF b
<1>7. Accounted(b, t)
  BY <1>4, <1>5, <1>6 DEF Accounted
<1> QED BY <1>7 DEF b

\* Opening a message within its peer's limit counts it, and no bytes.
LEMMA OpenKeeps ==
    ASSUME NEW a, clock \in Nat, Accounted(a, clock), NEW p \in Parts, Parse(p), p.total > 1,
           p.mid \in DOMAIN a.pending \/ a.perPeer[PeerOf[p.mid]] < MaxPendingPerPeer
    PROVE  Accounted(Opened(a, p), clock) /\ p.mid \in DOMAIN Opened(a, p).pending
<1>1. CASE p.mid \in DOMAIN a.pending
  BY <1>1 DEF Opened
<1>2. CASE p.mid \notin DOMAIN a.pending
  <2> DEFINE D == DOMAIN a.pending
             m == p.mid
             q == PeerOf[m]
             b == Opened(a, p)
             msg == [parts |-> <<>>, total |-> p.total, bytes |-> 0, exp |-> p.exp,
                     firstSeen |-> clock]
             f == BytesOf(a)
             g == BytesOf(b)
  <2>0. /\ m \in Messages /\ q \in Senders /\ p.total \in 2..MaxParts /\ p.exp \in Int
        /\ Clean(m) => LenOf[m] > 0 /\ p.total = Total(m)
        /\ MaxMessageBytes \in Nat
    <3>1. MaxParts \in Nat /\ MaxMessageBytes \in Nat
      BY AssemblerAssumption
    <3>2. p.total \in 1..MaxParts /\ p.total > 1
      BY PartSays
    <3>3. p.total \in 2..MaxParts
      BY <3>1, <3>2
    <3> QED BY <3>1, <3>3, PartSays
  <2>1. /\ D \subseteq Messages /\ IsFiniteSet(D) /\ m \notin D
        /\ a.perPeer \in [Senders -> Nat] /\ a.bytes \in Nat /\ MaxPendingPerPeer \in Nat
        /\ \A l \in D : a.pending[l].bytes \in Nat
    BY <1>2, AssemblerAssumption, FS_Subset DEF Accounted, MessageOK
  <2>2. b = [pending |-> Put(a.pending, m, msg),
             perPeer |-> [a.perPeer EXCEPT ![q] = @ + 1], bytes |-> a.bytes]
    BY <1>2 DEF Opened
  <2>3. /\ DOMAIN b.pending = D \cup {m} /\ b.pending[m] = msg
        /\ \A l \in D : b.pending[l] = a.pending[l]
        /\ b.perPeer = [a.perPeer EXCEPT ![q] = @ + 1] /\ b.bytes = a.bytes
    <3> HIDE DEF msg
    <3> QED BY <2>1, <2>2 DEF Put
  <2>4. MessageOK(msg, clock) /\ Pieces(m, msg)
    <3>1. DOMAIN msg.parts = {}
      OBVIOUS
    <3>2. Held(msg) = 0
      BY <3>1, SumEmpty DEF Held
    <3> QED BY <2>0, <3>1, <3>2 DEF MessageOK, Pieces
  <2>5. \A l \in DOMAIN b.pending : MessageOK(b.pending[l], clock) /\ Pieces(l, b.pending[l])
    <3> HIDE DEF msg, b
    <3> QED BY <2>3, <2>4 DEF Accounted
  <2>6. /\ b.perPeer \in [Senders -> Nat]
        /\ \A r \in Senders : /\ b.perPeer[r] = Cardinality(OfPeer(b, r))
                            /\ b.perPeer[r] <= MaxPendingPerPeer
    <3>1. ASSUME NEW r \in Senders
          PROVE  /\ b.perPeer[r] = Cardinality(OfPeer(b, r))
                 /\ b.perPeer[r] \in Nat /\ b.perPeer[r] <= MaxPendingPerPeer
      <4>1. /\ IsFiniteSet(OfPeer(a, r)) /\ m \notin OfPeer(a, r)
            /\ Cardinality(OfPeer(a, r)) = a.perPeer[r] /\ a.perPeer[r] \in Nat
            /\ a.perPeer[r] <= MaxPendingPerPeer
        BY <2>1, FS_Subset DEF OfPeer, Accounted
      <4> HIDE DEF b, q
      <4>2. CASE r = q
        <5>1. OfPeer(b, r) = OfPeer(a, r) \cup {m}
          BY <2>3, <4>2 DEF OfPeer, q
        <5>2. Cardinality(OfPeer(a, r) \cup {m}) = Cardinality(OfPeer(a, r)) + 1
          BY <4>1, FS_AddElement
        <5>3. b.perPeer[r] = a.perPeer[r] + 1 /\ a.perPeer[r] < MaxPendingPerPeer
          BY <1>2, <2>1, <2>3, <4>2 DEF q
        <5> QED BY <2>1, <4>1, <5>1, <5>2, <5>3
      <4>3. CASE r # q
        <5>1. OfPeer(b, r) = OfPeer(a, r)
          BY <2>3, <4>3 DEF OfPeer, q
        <5>2. b.perPeer[r] = a.perPeer[r]
          BY <2>1, <2>3, <4>3
        <5> QED BY <4>1, <5>1, <5>2
      <4> QED BY <4>2, <4>3
    <3>2. b.perPeer \in [Senders -> Nat]
      <4> HIDE DEF b
      <4>1. DOMAIN b.perPeer = Senders /\ b.perPeer = [r \in Senders |-> b.perPeer[r]]
        BY <2>1, <2>3
      <4> QED BY <3>1, <4>1
    <3> QED BY <3>1, <3>2
  <2>7. SumFunctionOnSet(g, D \cup {m}) = a.bytes
    <3>1. /\ \A l \in D : f[l] = g[l] /\ f[l] \in Int /\ g[l] \in Int
          /\ g[m] = 0
      <4> HIDE DEF b
      <4> QED BY <2>1, <2>3 DEF BytesOf
    <3>2. SumFunctionOnSet(f, D) = a.bytes
      BY DEF Accounted
    <3> HIDE DEF D, f, g, m
    <3>3. SumFunctionOnSet(g, D \cup {m}) = SumFunctionOnSet(g, D) + g[m]
      <4>1. \A l \in D \cup {m} : g[l] \in Int
        BY <3>1
      <4> QED BY <2>1, <4>1, SumAdd
    <3>4. SumFunctionOnSet(f, D) = SumFunctionOnSet(g, D)
      BY <2>1, <3>1, SumSame
    <3> QED BY <2>1, <3>1, <3>2, <3>3, <3>4
  <2>8. a.bytes <= MaxTotalBytes
    BY DEF Accounted
  <2> HIDE DEF b, msg, q
  <2>9. DOMAIN b.pending \subseteq Messages
    BY <2>0, <2>1, <2>3
  <2>10. b.bytes = SumFunctionOnSet(BytesOf(b), DOMAIN b.pending)
    BY <2>3, <2>7
  <2>11. Accounted(b, clock)
    BY <2>1, <2>3, <2>5, <2>6, <2>8, <2>9, <2>10 DEF Accounted
  <2> QED BY <2>3, <2>11 DEF b
<1> QED BY <1>1, <1>2

\* Storing a new chunk within the bounds counts its bytes, in its message and
\* in all.
LEMMA StoreKeeps ==
    ASSUME NEW a, NEW t, Accounted(a, t), NEW p \in Parts, Parse(p), p.mid \in DOMAIN a.pending,
           p.total = a.pending[p.mid].total, p.seq \notin DOMAIN a.pending[p.mid].parts,
           ~TooLarge(a, p)
    PROVE  /\ Accounted(Stored(a, p), t)
           /\ DOMAIN Stored(a, p).pending = DOMAIN a.pending
           /\ DOMAIN Stored(a, p).pending[p.mid].parts
                  = DOMAIN a.pending[p.mid].parts \cup {p.seq}
           /\ Stored(a, p).pending[p.mid].total = p.total
<1> DEFINE D == DOMAIN a.pending
           m == p.mid
           old == a.pending[m]
           new == WithChunk(old, p.seq, p)
           b == Stored(a, p)
           k == Len(p.chunk)
<1>1. /\ b = [pending |-> Put(a.pending, m, new), perPeer |-> a.perPeer, bytes |-> a.bytes + k]
  BY DEF Stored, Store
<1>2. /\ DOMAIN b.pending = D /\ b.pending[m] = new
      /\ \A l \in D \ {m} : b.pending[l] = a.pending[l]
      /\ b.perPeer = a.perPeer /\ b.bytes = a.bytes + k
  <2> HIDE DEF new
  <2> QED BY <1>1 DEF Put
<1>3. /\ D \subseteq Messages /\ IsFiniteSet(D) /\ m \in D
      /\ a.bytes \in Nat /\ MaxTotalBytes \in Nat /\ MaxMessageBytes \in Nat
      /\ MessageOK(old, t) /\ Pieces(m, old)
      /\ \A l \in D : a.pending[l].bytes \in Nat
  BY AssemblerAssumption, FS_Subset DEF Accounted, MessageOK
<1>4. /\ p.total \in 1..MaxParts /\ p.seq \in 1..p.total
      /\ p.chunk \in Seq(Bytes) /\ k \in Nat
      /\ Clean(m) => p.chunk = Piece(m, p.seq)
  BY PartSays
<1>5. old.bytes + k <= MaxMessageBytes /\ a.bytes + k <= MaxTotalBytes
  <2>1. old.bytes \in Nat
    BY <1>3 DEF MessageOK
  <2> HIDE DEF k
  <2> QED BY <1>3, <1>4, <2>1 DEF TooLarge, k
<1>6. /\ new.parts = Put(old.parts, p.seq, p.chunk) /\ new.total = old.total
      /\ new.bytes = old.bytes + k /\ new.exp = old.exp /\ new.firstSeen = old.firstSeen
  BY DEF WithChunk
<1>7. /\ DOMAIN new.parts = DOMAIN old.parts \cup {p.seq} /\ new.parts[p.seq] = p.chunk
      /\ \A i \in DOMAIN old.parts : new.parts[i] = old.parts[i]
  <2> HIDE DEF new, old
  <2> QED BY <1>6 DEF Put, old
<1> HIDE DEF new, old, b
<1>8. Held(new) = Held(old) + k
  <2> DEFINE E == DOMAIN old.parts
             f == [i \in DOMAIN old.parts |-> Len(old.parts[i])]
             g == [i \in DOMAIN new.parts |-> Len(new.parts[i])]
  <2>1. IsFiniteSet(E) /\ p.seq \notin E
    <3>1. old.total \in Nat
      BY <1>3, AssemblerAssumption DEF MessageOK
    <3> QED BY <1>3, <3>1, HeldType DEF MessageOK, old
  <2>2. /\ \A i \in E : f[i] = g[i] /\ f[i] \in Nat
        /\ g[p.seq] = k
    BY <1>3, <1>7 DEF MessageOK
  <2>3. Held(old) = SumFunctionOnSet(f, E) /\ Held(new) = SumFunctionOnSet(g, E \cup {p.seq})
    BY <1>7 DEF Held
  <2> HIDE DEF E, f, g
  <2>4. SumFunctionOnSet(f, E) = SumFunctionOnSet(g, E)
    BY <2>1, <2>2, SumSame
  <2>5. SumFunctionOnSet(g, E \cup {p.seq}) = SumFunctionOnSet(g, E) + g[p.seq]
    <3>1. \A i \in E \cup {p.seq} : g[i] \in Int
      BY <1>4, <2>2
    <3> QED BY <2>1, <3>1, SumAdd
  <2> QED BY <2>2, <2>3, <2>4, <2>5
<1>9. MessageOK(new, t)
  <2>1. DOMAIN new.parts \subseteq 1..new.total
    BY <1>3, <1>4, <1>6, <1>7 DEF MessageOK, old
  <2>2. \A i \in DOMAIN new.parts : new.parts[i] \in Seq(Bytes)
    BY <1>3, <1>4, <1>7 DEF MessageOK
  <2>3. new.bytes \in Nat /\ new.bytes = Held(new) /\ new.bytes <= MaxMessageBytes
    BY <1>3, <1>4, <1>5, <1>6, <1>8 DEF MessageOK
  <2> QED BY <1>3, <1>6, <2>1, <2>2, <2>3 DEF MessageOK
<1>10. Pieces(m, new)
  BY <1>3, <1>4, <1>6, <1>7 DEF Pieces
<1>11. \A l \in DOMAIN b.pending : MessageOK(b.pending[l], t) /\ Pieces(l, b.pending[l])
  BY <1>2, <1>9, <1>10 DEF Accounted
<1>12. b.bytes = SumFunctionOnSet(BytesOf(b), DOMAIN b.pending)
  <2> DEFINE f == BytesOf(a)
             g == BytesOf(b)
  <2>1. /\ \A l \in D : f[l] \in Int /\ g[l] \in Int
        /\ \A l \in D \ {m} : f[l] = g[l]
        /\ g[m] = f[m] + k
    BY <1>2, <1>3, <1>4, <1>6 DEF BytesOf, old
  <2>2. a.bytes = SumFunctionOnSet(f, D)
    BY DEF Accounted
  <2> HIDE DEF f, g, D
  <2>3. SumFunctionOnSet(g, D) = SumFunctionOnSet(f, D) - f[m] + g[m]
    BY <1>3, <2>1, SumChange
  <2>4. SumFunctionOnSet(g, D) = a.bytes + k
    BY <1>3, <1>4, <2>1, <2>2, <2>3
  <2> QED BY <1>2, <2>4 DEF g
<1>13. \A r \in Senders : OfPeer(b, r) = OfPeer(a, r)
  BY <1>2 DEF OfPeer
<1>14. Accounted(b, t)
  <2>1. b.bytes \in Nat /\ b.bytes <= MaxTotalBytes
    BY <1>2, <1>3, <1>4, <1>5
  <2> QED BY <1>2, <1>3, <1>11, <1>12, <1>13, <2>1 DEF Accounted
<1> QED BY <1>2, <1>6, <1>7, <1>14 DEF b, old

\* A message that holds as many chunks as it has parts holds them all.
LEMMA AllParts ==
    ASSUME NEW msg, NEW t, MessageOK(msg, t), Cardinality(DOMAIN msg.parts) >= msg.total
    PROVE  DOMAIN msg.parts = 1..msg.total
<1> DEFINE D == DOMAIN msg.parts
           n == msg.total
<1>1. n \in Nat /\ D \in SUBSET (1..n)
  BY AssemblerAssumption DEF MessageOK
<1>2. IsFiniteSet(1..n) /\ Cardinality(1..n) = n
  BY <1>1, FS_Interval
<1> HIDE DEF n, D
<1>3. Cardinality(D) <= n /\ Cardinality(D) \in Nat
  BY <1>1, <1>2, FS_Subset, FS_CardinalityType
<1>4. Cardinality(D) = Cardinality(1..n)
  BY <1>1, <1>2, <1>3 DEF D, n
<1>5. D = 1..n
  BY <1>1, <1>2, <1>4, FS_Subset
<1> QED BY <1>5 DEF D, n

\* What is joined of a message that only Encode made is its payload.
LEMMA CompleteIsIntact ==
    ASSUME NEW m \in Messages, Clean(m), NEW msg, NEW t, MessageOK(msg, t), Pieces(m, msg),
           Cardinality(DOMAIN msg.parts) >= msg.total
    PROVE  Join(msg) = Payload(m)
<1>1. DOMAIN msg.parts = 1..msg.total
  BY AllParts
<1>2. LenOf[m] > 0 /\ msg.total = Total(m) /\ \A i \in 1..Total(m) : msg.parts[i] = Piece(m, i)
  BY <1>1 DEF Pieces
<1>3. [i \in 1..msg.total |-> msg.parts[i]] = [i \in 1..Total(m) |-> Piece(m, i)]
  BY <1>2
<1>4. FlattenSeq([i \in 1..Total(m) |-> Piece(m, i)]) = Payload(m)
  BY <1>2, JoinIsPayload
<1> QED BY <1>3, <1>4 DEF Join

-----------------------------------------------------------------------------
(* The steps.                                                              *)

\* What Add of a part of several comes to.
ChunkAdded(p) ==
    /\ clock' = clock /\ Accounted(asm', clock)
    /\ out'.st \in {"partial", "error", "full"}
    /\ out'.st = "full" =>
          /\ out'.mid = p.mid
          /\ Clean(p.mid) => out'.payload = Payload(p.mid)
          /\ p.mid \in Pending => ~Stale(asm.pending[p.mid])

LEMMA AddChunkKeeps ==
    ASSUME clock \in Nat, Accounted(asm, clock), NEW p \in Parts, Parse(p), AddChunk(p)
    PROVE  ChunkAdded(p)
<1> DEFINE m == p.mid
           stale == {l \in DOMAIN asm.pending : Stale(asm.pending[l])}
           a == gcLocked(asm)
           b == Opened(a, p)
           c == Stored(b, p)
           overflow == /\ m \notin DOMAIN a.pending
                       /\ a.perPeer[PeerOf[m]] >= MaxPendingPerPeer
           agrees   == p.total = b.pending[m].total
           dup      == p.seq \in DOMAIN b.pending[m].parts
           complete == Cardinality(DOMAIN c.pending[m].parts) >= p.total
<1>1. /\ p.total > 1
      /\ \/ overflow /\ Return(a, Err(m))
         \/ ~overflow /\ ~agrees /\ Return(dropLocked(b, {m}), Err(m))
         \/ ~overflow /\ agrees /\ dup /\ Return(b, Nil(m))
         \/ ~overflow /\ agrees /\ ~dup /\ TooLarge(b, p) /\ Return(dropLocked(b, {m}), Err(m))
         \/ /\ ~overflow /\ agrees /\ ~dup /\ ~TooLarge(b, p)
            /\ IF complete
               THEN Return(dropLocked(c, {m}), Result("full", m, Join(c.pending[m])))
               ELSE Return(c, Nil(m))
  BY DEF AddChunk
<1>2. m \in Messages /\ PeerOf[m] \in Senders /\ MaxPendingPerPeer \in Nat
  BY PartSays, AssemblerAssumption
<1>3. Accounted(a, clock) /\ DOMAIN a.pending = DOMAIN asm.pending \ stale
  <2>1. stale \in SUBSET DOMAIN asm.pending
    OBVIOUS
  <2>2. a = dropLocked(asm, stale)
    BY DEF gcLocked
  <2> HIDE DEF stale, a
  <2>3. Accounted(dropLocked(asm, stale), clock)
    BY <2>1, DropKeeps
  <2> QED BY <2>2, <2>3 DEF dropLocked
<1> HIDE DEF a
<1>4. ASSUME ~overflow PROVE Accounted(b, clock) /\ m \in DOMAIN b.pending
  <2>1. a.perPeer[PeerOf[m]] \in Nat
    BY <1>2, <1>3 DEF Accounted
  <2>2. m \in DOMAIN a.pending \/ a.perPeer[PeerOf[m]] < MaxPendingPerPeer
    BY <1>2, <1>4, <2>1
  <2> QED BY <1>1, <1>3, <2>2, OpenKeeps
<1>5. /\ \A r : Err(m) = r => r.st = "error"
      /\ \A r : Nil(m) = r => r.st = "partial"
  BY DEF Err, Nil, Result
<1>6. ASSUME NEW x, NEW r, Return(x, r), Accounted(x, clock), r.st \in {"partial", "error"}
      PROVE  ChunkAdded(p)
  BY <1>6 DEF ChunkAdded, Return
<1>7. CASE overflow /\ Return(a, Err(m))
  BY <1>3, <1>5, <1>6, <1>7
<1>8. ASSUME ~overflow PROVE Accounted(dropLocked(b, {m}), clock)
  <2>1. Accounted(b, clock) /\ {m} \in SUBSET DOMAIN b.pending
    BY <1>4, <1>8
  <2> HIDE DEF b
  <2> QED BY <2>1, DropKeeps
<1>9. CASE ~overflow /\ (Return(dropLocked(b, {m}), Err(m)) \/ Return(b, Nil(m)))
  BY <1>4, <1>5, <1>6, <1>8, <1>9
<1>10. CASE /\ ~overflow /\ agrees /\ ~dup /\ ~TooLarge(b, p)
            /\ IF complete
               THEN Return(dropLocked(c, {m}), Result("full", m, Join(c.pending[m])))
               ELSE Return(c, Nil(m))
  <2>1. Accounted(b, clock) /\ m \in DOMAIN b.pending
    BY <1>4, <1>10
  <2>2. /\ Accounted(c, clock) /\ m \in DOMAIN c.pending
        /\ DOMAIN c.pending[m].parts = DOMAIN b.pending[m].parts \cup {p.seq}
        /\ c.pending[m].total = p.total
    <3>1. agrees /\ ~dup /\ ~TooLarge(b, p)
      BY <1>10
    <3> HIDE DEF b
    <3> QED BY <2>1, <3>1, StoreKeeps
  <2>3. CASE ~complete
    BY <1>5, <1>6, <1>10, <2>2, <2>3
  <2>4. CASE complete
    <3>1. Return(dropLocked(c, {m}), Result("full", m, Join(c.pending[m])))
      BY <1>10, <2>4
    <3>2. Accounted(dropLocked(c, {m}), clock)
      <4>1. {m} \in SUBSET DOMAIN c.pending
        BY <2>2
      <4> HIDE DEF c
      <4> QED BY <2>2, <4>1, DropKeeps
    <3>3. MessageOK(c.pending[m], clock) /\ Pieces(m, c.pending[m])
      BY <2>2 DEF Accounted
    <3>4. Clean(m) => Join(c.pending[m]) = Payload(m)
      <4>1. Cardinality(DOMAIN c.pending[m].parts) >= c.pending[m].total
        BY <2>2, <2>4
      <4> HIDE DEF c
      <4> QED BY <1>2, <3>3, <4>1, CompleteIsIntact
    <3>5. m \in Pending => ~Stale(asm.pending[m])
      <4> SUFFICES ASSUME m \in Pending, Stale(asm.pending[m]) PROVE FALSE
        OBVIOUS
      <4>1. m \notin DOMAIN a.pending
        BY <1>3 DEF Pending
      <4>2. DOMAIN b.pending[m].parts = {}
        BY <4>1 DEF Opened, Put
      <4>3. Cardinality(DOMAIN c.pending[m].parts) = 1
        <5>1. DOMAIN c.pending[m].parts = {p.seq}
          BY <2>2, <4>2
        <5> QED BY <5>1, FS_Singleton
      <4>4. p.total \in Int
        BY PartSays
      <4> QED BY <1>1, <2>4, <4>3, <4>4
    <3>6. /\ out' = Result("full", m, Join(c.pending[m]))
          /\ clock' = clock /\ asm' = dropLocked(c, {m})
      BY <3>1 DEF Return
    <3> HIDE DEF b, c
    <3> QED BY <3>2, <3>4, <3>5, <3>6 DEF ChunkAdded, Result
  <2> QED BY <2>3, <2>4
<1> HIDE DEF overflow, agrees, dup, complete, b, c
<1> QED BY <1>1, <1>7, <1>9, <1>10

\* A message of one part is its part.
LEMMA WholeIsIntact ==
    ASSUME NEW p \in Parts, Parse(p), p.total = 1, Clean(p.mid)
    PROVE  p.chunk = Payload(p.mid)
<1> DEFINE m == p.mid
           P == Payload(m)
<1>1. /\ m \in Messages /\ LenOf[m] > 0 /\ Total(m) = 1 /\ p.seq = 1
      /\ p.chunk = Piece(m, 1)
  BY PartSays
<1>2. ChunkEnd(m, 1) = LenOf[m] /\ (1 - 1) * ChunkSize + 1 = 1
  BY <1>1, PieceBounds, AssemblerAssumption
<1>3. p.chunk = SubSeq(P, 1, LenOf[m])
  BY <1>1, <1>2 DEF Piece
<1>4. P \in Seq(Bytes) /\ Len(P) = LenOf[m]
  BY <1>1, PayloadType
<1> HIDE DEF P
<1>5. SubSeq(P, 1, LenOf[m]) = P
  BY <1>4, SubSeqFull
<1> QED BY <1>3, <1>5 DEF P

LEMMA AssemblerInit == AsmInit => AssemblerInv
<1> SUFFICES ASSUME AsmInit PROVE AssemblerInv
  OBVIOUS
<1>1. asm = NewAssembler /\ clock = 0 /\ out = [st |-> "none"]
  BY DEF AsmInit, NoResult
<1>2. DOMAIN asm.pending = {} /\ asm.perPeer = [q \in Senders |-> 0] /\ asm.bytes = 0
  BY <1>1 DEF NewAssembler
<1>3. \A q \in Senders : Cardinality(OfPeer(asm, q)) = 0
  <2>1. \A q \in Senders : OfPeer(asm, q) = {}
    BY <1>2 DEF OfPeer
  <2> QED BY <2>1, FS_EmptySet
<1>4. SumFunctionOnSet(BytesOf(asm), DOMAIN asm.pending) = 0
  BY <1>2, SumEmpty
<1>5. Accounted(asm, clock)
  BY <1>2, <1>3, <1>4, AssemblerAssumption DEF Accounted
<1> QED BY <1>1, <1>5, AssemblerAssumption DEF AssemblerInv, ReturnedIntact

LEMMA AssemblerStep == AssemblerInv /\ [AsmNext]_asmVars => AssemblerInv'
<1> SUFFICES ASSUME AssemblerInv, [AsmNext]_asmVars PROVE AssemblerInv'
  OBVIOUS
<1>0. clock \in Nat /\ clock \in 0..MaxClock /\ MaxClock \in Nat /\ Accounted(asm, clock)
  BY AssemblerAssumption DEF AssemblerInv
<1>1. ASSUME NEW p \in Parts, Parse(p), AddExpired(p) PROVE AssemblerInv'
  <2>1. asm' = asm /\ clock' = clock /\ out'.st = "error"
    BY <1>1 DEF AddExpired, Return, Err, Result
  <2> QED BY <1>0, <2>1 DEF AssemblerInv, ReturnedIntact
<1>2. ASSUME NEW p \in Parts, Parse(p), AddWhole(p) PROVE AssemblerInv'
  <2>1. /\ asm' = asm /\ clock' = clock /\ p.total = 1
        /\ \/ out'.st = "error"
           \/ out'.st = "full" /\ out'.mid = p.mid /\ out'.payload = p.chunk
    BY <1>2 DEF AddWhole, Return, Err, Result
  <2>2. Clean(p.mid) => p.chunk = Payload(p.mid)
    BY <1>2, <2>1, WholeIsIntact
  <2>3. ReturnedIntact'
    BY <2>1, <2>2 DEF ReturnedIntact, Clean, Payload
  <2> QED BY <1>0, <2>1, <2>3 DEF AssemblerInv
<1>3. ASSUME NEW p \in Parts, Parse(p), AddChunk(p) PROVE AssemblerInv'
  <2>1. ChunkAdded(p)
    BY <1>0, <1>3, AddChunkKeeps
  <2>2. ReturnedIntact'
    BY <2>1 DEF ChunkAdded, ReturnedIntact, Clean, Payload
  <2> QED BY <1>0, <2>1, <2>2 DEF ChunkAdded, AssemblerInv
<1>4. CASE AsmTick
  <2>1. /\ asm' = asm /\ clock' = clock + 1 /\ clock' \in 0..MaxClock
        /\ out'.st = "none"
    BY <1>0, <1>4 DEF AsmTick, NoResult
  <2>2. \A msg : MessageOK(msg, clock) => MessageOK(msg, clock + 1)
    BY <1>0 DEF MessageOK
  <2>3. Accounted(asm, clock + 1)
    BY <1>0, <2>2 DEF Accounted
  <2> QED BY <2>1, <2>3 DEF AssemblerInv, ReturnedIntact
<1>5. CASE UNCHANGED asmVars
  BY <1>5 DEF asmVars, AssemblerInv, ReturnedIntact
<1> QED BY <1>1, <1>2, <1>3, <1>4, <1>5 DEF AsmNext, Add

-----------------------------------------------------------------------------
(* The theorems.                                                           *)

\* The inductive invariant holds: counters, buffers and chunks agree.
THEOREM AssemblerInvCorrect == AsmSpec => []AssemblerInv
<1> QED BY AssemblerInit, AssemblerStep, PTL DEF AsmSpec

\* Every value has its type, for any messages, chunk size and bounds, and any
\* parts made up besides: no counter is negative, and no pending message holds
\* a part outside its count (Parse, Add).
THEOREM AssemblerTypeCorrect == AsmSpec => []AssemblerTypeOK
<1>1. AssemblerInv => AssemblerTypeOK
  BY DEF AssemblerInv, Accounted, MessageOK, AssemblerTypeOK, Pending
<1> QED BY <1>1, AssemblerInvCorrect, PTL

\* The counters the bounds are enforced with are exact, and what is held stays
\* within the bounds (dropLocked, gcLocked, Add).
THEOREM BuffersAccountedCorrect == AsmSpec => []BuffersAccounted
<1>1. AssemblerInv => BuffersAccounted
  <2> SUFFICES ASSUME AssemblerInv PROVE BuffersAccounted
    OBVIOUS
  <2>1. Accounted(asm, clock) /\ IsFiniteSet(Pending)
    BY AssemblerAssumption, FS_Subset DEF AssemblerInv, Accounted, Pending
  <2>2. \A m \in Pending : /\ asm.pending[m].bytes = Held(asm.pending[m])
                           /\ asm.pending[m].bytes \in Nat
                           /\ asm.pending[m].bytes <= MaxMessageBytes
    BY <2>1 DEF Accounted, MessageOK, Pending
  <2>3. HeldInAll = SumFunctionOnSet(BytesOf(asm), Pending)
    <3> DEFINE f == BytesOf(asm)
               g == [m \in Pending |-> Held(asm.pending[m])]
    <3>1. \A m \in Pending : f[m] \in Int /\ f[m] = g[m]
      BY <2>2 DEF BytesOf, Pending
    <3> HIDE DEF f, g
    <3>2. SumFunctionOnSet(f, Pending) = SumFunctionOnSet(g, Pending)
      BY <2>1, <3>1, SumSame
    <3> QED BY <3>2 DEF HeldInAll, f, g
  <2>4. \A q \in Senders : PendingOf(q) = OfPeer(asm, q)
    BY DEF PendingOf, OfPeer, Pending
  <2> QED BY <2>1, <2>2, <2>3, <2>4
          DEF BuffersAccounted, CountersExact, WithinBounds, Accounted, Pending
<1> QED BY <1>1, AssemblerInvCorrect, PTL

\* What Add returns of a message that only Encode made is its payload, however
\* its parts were lost, repeated, reordered, dropped or collected.
THEOREM ReturnedIntactCorrect == AsmSpec => []ReturnedIntact
<1>1. AssemblerInv => ReturnedIntact
  BY DEF AssemblerInv
<1> QED BY <1>1, AssemblerInvCorrect, PTL

\* No message is completed that was due for collection (gcLocked in Add).
THEOREM FreshCompletionCorrect == AsmSpec => FreshCompletion
<1> DEFINE A == out'.st = "full" /\ out'.mid \in Pending /\ asm' # asm
                  => ~Stale(asm.pending[out'.mid])
<1>1. AssemblerInv /\ [AsmNext]_asmVars => [A]_asmVars
  <2> SUFFICES ASSUME AssemblerInv, AsmNext PROVE A
    OBVIOUS
  <2>1. clock \in Nat /\ Accounted(asm, clock)
    BY AssemblerAssumption DEF AssemblerInv
  <2>2. CASE AsmTick
    BY <2>2 DEF AsmTick
  <2>3. ASSUME NEW p \in Parts, Add(p) PROVE A
    <3>1. CASE AddExpired(p) \/ AddWhole(p)
      BY <3>1 DEF AddExpired, AddWhole, Return
    <3>2. CASE Parse(p) /\ AddChunk(p)
      BY <2>1, <3>2, AddChunkKeeps DEF ChunkAdded
    <3> QED BY <2>3, <3>1, <3>2 DEF Add
  <2> QED BY <2>2, <2>3 DEF AsmNext
<1> QED BY <1>1, AssemblerInvCorrect, PTL DEF AsmSpec, FreshCompletion
=============================================================================
