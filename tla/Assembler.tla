------------------------------ MODULE Assembler ------------------------------
(***************************************************************************)
(* Envelope framing and bounded reassembly (wire/wire.go).  Messages are   *)
(* cut into parts by Encode; the relay may lose, repeat and reorder parts; *)
(* the receiver's Assembler puts them together under hard bounds.          *)
(***************************************************************************)
EXTENDS Integers, Sequences, FiniteSets, SequencesExt

CONSTANTS
    Senders,            \* the peers
    Messages,           \* message ids (sid/mid); each is sent by one peer
    PeerOf,             \* its sender
    LenOf,              \* its payload's length
    ExpOf,              \* its deadline, 0 for none
    ChunkSize,          \* payload bytes per part
    MaxParts,           \* MaxParts
    Rogue,              \* parts that no Encode produced
    MaxPendingPerPeer, MaxMessageBytes, MaxTotalBytes, Timeout, \* AssemblerConfig
    MaxClock            \* bound: last value of the clock

Bytes == Messages \X Int

ASSUME AssemblerAssumption ==
    /\ IsFiniteSet(Messages)
    /\ PeerOf \in [Messages -> Senders]
    /\ LenOf \in [Messages -> Nat] /\ ExpOf \in [Messages -> Nat]
    /\ {ChunkSize, MaxParts, MaxPendingPerPeer} \subseteq Nat \ {0}
    /\ {MaxMessageBytes, MaxTotalBytes, Timeout, MaxClock} \subseteq Nat
    /\ \A p \in Rogue : /\ p.mid \in Messages /\ {p.seq, p.total, p.exp} \subseteq Int
                        /\ p.chunk \in Seq(Bytes)

VARIABLES
    asm,    \* the Assembler: pending, perPeer, bytes
    clock,
    out     \* what the last Add returned, and for which message

asmVars == <<asm, clock, out>>

-----------------------------------------------------------------------------
(* Encode and Parse.                                                       *)

\* The bytes of a message, told apart by their position.
Payload(m) == [i \in 1..LenOf[m] |-> <<m, i>>]

\* Encode: no parts for an empty payload or one of too many chunks.
Total(m) == (LenOf[m] + ChunkSize - 1) \div ChunkSize

ChunkEnd(m, i) == IF i * ChunkSize > LenOf[m] THEN LenOf[m] ELSE i * ChunkSize

Encode(m) ==
    IF LenOf[m] = 0 \/ Total(m) > MaxParts THEN {}
    ELSE {[mid   |-> m, seq |-> i, total |-> Total(m), exp |-> ExpOf[m],
           chunk |-> SubSeq(Payload(m), (i - 1) * ChunkSize + 1, ChunkEnd(m, i))] :
             i \in 1..Total(m)}

\* Mutant: a sequence number beyond the part count is accepted.
ParseAnySeq(p) == p.seq >= 1 /\ p.total >= 1 /\ p.total <= MaxParts /\ p.chunk # <<>>

\* Parse ignores everything that is not a well-formed part.
Parse(p) ==
    /\ p.seq >= 1 /\ p.total >= 1
    /\ p.seq <= p.total /\ p.total <= MaxParts
    /\ p.chunk # <<>>

Parts == (UNION {Encode(m) : m \in Messages}) \cup Rogue

-----------------------------------------------------------------------------
(* The Assembler as operators on its state a.                              *)

\* The map f after f[x] = y.
Put(f, x, y) == [z \in DOMAIN f \cup {x} |-> IF z = x THEN y ELSE f[z]]

\* pending is a map of messages; a missing counter of perPeer reads as 0.
NewAssembler == [pending |-> <<>>, perPeer |-> [p \in Senders |-> 0], bytes |-> 0]

\* Mutant: the bytes of a dropped message stay counted.
dropKeepingBytes(a, ms) ==
    [pending |-> [m \in DOMAIN a.pending \ ms |-> a.pending[m]],
     perPeer |-> [p \in Senders |-> a.perPeer[p] - Cardinality({m \in ms : PeerOf[m] = p})],
     bytes   |-> a.bytes]

\* dropLocked of each of the messages ms, in any order: a counter at or below
\* what is taken from it ends at 0 (it is deleted from its map).
dropLocked(a, ms) ==
    [pending |-> [m \in DOMAIN a.pending \ ms |-> a.pending[m]],
     perPeer |-> [p \in Senders |->
                     LET n == Cardinality({m \in ms : PeerOf[m] = p})
                     IN  IF a.perPeer[p] <= n THEN 0 ELSE a.perPeer[p] - n],
     bytes   |-> a.bytes - SumFunctionOnSet([m \in ms |-> a.pending[m].bytes], ms)]

Expired(exp) == exp > 0 /\ clock > exp

Stale(msg) == Expired(msg.exp) \/ clock - msg.firstSeen > Timeout

\* Mutant: messages that stopped arriving are not collected.
gcExpiredOnly(a) == dropLocked(a, {m \in DOMAIN a.pending : Expired(a.pending[m].exp)})

\* gcLocked: every stale message is dropped.
gcLocked(a) == dropLocked(a, {m \in DOMAIN a.pending : Stale(a.pending[m])})

\* The message a first part opens.
Opened(a, p) ==
    IF p.mid \in DOMAIN a.pending THEN a
    ELSE [pending |-> Put(a.pending, p.mid, [parts |-> <<>>, total |-> p.total, bytes |-> 0,
                                             exp |-> p.exp, firstSeen |-> clock]),
          perPeer |-> [a.perPeer EXCEPT ![PeerOf[p.mid]] = @ + 1],
          bytes   |-> a.bytes]

\* msg with the chunk of p under the number i; parts maps numbers to chunks.
WithChunk(msg, i, p) ==
    [parts |-> Put(msg.parts, i, p.chunk), total |-> msg.total,
     bytes |-> msg.bytes + Len(p.chunk), exp |-> msg.exp, firstSeen |-> msg.firstSeen]

Store(a, i, p) ==
    [pending |-> Put(a.pending, p.mid, WithChunk(a.pending[p.mid], i, p)),
     perPeer |-> a.perPeer,
     bytes   |-> a.bytes + Len(p.chunk)]

\* Mutant: chunks are kept in the order they arrive.
StoredInArrivalOrder(a, p) == Store(a, Cardinality(DOMAIN a.pending[p.mid].parts) + 1, p)

\* The message with one more chunk.
Stored(a, p) == Store(a, p.seq, p)

\* Mutant: the bounds are compared without the new chunk.
TooLargeAlready(a, p) ==
    \/ a.pending[p.mid].bytes > MaxMessageBytes
    \/ a.bytes > MaxTotalBytes

TooLarge(a, p) ==
    \/ a.pending[p.mid].bytes + Len(p.chunk) > MaxMessageBytes
    \/ a.bytes + Len(p.chunk) > MaxTotalBytes

\* The chunks in seq order.
Join(msg) == FlattenSeq([i \in 1..msg.total |-> msg.parts[i]])

Result(st, m, payload) == [st |-> st, mid |-> m, payload |-> payload]
NoResult == [st |-> "none"]
Nil(m) == Result("partial", m, <<>>)
Err(m) == Result("error", m, <<>>)

-----------------------------------------------------------------------------
AsmInit == asm = NewAssembler /\ clock = 0 /\ out = NoResult

Return(a, r) == asm' = a /\ out' = r /\ UNCHANGED clock

\* Add of a part past its deadline: refused before any state is looked at.
AddExpired(p) == Expired(p.exp) /\ Return(asm, Err(p.mid))

\* Add of a single-part message: no state either.
AddWhole(p) ==
    /\ ~Expired(p.exp) /\ p.total = 1
    /\ Return(asm, IF Len(p.chunk) > MaxMessageBytes THEN Err(p.mid)
                   ELSE Result("full", p.mid, p.chunk))

\* Add of one chunk of several: collect garbage, find or open the message,
\* and refuse, ignore, store or complete it.
AddChunk(p) ==
    LET m == p.mid
        a == gcLocked(asm)
        b == Opened(a, p)
        c == Stored(b, p)
        overflow == /\ m \notin DOMAIN a.pending
                    /\ a.perPeer[PeerOf[m]] >= MaxPendingPerPeer
        agrees   == p.total = b.pending[m].total
        dup      == p.seq \in DOMAIN b.pending[m].parts
        complete == Cardinality(DOMAIN c.pending[m].parts) >= p.total
    IN  /\ ~Expired(p.exp) /\ p.total > 1
        /\ \/ overflow /\ Return(a, Err(m))
           \/ ~overflow /\ ~agrees /\ Return(dropLocked(b, {m}), Err(m))
           \/ ~overflow /\ agrees /\ dup /\ Return(b, Nil(m))
           \/ /\ ~overflow /\ agrees /\ ~dup
              /\ TooLarge(b, p)
              /\ Return(dropLocked(b, {m}), Err(m))
           \/ /\ ~overflow /\ agrees /\ ~dup
              /\ ~TooLarge(b, p)
              /\ IF complete
                 THEN Return(dropLocked(c, {m}), Result("full", m, Join(c.pending[m])))
                 ELSE Return(c, Nil(m))

\* The relay may deliver any part at any time, and again.
Add(p) == Parse(p) /\ (AddExpired(p) \/ AddWhole(p) \/ AddChunk(p))

AsmTick == clock < MaxClock /\ clock' = clock + 1 /\ out' = NoResult /\ UNCHANGED asm

AsmNext == (\E p \in Parts : Add(p)) \/ AsmTick

AsmSpec == AsmInit /\ [][AsmNext]_asmVars

-----------------------------------------------------------------------------
(* Properties.                                                             *)

Held(msg) == SumFunctionOnSet([i \in DOMAIN msg.parts |-> Len(msg.parts[i])], DOMAIN msg.parts)

Pending   == DOMAIN asm.pending
HeldInAll == SumFunctionOnSet([m \in Pending |-> Held(asm.pending[m])], Pending)
PendingOf(p) == {m \in Pending : PeerOf[m] = p}

\* Every value has its type: no counter is negative, no pending message holds
\* a part outside its count (Parse, Add).
AssemblerTypeOK ==
    /\ asm.perPeer \in [Senders -> Nat]
    /\ asm.bytes \in Nat
    /\ \A m \in Pending :
          LET msg == asm.pending[m]
          IN  /\ msg.total \in 2..MaxParts
              /\ DOMAIN msg.parts \subseteq 1..msg.total
              /\ msg.firstSeen \in 0..clock
    /\ clock \in 0..MaxClock
    /\ out.st \in {"none", "partial", "error", "full"}

CountersExact ==
    /\ \A p \in Senders : asm.perPeer[p] = Cardinality(PendingOf(p))
    /\ \A m \in Pending : asm.pending[m].bytes = Held(asm.pending[m])
    /\ asm.bytes = HeldInAll

WithinBounds ==
    /\ HeldInAll <= MaxTotalBytes
    /\ \A m \in Pending : Held(asm.pending[m]) <= MaxMessageBytes
    /\ \A p \in Senders : Cardinality(PendingOf(p)) <= MaxPendingPerPeer

\* The counters the bounds are enforced with tell the truth after every
\* mixture of completions, drops, collections and duplicates - a drift would
\* block a peer for good or let the buffers grow - and the bytes and messages
\* really held never exceed the configured bounds.
BuffersAccounted == CountersExact /\ WithinBounds

\* What Add returns of a message whose parts all come from one Encode is the
\* payload, whatever was lost, repeated, reordered, dropped or collected.
ReturnedIntact ==
    out.st = "full" /\ (\A p \in Rogue : p.mid # out.mid)
        => out.payload = Payload(out.mid)

\* A message is never completed from chunks that should have been evicted:
\* a part older than the timeout or the deadline never reaches the session.
FreshCompletion ==
    [][out'.st = "full" /\ out'.mid \in Pending /\ asm' # asm
          => ~Stale(asm.pending[out'.mid])]_asmVars
=============================================================================
