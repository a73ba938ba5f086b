-------------------------- MODULE BridgeSpendProofs --------------------------
(***************************************************************************)
(* The bridge's payments, proved for any number of calls, tips from the    *)
(* chat, failing writes and restarts, any caps, window and length of the   *)
(* log: the log covers the money, pruning takes nothing that still counts, *)
(* and the daily cap is passed only where settle races.                    *)
(***************************************************************************)
EXTENDS BridgeSpend, SumTheorems, SequenceTheorems

-----------------------------------------------------------------------------
(* The inductive invariant.                                                *)

Statuses == {"pending", "paid", "failed", "refused"}

Entries == [bot : {BotOf[p] : p \in Calls \cup Others}, atoms : Int, ts : Nat,
            status : Statuses, seq : Nat]

CallStates ==
    [pc : {"new", "refuse", "parked", "launch", "expect", "tip", "wait",
           "failed", "paid", "forward", "done"},
     seq : Nat, spent : Int, decision : {"none", "approve", "deny"},
     result : {"none", "paid", "failed"}]

\* Of a log s with its first d entries gone, at time t: no entry is from the
\* future, only refusals may have no amount, and pruning took nothing that counts.
SoundLog(s, d, t) ==
    /\ s \in Seq(Entries) /\ d \in 0..Len(s)
    /\ \A i \in 1..Len(s) : /\ s[i].ts <= t
                            /\ s[i].status # "refused" => s[i].atoms > 0
    /\ \A i \in 1..d : /\ ~(s[i].ts >= t - Window /\ countsTowardCap(s[i].status))
                       /\ s[i].status # "pending"

\* Two logs say the same but for sequence numbers.
SameLog(s, t) ==
    /\ Len(s) = Len(t)
    /\ \A i \in 1..Len(s) : /\ s[i].bot = t[i].bot /\ s[i].atoms = t[i].atoms
                            /\ s[i].ts = t[i].ts /\ s[i].status = t[i].status

\* Memory and file hold a sound log, each its own once a write has failed.
LogInv ==
    /\ now \in Nat /\ diskFaults \in Nat /\ spendSeq \in Nat
    /\ SoundLog(spend, dropped, now)
    /\ spendFile \in [log : Seq(Entries), dropped : Nat]
    /\ SoundLog(spendFile.log, spendFile.dropped, now)
    /\ \A i \in 1..Len(spend) : spend[i].seq <= spendSeq

Unpaid == {"new", "refuse", "parked", "launch", "expect", "tip"}
Paying == {"expect", "tip", "wait", "failed", "paid", "forward"}

\* In the log s, sequence number q leads to call c's own spend.
Owns(c, q, s) ==
    \A i \in 1..Len(s) : s[i].seq = q /\ q # 0 =>
       s[i].bot = BotOf[c] /\ s[i].atoms = Atoms(c) /\ s[i].status # "refused"

\* What a call in state b knows: nothing moved before its tip starts, nobody
\* waits before Expect, an outcome is forwarded only when there is one, and its
\* sequence number, issued already, leads to its own entry.
Knows(c, b, r, q, s) ==
    /\ b.pc \in Unpaid => r = "none"
    /\ b.pc \in {"refuse", "parked", "launch"} => Atoms(c) > 0
    /\ b.pc \in {"new", "refuse", "parked", "launch", "expect"} => b.result = "none"
    /\ b.pc = "forward" => b.result # "none"
    /\ b.pc \in Paying => b.seq <= q /\ Owns(c, b.seq, s)

CallInv ==
    /\ settings \in Policies
    /\ call \in [Calls -> CallStates]
    /\ rail \in [Calls \cup Others -> {"none", "running", "settled", "failed"}]
    /\ raced \in BOOLEAN /\ revived \in BOOLEAN
    /\ unsure \subseteq {c \in Calls : rail[c] # "none"}
    /\ late \subseteq {p \in Calls \cup Others : rail[p] \in {"settled", "failed"}}
    /\ \A c \in Calls : Knows(c, call[c], rail[c], spendSeq, spend)

\* Whoever waits is in Pay, has no outcome yet, and waits once.
WaiterInv ==
    /\ waiters \in Seq(Calls)
    /\ IsInjective(waiters)
    /\ \A i \in 1..Len(waiters) : /\ call[waiters[i]].pc \in {"tip", "wait"}
                                  /\ call[waiters[i]].result = "none"

\* What call c may still take from the entries that count: its tip, if it is to
\* start, moves or moved, or if its failure is still on its way to the log; and
\* a failure some tip reported to it.
TipOut(b, r, onItsWay) ==
    b.pc \in {"expect", "tip"} \/ r \in {"running", "settled"} \/ (onItsWay /\ r = "failed")

FailureHeld(b) ==
    b.pc = "failed" \/ (b.pc \in {"tip", "wait", "forward"} /\ b.result = "failed")

Weight(b, r, onItsWay) ==
    (IF TipOut(b, r, onItsWay) THEN 1 ELSE 0) + (IF FailureHeld(b) THEN 1 ELSE 0)

Same(p, q) == BotOf[p] = BotOf[q] /\ Atoms(p) = Atoms(q)

Claims(p) ==
    [c \in Calls |-> IF Same(c, p) THEN Weight(call[c], rail[c], c \in late) ELSE 0]

CountedIn(s, p) == {i \in 1..Len(s) : /\ countsTowardCap(s[i].status)
                                      /\ s[i].bot = BotOf[p] /\ s[i].atoms = Atoms(p)}

\* The tips of p's payee and amount that were sent though starting them erred.
Excused(p) == Cardinality(UnsureOf(p))

\* In memory and in the file, entries that count are as many as what calls may
\* still take from them, but for one for each failed write and each excused tip:
\* a restart puts the file's log in the place of memory's.
ClaimsCovered ==
    (\A o \in Others : rail[o] = "running") =>
        \A p \in Calls : \A s \in {spend, spendFile.log} :
            SumFunctionOnSet(Claims(p), Calls)
                <= Cardinality(CountedIn(s, p)) + diskFaults + Excused(p)

\* The day's entries of a log, and what they come to.
Today(s, d, t) == {i \in d + 1..Len(s) : s[i].ts >= t - Window
                                         /\ countsTowardCap(s[i].status)}
SpentIn(s, d, t) ==
    SumFunctionOnSet([i \in DOMAIN s |-> s[i].atoms], Today(s, d, t))

\* Memory's total for the day, and the file's, which may be another's once a
\* write has failed, stay within the cap.
Within(n) == n = 0 \/ \E s \in Policies : n <= s.perDay

CapInv ==
    raced \/ revived
    \/ (/\ Within(SpentIn(spend, dropped, now))
        /\ Within(SpentIn(spendFile.log, spendFile.dropped, now)))

\* A call on its way to the log has passed the check of some policy's cap.
Checked ==
    \A c \in Calls : call[c].pc \in {"parked", "launch"} =>
        \E s \in Policies : call[c].spent + Atoms(c) <= s.perDay

BridgeInv ==
    LogInv /\ CallInv /\ WaiterInv /\ ClaimsCovered /\ Checked /\ CapInv

-----------------------------------------------------------------------------
(* Operators of the model.                                                 *)

\* Min of a bounded set of numbers is its least member.
LEMMA MinIsLeast ==
    ASSUME NEW n \in Nat, NEW S \in SUBSET (1..n), S # {}
    PROVE  Min(S) \in S /\ \A y \in S : Min(S) <= y
<1> DEFINE upTo(k) == 1..k
           base == 1..n
           T == {V \in SUBSET base : \E k \in S : V = upTo(k)}
<1>0. IsFiniteSet(base) /\ \A k \in S : upTo(k) \in SUBSET base
  BY FS_Interval
<1> HIDE DEF upTo, base
<1>1. T \in SUBSET (SUBSET base) /\ T # {}
  BY <1>0
<1>2. PICK U \in T : \A V \in T : V \subseteq U => V = U
  <2> HIDE DEF T
  <2> QED BY <1>0, <1>1, SmallestSet
<1>3. PICK k \in S : U = upTo(k)
  BY <1>2
<1>4. ASSUME NEW y \in S PROVE k <= y
  <2>1. SUFFICES ASSUME y < k PROVE FALSE
    OBVIOUS
  <2>2. upTo(y) \subseteq upTo(k) /\ k \in upTo(k) /\ k \notin upTo(y)
    BY <2>1 DEF upTo
  <2>3. upTo(y) \in T
    BY <1>0
  <2>4. upTo(y) = upTo(k)
    BY <1>2, <1>3, <2>2, <2>3
  <2> QED BY <2>2, <2>4
<1>5. \E x \in S : \A y \in S : x <= y
  BY <1>4
<1> QED BY <1>5 DEF Min

\* One entry's status is changed, nothing else.
LEMMA MarkedLog ==
    ASSUME NEW s \in Seq(Entries), NEW j \in 1..Len(s), NEW x \in Statuses
    PROVE  /\ [s EXCEPT ![j].status = x] \in Seq(Entries)
           /\ Len([s EXCEPT ![j].status = x]) = Len(s)
           /\ \A i \in 1..Len(s) :
                 /\ i # j => [s EXCEPT ![j].status = x][i] = s[i]
                 /\ [s EXCEPT ![j].status = x][i].bot = s[i].bot
                 /\ [s EXCEPT ![j].status = x][i].atoms = s[i].atoms
                 /\ [s EXCEPT ![j].status = x][i].ts = s[i].ts
                 /\ [s EXCEPT ![j].status = x][i].seq = s[i].seq
           /\ [s EXCEPT ![j].status = x][j].status = x
<1>1. s[j] \in Entries /\ DOMAIN s = 1..Len(s) /\ Len(s) \in Nat
  OBVIOUS
<1> DEFINE e == [s[j] EXCEPT !.status = x]
           t == [s EXCEPT ![j].status = x]
<1>2. /\ e \in Entries /\ e.status = x /\ e.bot = s[j].bot /\ e.atoms = s[j].atoms
      /\ e.ts = s[j].ts /\ e.seq = s[j].seq
  BY <1>1 DEF Entries
<1>3. t = [s EXCEPT ![j] = e]
  BY <1>1
<1> HIDE DEF e, t
<1>4. t \in Seq(Entries) /\ Len(t) = Len(s) /\ t[j] = e
      /\ \A i \in 1..Len(s) : i # j => t[i] = s[i]
  BY <1>1, <1>2, <1>3
<1>5. \A i \in 1..Len(s) : /\ t[i].bot = s[i].bot /\ t[i].atoms = s[i].atoms
                           /\ t[i].ts = s[i].ts /\ t[i].seq = s[i].seq
  BY <1>2, <1>4
<1> QED BY <1>2, <1>4, <1>5 DEF t

LEMMA AppendedLog ==
    ASSUME NEW s \in Seq(Entries), NEW e \in Entries
    PROVE  /\ Append(s, e) \in Seq(Entries)
           /\ Len(Append(s, e)) = Len(s) + 1
           /\ \A i \in 1..Len(s) : Append(s, e)[i] = s[i]
           /\ Append(s, e)[Len(s) + 1] = e
OBVIOUS

\* Pruning stops before the first entry that is protected.
LEMMA PrunedKeeps ==
    ASSUME NEW s \in Seq(Entries), dropped \in 0..Len(s)
    PROVE  /\ Pruned(s) \in dropped..Len(s)
           /\ \A i \in dropped + 1..Pruned(s) : ~Protected(s[i])
<1> DEFINE first == Len(s) - SpendKeep
           keep == {i \in dropped + 1..first : Protected(s[i])}
<1>1. Len(s) \in Nat /\ SpendKeep \in Nat /\ dropped \in Nat /\ dropped <= Len(s)
  BY BridgeAssumption
<1>2. CASE first <= dropped
  <2>1. Pruned(s) = dropped
    BY <1>2 DEF Pruned
  <2> QED BY <1>1, <2>1
<1>3. CASE ~(first <= dropped) /\ keep = {}
  <2>1. Pruned(s) = first
    BY <1>3 DEF Pruned
  <2>2. first \in Nat /\ dropped <= first /\ first <= Len(s)
    BY <1>1, <1>3
  <2>3. \A i \in dropped + 1..first : ~Protected(s[i])
    BY <1>3
  <2> HIDE DEF first
  <2> QED BY <1>1, <2>1, <2>2, <2>3
<1>4. CASE ~(first <= dropped) /\ keep # {}
  <2>1. Pruned(s) = Min(keep) - 1
    BY <1>4 DEF Pruned
  <2>2. first \in Nat /\ dropped <= first /\ first <= Len(s)
    BY <1>1, <1>4
  <2>3. keep \in SUBSET (1..first)
    BY <1>1
  <2>4. Min(keep) \in keep /\ \A y \in keep : Min(keep) <= y
    <3> HIDE DEF keep, first
    <3> QED BY <1>4, <2>2, <2>3, MinIsLeast
  <2>5. Min(keep) \in dropped + 1..first
    BY <2>4
  <2> DEFINE m == Min(keep)
  <2>6. ASSUME NEW i \in dropped + 1..m - 1 PROVE ~Protected(s[i])
    <3> HIDE DEF first, m
    <3>1. i \in dropped + 1..first /\ ~(m <= i)
      BY <1>1, <2>2, <2>5 DEF m
    <3>2. i \notin keep
      BY <2>4, <3>1 DEF m
    <3> QED BY <3>1, <3>2
  <2> HIDE DEF first, m
  <2>7. m - 1 \in dropped..Len(s)
    BY <1>1, <2>2, <2>5 DEF m
  <2> QED BY <2>1, <2>6, <2>7 DEF m
<1> QED BY <1>2, <1>3, <1>4

\* A sequence without one of its elements.
LEMMA TakenOut ==
    ASSUME NEW s \in Seq(Calls), IsInjective(s), NEW k \in 1..Len(s)
    PROVE  /\ RemoveAt(s, k) \in Seq(Calls)
           /\ IsInjective(RemoveAt(s, k))
           /\ \A i \in 1..Len(RemoveAt(s, k)) :
                 \E j \in 1..Len(s) : j # k /\ RemoveAt(s, k)[i] = s[j]
           /\ \A i \in 1..Len(RemoveAt(s, k)) : RemoveAt(s, k)[i] # s[k]
<1> DEFINE a == SubSeq(s, 1, k - 1)
           b == SubSeq(s, k + 1, Len(s))
           r == RemoveAt(s, k)
           at(i) == IF i < k THEN i ELSE i + 1
<1>1. Len(s) \in Nat /\ k \in Nat /\ k <= Len(s) /\ 1 <= k /\ DOMAIN s = 1..Len(s)
  OBVIOUS
<1>2. a \in Seq(Calls) /\ Len(a) = k - 1 /\ \A i \in 1..k - 1 : a[i] = s[i]
  BY <1>1
<1>3. b \in Seq(Calls) /\ Len(b) = Len(s) - k /\ \A i \in 1..Len(s) - k : b[i] = s[k + i]
  <2> DEFINE m == k + 1
             n == Len(s)
  <2>1. m \in Int /\ n \in Int /\ \A i \in m..n : s[i] \in Calls
    BY <1>1
  <2>2. n - m + 1 = Len(s) - k /\ (m <= n \/ Len(s) - k = 0)
    <3>1. Len(s) \in Int /\ k \in Int /\ k <= Len(s)
      BY <1>1
    <3>2. n - m + 1 = Len(s) - k
      BY <3>1
    <3>3. m <= n \/ Len(s) - k = 0
      BY <3>1
    <3> QED BY <3>2, <3>3
  <2>7. ASSUME NEW i \in 1..Len(s) - k PROVE m + i - 1 = k + i
    <3>1. i \in Int /\ k \in Int
      BY <1>1
    <3> QED BY <3>1
  <2> HIDE DEF m, n
  <2>3. /\ SubSeq(s, m, n) \in Seq(Calls)
        /\ Len(SubSeq(s, m, n)) = IF m <= n THEN n - m + 1 ELSE 0
        /\ \A i \in 1..n - m + 1 : SubSeq(s, m, n)[i] = s[m + i - 1]
    BY <2>1, SubSeqProperties
  <2>4. SubSeq(s, m, n) = b
    BY DEF m, n
  <2> HIDE DEF b
  <2>5. Len(b) = Len(s) - k
    BY <2>2, <2>3, <2>4
  <2>6. \A i \in 1..Len(s) - k : b[i] = s[k + i]
    BY <2>2, <2>3, <2>4, <2>7
  <2> QED BY <2>3, <2>4, <2>5, <2>6
<1>4. r = a \o b
  BY DEF RemoveAt
<1> HIDE DEF a, b, r
<1>5. r \in Seq(Calls) /\ Len(r) = Len(s) - 1 /\ DOMAIN r = 1..Len(s) - 1
  <2>1. r \in Seq(Calls) /\ Len(r) = Len(a) + Len(b)
    BY <1>2, <1>3, <1>4, ConcatProperties
  <2>2. Len(r) = Len(s) - 1
    BY <1>1, <1>2, <1>3, <2>1
  <2> QED BY <2>1, <2>2
<1>6. ASSUME NEW i \in 1..Len(s) - 1
      PROVE  r[i] = s[at(i)] /\ at(i) \in 1..Len(s) /\ at(i) # k
  <2>1. CASE i < k
    <3>1. i \in 1..Len(a)
      BY <1>1, <1>2, <2>1
    <3>2. r[i] = a[i]
      BY <1>2, <1>3, <1>4, <3>1
    <3> QED BY <1>1, <1>2, <2>1, <3>1, <3>2
  <2>2. CASE ~(i < k)
    <3>1. i - Len(a) \in 1..Len(s) - k /\ k + (i - Len(a)) = i + 1
      BY <1>1, <1>2, <2>2
    <3>2. r[i] = b[i - Len(a)]
      BY <1>2, <1>3, <1>4, <1>1, <2>2
    <3>3. r[i] = s[i + 1]
      BY <1>3, <3>1, <3>2
    <3> QED BY <1>1, <2>2, <3>3
  <2> QED BY <2>1, <2>2
<1>7. ASSUME NEW i \in 1..Len(s) - 1, NEW j \in 1..Len(s) - 1, at(i) = at(j)
      PROVE  i = j
  <2>1. i \in Int /\ j \in Int
    BY <1>1
  <2> QED BY <1>1, <1>7, <2>1
<1> HIDE DEF at
<1>8. IsInjective(r)
  <2> SUFFICES ASSUME NEW i \in DOMAIN r, NEW j \in DOMAIN r, r[i] = r[j]
               PROVE  i = j
    BY DEF IsInjective
  <2>0. i \in 1..Len(s) - 1 /\ j \in 1..Len(s) - 1
    BY <1>5
  <2>1. at(i) = at(j)
    BY <1>1, <1>6, <2>0 DEF IsInjective
  <2> QED BY <1>7, <2>0, <2>1
<1>9. \A i \in 1..Len(s) - 1 : r[i] # s[k]
  BY <1>1, <1>6 DEF IsInjective
<1> QED BY <1>5, <1>6, <1>8, <1>9 DEF r

-----------------------------------------------------------------------------
(* Writing the log.                                                        *)

\* A log of the present stays sound as time passes.
LEMMA SoundLater ==
    ASSUME NEW s, NEW d, NEW t \in Nat, NEW u \in Nat, t <= u, SoundLog(s, d, t)
    PROVE  SoundLog(s, d, u)
<1>0. s \in Seq(Entries) /\ d \in 0..Len(s) /\ Len(s) \in Nat /\ Window \in Nat
  BY BridgeAssumption DEF SoundLog
<1>1. ASSUME NEW i \in 1..Len(s)
      PROVE  /\ s[i].ts \in Nat /\ s[i].ts <= u
             /\ s[i].status # "refused" => s[i].atoms > 0
  <2>1. s[i] \in Entries /\ s[i].ts <= t
    BY <1>0 DEF SoundLog
  <2>2. s[i].ts \in Nat
    BY <2>1 DEF Entries
  <2>3. s[i].status # "refused" => s[i].atoms > 0
    BY DEF SoundLog
  <2> QED BY <2>1, <2>2, <2>3
<1>2. ASSUME NEW i \in 1..d
      PROVE  /\ ~(s[i].ts >= u - Window /\ countsTowardCap(s[i].status))
             /\ s[i].status # "pending"
  <2>1. i \in 1..Len(s)
    BY <1>0
  <2>2. s[i].ts \in Nat
    BY <1>1, <2>1
  <2>3. s[i].ts >= u - Window => s[i].ts >= t - Window
    BY <1>0, <2>2
  <2> QED BY <2>3 DEF SoundLog
<1> QED BY <1>0, <1>1, <1>2 DEF SoundLog

\* What a sound log says of its entries.
LEMMA SoundEntry ==
    ASSUME NEW s, NEW d, NEW t, SoundLog(s, d, t), NEW i \in 1..Len(s)
    PROVE  /\ s[i] \in Entries /\ s[i].atoms \in Int /\ s[i].ts \in Nat /\ s[i].seq \in Nat
           /\ s[i].status \in Statuses /\ s[i].ts <= t
           /\ s[i].status # "refused" => s[i].atoms > 0
<1>1. s \in Seq(Entries)
  BY DEF SoundLog
<1>2. s[i] \in Entries
  BY <1>1
<1>3. s[i].ts <= t /\ (s[i].status # "refused" => s[i].atoms > 0)
  BY DEF SoundLog
<1> QED BY <1>2, <1>3 DEF Entries

\* The file says what memory says, or what it said before and a write more failed.
Stored ==
    \/ spendFile' = [log |-> spend', dropped |-> dropped'] /\ diskFaults' = diskFaults
    \/ spendFile' = spendFile /\ diskFaults' = diskFaults + 1

\* persistSpendLocked writes a log that memory could hold: it stays sound.
LEMMA Persisted ==
    ASSUME LogInv, NEW s, SoundLog(s, dropped, now), persistSpend(s), now' = now,
           spendSeq' \in Nat, \A i \in 1..Len(s) : s[i].seq <= spendSeq'
    PROVE  LogInv' /\ spend' = s /\ dropped' \in dropped..Len(s) /\ Stored
<1>0. s \in Seq(Entries) /\ dropped \in 0..Len(s) /\ now \in Nat /\ Len(s) \in Nat
      /\ dropped \in Nat
  BY DEF LogInv, SoundLog
<1>1. spend' = s /\ dropped' = Pruned(s)
  BY DEF persistSpend
<1>2. dropped' \in dropped..Len(s) /\ \A i \in dropped + 1..dropped' : ~Protected(s[i])
  BY <1>0, <1>1, PrunedKeeps
<1>3. dropped' \in Nat /\ dropped <= dropped' /\ dropped' <= Len(s)
  BY <1>0, <1>2
<1>4. SoundLog(s, dropped', now)
  <2>1. ASSUME NEW i \in 1..dropped'
        PROVE  /\ ~(s[i].ts >= now - Window /\ countsTowardCap(s[i].status))
               /\ s[i].status # "pending"
    <3>1. CASE i \in 1..dropped
      BY <3>1 DEF SoundLog
    <3>2. CASE i \in dropped + 1..dropped'
      BY <1>2, <3>2 DEF Protected, InWindow
    <3> QED BY <1>0, <1>3, <3>1, <3>2
  <2>2. dropped' \in 0..Len(s)
    BY <1>0, <1>3
  <2> QED BY <2>1, <2>2 DEF SoundLog
<1>5. SoundLog(spend, dropped, now)'
  BY <1>1, <1>4
<1>6. CASE spendFile' = [log |-> s, dropped |-> dropped'] /\ UNCHANGED diskFaults
  <2>1. spendFile'.log = s /\ spendFile'.dropped = dropped'
    BY <1>6
  <2>2. spendFile' \in [log : Seq(Entries), dropped : Nat]
    BY <1>0, <1>3, <1>6
  <2>3. SoundLog(spendFile'.log, spendFile'.dropped, now')
    BY <1>4, <2>1
  <2>4. diskFaults \in Nat /\ diskFaults' = diskFaults
    BY <1>6 DEF LogInv
  <2>5. Stored
    BY <1>1, <1>6 DEF Stored
  <2> QED BY <1>0, <1>1, <1>2, <1>5, <2>2, <2>3, <2>4, <2>5 DEF LogInv
<1>7. CASE diskFaults' = diskFaults + 1 /\ UNCHANGED spendFile
  <2>1. diskFaults' \in Nat /\ Stored
    BY <1>7 DEF LogInv, Stored
  <2>2. SoundLog(spendFile'.log, spendFile'.dropped, now')
        /\ spendFile' \in [log : Seq(Entries), dropped : Nat]
    BY <1>7 DEF LogInv
  <2> QED BY <1>0, <1>1, <1>2, <1>5, <2>1, <2>2 DEF LogInv
<1> QED BY <1>6, <1>7 DEF persistSpend

\* Marking an entry of a payment paid or failed.
Marks(j, x) ==
    /\ j \in dropped + 1..Len(spend) /\ x \in {"paid", "failed"}
    /\ spend[j].status # "refused"
    /\ persistSpend([spend EXCEPT ![j].status = x])
    /\ spendSeq' = spendSeq

\* What a mark does: the entry stays where it is and keeps all but its status.
LEMMA MarkDoes ==
    ASSUME LogInv, now' = now, NEW j, NEW x, Marks(j, x)
    PROVE  /\ LogInv' /\ j \in 1..Len(spend) /\ Len(spend') = Len(spend)
           /\ dropped' \in dropped..Len(spend) /\ Stored
           /\ \A i \in 1..Len(spend) :
                 /\ i # j => spend'[i] = spend[i]
                 /\ spend'[i].bot = spend[i].bot /\ spend'[i].atoms = spend[i].atoms
                 /\ spend'[i].ts = spend[i].ts /\ spend'[i].seq = spend[i].seq
           /\ spend'[j].status = x
<1> DEFINE s == [spend EXCEPT ![j].status = x]
<1>0. spend \in Seq(Entries) /\ dropped \in 0..Len(spend) /\ Len(spend) \in Nat
      /\ dropped \in Nat /\ now \in Nat /\ spendSeq \in Nat
  BY DEF LogInv, SoundLog
<1>1. j \in 1..Len(spend) /\ j \in dropped + 1..Len(spend) /\ x \in Statuses /\ persistSpend(s)
      /\ spend[j].status # "refused" /\ spendSeq' = spendSeq /\ x \in {"paid", "failed"}
  BY <1>0 DEF Marks, Statuses
<1>2. /\ s \in Seq(Entries) /\ Len(s) = Len(spend)
      /\ \A i \in 1..Len(spend) :
            /\ i # j => s[i] = spend[i]
            /\ s[i].bot = spend[i].bot /\ s[i].atoms = spend[i].atoms
            /\ s[i].ts = spend[i].ts /\ s[i].seq = spend[i].seq
      /\ s[j].status = x
  BY <1>0, <1>1, MarkedLog
<1> HIDE DEF s
<1>3. SoundLog(s, dropped, now)
  <2>1. ASSUME NEW i \in 1..Len(s)
        PROVE  s[i].ts <= now /\ (s[i].status # "refused" => s[i].atoms > 0)
    <3>1. spend[i].ts <= now /\ (spend[i].status # "refused" => spend[i].atoms > 0)
      BY <1>2 DEF LogInv, SoundLog
    <3>2. CASE i = j
      BY <1>1, <1>2, <3>1, <3>2
    <3>3. CASE i # j
      BY <1>2, <3>1, <3>3
    <3> QED BY <3>2, <3>3
  <2>2. ASSUME NEW i \in 1..dropped
        PROVE  /\ ~(s[i].ts >= now - Window /\ countsTowardCap(s[i].status))
               /\ s[i].status # "pending"
    <3>1. i # j /\ i \in 1..Len(spend)
      BY <1>0, <1>1
    <3> QED BY <1>2, <3>1 DEF LogInv, SoundLog
  <2> QED BY <1>0, <1>2, <2>1, <2>2 DEF SoundLog
<1>4. \A i \in 1..Len(s) : s[i].seq <= spendSeq'
  BY <1>1, <1>2 DEF LogInv
<1>5. LogInv' /\ spend' = s /\ dropped' \in dropped..Len(s) /\ Stored
  BY <1>0, <1>1, <1>3, <1>4, Persisted
<1> QED BY <1>1, <1>2, <1>5

\* A new spend, under the next sequence number.
Logs(c, status) ==
    /\ status = "pending" => Atoms(c) > 0
    /\ spendSeq' = spendSeq + 1
    /\ persistSpend(Append(spend, Entry(c, status, spendSeq + 1)))

LEMMA AtomsInt == \A p \in Calls \cup Others : Atoms(p) \in Int
BY BridgeAssumption DEF Atoms

LEMMA LogDoes ==
    ASSUME LogInv, now' = now, NEW c \in Calls, NEW status \in {"pending", "refused"},
           Logs(c, status)
    PROVE  /\ LogInv' /\ Len(spend') = Len(spend) + 1
           /\ dropped' \in dropped..Len(spend) + 1 /\ Stored
           /\ \A i \in 1..Len(spend) : spend'[i] = spend[i]
           /\ spend'[Len(spend) + 1] = Entry(c, status, spendSeq + 1)
<1> DEFINE e == Entry(c, status, spendSeq + 1)
           s == Append(spend, e)
<1>0. spend \in Seq(Entries) /\ dropped \in 0..Len(spend) /\ Len(spend) \in Nat
      /\ dropped \in Nat /\ now \in Nat /\ spendSeq \in Nat /\ spendSeq + 1 \in Nat
  BY DEF LogInv, SoundLog
<1>1. spendSeq' = spendSeq + 1 /\ persistSpend(s)
  BY DEF Logs
<1>2. /\ e \in Entries /\ e.ts = now /\ e.seq = spendSeq + 1 /\ e.status = status
      /\ e.status # "refused" => e.atoms > 0
  <2>1. e = [bot |-> BotOf[c], atoms |-> Atoms(c), ts |-> now, status |-> status,
             seq |-> spendSeq + 1]
    BY DEF Entry
  <2>2. Atoms(c) \in Int /\ status \in Statuses /\ BotOf[c] \in {BotOf[p] : p \in Calls \cup Others}
    BY AtomsInt DEF Statuses
  <2> HIDE DEF e
  <2>3. e \in Entries
    BY <1>0, <2>1, <2>2 DEF Entries
  <2>4. e.ts = now /\ e.seq = spendSeq + 1 /\ e.status = status /\ e.atoms = Atoms(c)
    BY <2>1
  <2> QED BY <2>3, <2>4 DEF Logs
<1> HIDE DEF e
<1>3. /\ s \in Seq(Entries) /\ Len(s) = Len(spend) + 1
      /\ \A i \in 1..Len(spend) : s[i] = spend[i]
      /\ s[Len(spend) + 1] = e
  BY <1>0, <1>2, AppendedLog
<1> HIDE DEF s
<1>4. SoundLog(s, dropped, now)
  <2>1. ASSUME NEW i \in 1..Len(s)
        PROVE  s[i].ts <= now /\ (s[i].status # "refused" => s[i].atoms > 0)
    <3>1. CASE i = Len(spend) + 1
      BY <1>0, <1>2, <1>3, <3>1
    <3>2. CASE i # Len(spend) + 1
      <4>1. i \in 1..Len(spend)
        BY <1>0, <1>3, <3>2
      <4> QED BY <1>3, <4>1 DEF LogInv, SoundLog
    <3> QED BY <3>1, <3>2
  <2>2. ASSUME NEW i \in 1..dropped
        PROVE  /\ ~(s[i].ts >= now - Window /\ countsTowardCap(s[i].status))
               /\ s[i].status # "pending"
    <3>1. i \in 1..Len(spend)
      BY <1>0
    <3> QED BY <1>3, <3>1 DEF LogInv, SoundLog
  <2>3. dropped \in 0..Len(s)
    BY <1>0, <1>3
  <2> QED BY <1>3, <2>1, <2>2, <2>3 DEF SoundLog
<1>5. \A i \in 1..Len(s) : s[i].seq <= spendSeq'
  <2> TAKE i \in 1..Len(s)
  <2>1. CASE i = Len(spend) + 1
    BY <1>0, <1>1, <1>2, <1>3, <2>1
  <2>2. CASE i # Len(spend) + 1
    <3>1. i \in 1..Len(spend)
      BY <1>0, <1>3, <2>2
    <3>2. spend[i].seq \in Nat /\ spend[i].seq <= spendSeq
      BY <3>1, SoundEntry DEF LogInv
    <3> QED BY <1>0, <1>1, <1>3, <3>1, <3>2
  <2> QED BY <2>1, <2>2
<1>6. LogInv' /\ spend' = s /\ dropped' \in dropped..Len(s) /\ Stored
  BY <1>0, <1>1, <1>4, <1>5, Persisted
<1> QED BY <1>3, <1>6 DEF e

\* A mark leaves every call its own entries.
LEMMA OwnsKept ==
    ASSUME LogInv, now' = now, NEW j, NEW x, Marks(j, x), NEW c, NEW q, Owns(c, q, spend)
    PROVE  Owns(c, q, spend')
<1>1. x # "refused"
  BY DEF Marks
<1>2. SUFFICES ASSUME NEW i \in 1..Len(spend), spend'[i].seq = q /\ q # 0
               PROVE  /\ spend'[i].bot = BotOf[c] /\ spend'[i].atoms = Atoms(c)
                      /\ spend'[i].status # "refused"
  BY MarkDoes DEF Owns
<1>3. /\ spend'[i].bot = spend[i].bot /\ spend'[i].atoms = spend[i].atoms
      /\ spend'[i].seq = spend[i].seq /\ (i # j => spend'[i] = spend[i])
      /\ spend'[j].status = x
  BY MarkDoes
<1>4. spend[i].bot = BotOf[c] /\ spend[i].atoms = Atoms(c) /\ spend[i].status # "refused"
  BY <1>2, <1>3 DEF Owns
<1> QED BY <1>1, <1>3, <1>4

\* markSpendLocked marks the call's own entry, or none.
LEMMA MarkSpendDoes ==
    ASSUME LogInv, CallInv, NEW c \in Calls, call[c].pc \in Paying,
           NEW x \in {"paid", "failed"}, markSpend(call[c].seq, x)
    PROVE  \/ UNCHANGED log
           \/ \E j \in 1..Len(spend) :
                 Marks(j, x) /\ spend[j].bot = BotOf[c] /\ spend[j].atoms = Atoms(c)
<1> DEFINE q == call[c].seq
           at == {i \in dropped + 1..Len(spend) : spend[i].seq = q /\ q # 0}
<1>0. Len(spend) \in Nat /\ dropped \in Nat
  BY DEF LogInv, SoundLog
<1>1. CASE at = {}
  BY <1>1 DEF markSpend, log
<1>2. CASE at # {}
  <2>1. at \in SUBSET (1..Len(spend))
    BY <1>0
  <2>2. Min(at) \in at
    <3> HIDE DEF at
    <3> QED BY <1>0, <1>2, <2>1, MinIsLeast
  <2>3. persistSpend([spend EXCEPT ![Min(at)].status = x]) /\ spendSeq' = spendSeq
    BY <1>2 DEF markSpend
  <2> DEFINE j == Min(at)
  <2> HIDE DEF j
  <2>4. j \in dropped + 1..Len(spend) /\ spend[j].seq = q /\ q # 0
    BY <2>2 DEF j
  <2>5. j \in 1..Len(spend)
    BY <1>0, <2>4
  <2>6. Owns(c, q, spend)
    BY DEF CallInv, Knows
  <2>7. spend[j].bot = BotOf[c] /\ spend[j].atoms = Atoms(c) /\ spend[j].status # "refused"
    BY <2>4, <2>5, <2>6 DEF Owns
  <2>8. Marks(j, x)
    BY <2>3, <2>4, <2>7 DEF Marks, j
  <2> QED BY <2>5, <2>7, <2>8
<1> QED BY <1>1, <1>2

\* ResolveSpend marks a pending entry of the tip's payee and amount, or none.
LEMMA ResolveDoes ==
    ASSUME LogInv, NEW p, NEW ok \in BOOLEAN, ResolveSpend(p, ok)
    PROVE  \/ UNCHANGED log
           \/ \E j \in 1..Len(spend) :
                 /\ Marks(j, Outcome(ok)) /\ spend[j].status = "pending"
                 /\ spend[j].bot = BotOf[p] /\ spend[j].atoms = Atoms(p)
<1> DEFINE at == {i \in dropped + 1..Len(spend) :
                     /\ spend[i].status = "pending"
                     /\ spend[i].atoms = Atoms(p) /\ spend[i].bot = BotOf[p]}
<1>0. Len(spend) \in Nat /\ dropped \in Nat
  BY DEF LogInv, SoundLog
<1>1. CASE at = {}
  BY <1>1 DEF ResolveSpend, log
<1>2. CASE at # {}
  <2>1. at \in SUBSET (1..Len(spend))
    BY <1>0
  <2>2. Min(at) \in at
    <3> HIDE DEF at
    <3> QED BY <1>0, <1>2, <2>1, MinIsLeast
  <2>3. persistSpend([spend EXCEPT ![Min(at)].status = Outcome(ok)]) /\ spendSeq' = spendSeq
    BY <1>2 DEF ResolveSpend
  <2> DEFINE j == Min(at)
  <2> HIDE DEF j
  <2>4. j \in dropped + 1..Len(spend) /\ spend[j].status = "pending"
        /\ spend[j].bot = BotOf[p] /\ spend[j].atoms = Atoms(p)
    BY <2>2 DEF j
  <2>5. j \in 1..Len(spend)
    BY <1>0, <2>4
  <2>6. Outcome(ok) \in {"paid", "failed"}
    BY DEF Outcome
  <2>7. Marks(j, Outcome(ok))
    BY <2>3, <2>4, <2>6 DEF Marks, j
  <2> QED BY <2>4, <2>5, <2>7
<1> QED BY <1>1, <1>2

\* loadState forgets sequence numbers and nothing else.
LEMMA Reload ==
    ASSUME NEW s \in Seq(Entries), NEW d, NEW t, SoundLog(s, d, t)
    PROVE  /\ SoundLog(Reloaded(s), d, t) /\ SameLog(s, Reloaded(s))
           /\ \A i \in 1..Len(Reloaded(s)) : Reloaded(s)[i].seq = 0
<1> DEFINE r == Reloaded(s)
<1>0. DOMAIN s = 1..Len(s) /\ Len(s) \in Nat
  OBVIOUS
<1>1. ASSUME NEW i \in 1..Len(s)
      PROVE  /\ [s[i] EXCEPT !.seq = 0] \in Entries
             /\ [s[i] EXCEPT !.seq = 0].seq = 0
             /\ [s[i] EXCEPT !.seq = 0].bot = s[i].bot
             /\ [s[i] EXCEPT !.seq = 0].atoms = s[i].atoms
             /\ [s[i] EXCEPT !.seq = 0].ts = s[i].ts
             /\ [s[i] EXCEPT !.seq = 0].status = s[i].status
  <2>1. s[i] \in Entries
    OBVIOUS
  <2> QED BY <2>1 DEF Entries
<1>2. r = [i \in 1..Len(s) |-> [s[i] EXCEPT !.seq = 0]]
  BY <1>0 DEF Reloaded
<1> HIDE DEF r
<1>3. r \in Seq(Entries) /\ Len(r) = Len(s)
  BY <1>0, <1>1, <1>2
<1>4. \A i \in 1..Len(s) : r[i] = [s[i] EXCEPT !.seq = 0]
  BY <1>2
<1>5. \A i \in 1..Len(s) : /\ r[i].seq = 0 /\ r[i].bot = s[i].bot /\ r[i].atoms = s[i].atoms
                           /\ r[i].ts = s[i].ts /\ r[i].status = s[i].status
  BY <1>1, <1>4
<1>6. SoundLog(r, d, t)
  <2>1. d \in 0..Len(s) /\ \A i \in 1..d : i \in 1..Len(s)
    BY <1>0 DEF SoundLog
  <2>2. \A i \in 1..d : /\ ~(r[i].ts >= t - Window /\ countsTowardCap(r[i].status))
                        /\ r[i].status # "pending"
    BY <1>5, <2>1 DEF SoundLog
  <2>3. \A i \in 1..Len(r) : r[i].ts <= t /\ (r[i].status # "refused" => r[i].atoms > 0)
    BY <1>3, <1>5 DEF SoundLog
  <2> QED BY <1>3, <2>1, <2>2, <2>3 DEF SoundLog
<1>7. SameLog(s, r)
  BY <1>3, <1>5 DEF SameLog
<1> QED BY <1>3, <1>5, <1>6, <1>7 DEF r

LEMMA RestartLog ==
    ASSUME LogInv, Restart
    PROVE  /\ LogInv' /\ diskFaults' = diskFaults /\ now' = now
           /\ spendFile' = spendFile /\ dropped' = spendFile.dropped
           /\ SameLog(spendFile.log, spend')
<1> DEFINE s == spendFile.log
           r == Reloaded(s)
<1>1. /\ spend' = r /\ dropped' = spendFile.dropped /\ spendSeq' = 0
      /\ spendFile' = spendFile /\ diskFaults' = diskFaults /\ now' = now
  BY DEF Restart
<1>2. s \in Seq(Entries) /\ SoundLog(s, spendFile.dropped, now)
  BY DEF LogInv
<1>3. /\ SoundLog(r, spendFile.dropped, now) /\ SameLog(s, r)
      /\ \A i \in 1..Len(r) : r[i].seq = 0
  BY <1>2, Reload
<1> HIDE DEF r
<1>4. SoundLog(spend', dropped', now')
  BY <1>1, <1>3
<1>5. SoundLog(spendFile'.log, spendFile'.dropped, now')
  BY <1>1, <1>2
<1>6. \A i \in 1..Len(spend') : spend'[i].seq <= spendSeq'
  BY <1>1, <1>3
<1>7. now' \in Nat /\ diskFaults' \in Nat /\ spendSeq' \in Nat
      /\ spendFile' \in [log : Seq(Entries), dropped : Nat]
  BY <1>1 DEF LogInv
<1>8. LogInv'
  BY <1>4, <1>5, <1>6, <1>7 DEF LogInv
<1> QED BY <1>1, <1>3, <1>8

\* Nothing is logged and no time passes.
Quiet == UNCHANGED <<spend, dropped, spendSeq, spendFile, diskFaults, now>>

LEMMA QuietLog == LogInv /\ Quiet => LogInv'
BY DEF LogInv, Quiet

LEMMA TickLog == ASSUME LogInv, Tick PROVE LogInv'
<1>1. now' = now + 1 /\ now \in Nat
      /\ UNCHANGED <<spend, dropped, spendSeq, spendFile, diskFaults>>
  BY DEF Tick, LogInv, log
<1>2. now' \in Nat /\ now <= now'
  BY <1>1
<1>3. SoundLog(spend, dropped, now) /\ SoundLog(spendFile.log, spendFile.dropped, now)
  BY DEF LogInv
<1>4. SoundLog(spend, dropped, now') /\ SoundLog(spendFile.log, spendFile.dropped, now')
  BY <1>1, <1>2, <1>3, SoundLater
<1> QED BY <1>1, <1>2, <1>4 DEF LogInv

-----------------------------------------------------------------------------
(* What a call remembers.                                                  *)

\* One call moves to b, the log under it keeps everyone's entries.
LEMMA CallMoves ==
    ASSUME LogInv, CallInv, NEW c \in Calls, NEW b \in CallStates,
           call' = [call EXCEPT ![c] = b],
           settings' = settings, rail' = rail, late' \subseteq late, unsure' = unsure,
           raced' \in BOOLEAN, revived' \in BOOLEAN, spendSeq' \in Nat, spendSeq <= spendSeq',
           \A d \in Calls \ {c} : call[d].pc \in Paying /\ Owns(d, call[d].seq, spend)
                                     => Owns(d, call[d].seq, spend'),
           Knows(c, b, rail[c], spendSeq', spend')
    PROVE  /\ CallInv' /\ call'[c] = b /\ \A d \in Calls \ {c} : call'[d] = call[d]
<1>1. call \in [Calls -> CallStates]
  BY DEF CallInv
<1>2. /\ call' \in [Calls -> CallStates] /\ call'[c] = b
      /\ \A d \in Calls \ {c} : call'[d] = call[d]
  BY <1>1
<1>3. ASSUME NEW d \in Calls PROVE Knows(d, call'[d], rail'[d], spendSeq', spend')
  <2>1. CASE d = c
    BY <1>2, <2>1
  <2>2. CASE d # c
    <3>1. Knows(d, call[d], rail[d], spendSeq, spend) /\ d \in Calls \ {c}
      BY <2>2 DEF CallInv
    <3>2. call[d].seq \in Nat /\ spendSeq \in Nat
      BY <1>1 DEF CallStates, LogInv
    <3>3. call[d].seq <= spendSeq => call[d].seq <= spendSeq'
      BY <3>2
    <3>4. call[d].pc \in Paying => call[d].seq <= spendSeq' /\ Owns(d, call[d].seq, spend')
      BY <3>1, <3>3 DEF Knows
    <3>5. Knows(d, call[d], rail[d], spendSeq', spend')
      BY <3>1, <3>4 DEF Knows
    <3> QED BY <1>2, <2>2, <3>5
  <2> QED BY <2>1, <2>2
<1>4. late' \subseteq {p \in Calls \cup Others : rail'[p] \in {"settled", "failed"}}
  BY DEF CallInv
<1> QED BY <1>2, <1>3, <1>4 DEF CallInv

\* A call goes on and changes nothing else of what it remembers, or returns and
\* forgets it.
LEMMA GoesTo ==
    ASSUME CallInv, NEW c \in Calls, NEW x, Goto(c, x),
           x \in Unpaid \cup Paying \cup {"done"}
    PROVE  \E b \in CallStates :
              /\ call' = [call EXCEPT ![c] = b] /\ b.pc = x
              /\ x # "done" => /\ b.seq = call[c].seq /\ b.spent = call[c].spent
                               /\ b.decision = call[c].decision
                               /\ b.result = call[c].result
<1>1. CASE x = "done"
  <2>1. Returned \in CallStates /\ Returned.pc = "done"
    BY DEF Returned, NewCall, CallStates
  <2>2. call' = [call EXCEPT ![c] = Returned]
    BY <1>1 DEF Goto
  <2> QED BY <1>1, <2>1, <2>2
<1>2. CASE x # "done"
  <2> DEFINE b == [call[c] EXCEPT !.pc = x]
  <2>1. call \in [Calls -> CallStates] /\ call[c] \in CallStates
    BY DEF CallInv
  <2>2. x \in {"new", "refuse", "parked", "launch", "expect", "tip", "wait",
             "failed", "paid", "forward"}
    BY <1>2 DEF Unpaid, Paying
  <2>3. /\ b \in CallStates /\ b.pc = x /\ b.seq = call[c].seq /\ b.spent = call[c].spent
        /\ b.decision = call[c].decision /\ b.result = call[c].result
    BY <2>1, <2>2 DEF CallStates
  <2>4. call' = [call EXCEPT ![c] = b]
    BY <1>2 DEF Goto
  <2> HIDE DEF b
  <2> QED BY <2>3, <2>4
<1> QED BY <1>1, <1>2

\* The log's changes leave every paying call its entries.
LEMMA KeptQuiet ==
    ASSUME NEW d, NEW q, spend' = spend, Owns(d, q, spend)
    PROVE  Owns(d, q, spend')
BY DEF Owns

LEMMA KeptLogged ==
    ASSUME LogInv, now' = now, NEW c \in Calls, NEW status \in {"pending", "refused"},
           Logs(c, status), NEW d, NEW q \in Nat, q <= spendSeq, Owns(d, q, spend)
    PROVE  Owns(d, q, spend')
<1>1. Len(spend) \in Nat /\ spendSeq \in Nat
  BY DEF LogInv, SoundLog
<1>2. /\ Len(spend') = Len(spend) + 1
      /\ \A i \in 1..Len(spend) : spend'[i] = spend[i]
      /\ spend'[Len(spend) + 1] = Entry(c, status, spendSeq + 1)
  BY LogDoes
<1>3. Entry(c, status, spendSeq + 1).seq = spendSeq + 1
  BY DEF Entry
<1>4. SUFFICES ASSUME NEW i \in 1..Len(spend'), spend'[i].seq = q, q # 0
               PROVE  /\ spend'[i].bot = BotOf[d] /\ spend'[i].atoms = Atoms(d)
                      /\ spend'[i].status # "refused"
  BY DEF Owns
<1>5. i # Len(spend) + 1
  <2>1. q # spendSeq + 1
    BY <1>1
  <2>2. spend'[Len(spend) + 1].seq = spendSeq + 1
    BY <1>2, <1>3
  <2> DEFINE n == Len(spend) + 1
  <2>3. spend'[n].seq # q
    BY <2>1, <2>2
  <2>4. spend'[i].seq = q
    BY <1>4
  <2> HIDE DEF n
  <2>5. i # n
    BY <2>3, <2>4
  <2> QED BY <2>5 DEF n
<1>6. i \in 1..Len(spend)
  BY <1>1, <1>2, <1>5
<1> QED BY <1>2, <1>4, <1>6 DEF Owns

-----------------------------------------------------------------------------
(* The waiters.                                                            *)

\* No waiter is touched by a call's step that is not its own.
LEMMA WaitersKept ==
    ASSUME WaiterInv, waiters' = waiters, NEW c \in Calls,
           \A d \in Calls \ {c} : call'[d] = call[d],
           \/ call[c].pc \notin {"tip", "wait"} \/ call[c].result # "none"
           \/ call'[c].pc \in {"tip", "wait"} /\ call'[c].result = call[c].result
    PROVE  WaiterInv'
<1>1. ASSUME NEW i \in 1..Len(waiters)
      PROVE  call'[waiters[i]].pc \in {"tip", "wait"} /\ call'[waiters[i]].result = "none"
  <2>1. /\ waiters[i] \in Calls /\ call[waiters[i]].pc \in {"tip", "wait"}
        /\ call[waiters[i]].result = "none"
    BY DEF WaiterInv
  <2>2. CASE waiters[i] = c
    BY <2>1, <2>2
  <2>3. CASE waiters[i] # c
    BY <2>1, <2>3
  <2> QED BY <2>2, <2>3
<1> QED BY <1>1 DEF WaiterInv

\* Whoever stops waiting is taken out.
LEMMA WaitersCancelled ==
    ASSUME WaiterInv, NEW c \in Calls, Cancel(c), \A d \in Calls \ {c} : call'[d] = call[d]
    PROVE  WaiterInv'
<1>0. waiters \in Seq(Calls) /\ IsInjective(waiters) /\ DOMAIN waiters = 1..Len(waiters)
  BY DEF WaiterInv
<1>1. CASE c \notin Range(waiters)
  <2>1. waiters' = waiters
    BY <1>1 DEF Cancel
  <2>2. ASSUME NEW i \in 1..Len(waiters)
        PROVE  call'[waiters[i]].pc \in {"tip", "wait"} /\ call'[waiters[i]].result = "none"
    <3>1. waiters[i] \in Calls \ {c}
      BY <1>0, <1>1 DEF Range
    <3> QED BY <3>1 DEF WaiterInv
  <2> QED BY <2>1, <2>2 DEF WaiterInv
<1>2. CASE c \in Range(waiters)
  <2> DEFINE k == CHOOSE i \in DOMAIN waiters : waiters[i] = c
             r == RemoveAt(waiters, k)
  <2>1. k \in 1..Len(waiters) /\ waiters[k] = c
    <3>1. \E i \in DOMAIN waiters : waiters[i] = c
      BY <1>2 DEF Range
    <3> QED BY <1>0, <3>1
  <2>2. waiters' = r
    BY <1>2 DEF Cancel
  <2> HIDE DEF k
  <2>3. /\ r \in Seq(Calls) /\ IsInjective(r)
        /\ \A i \in 1..Len(r) : \E j \in 1..Len(waiters) : j # k /\ r[i] = waiters[j]
        /\ \A i \in 1..Len(r) : r[i] # waiters[k]
    BY <1>0, <2>1, TakenOut
  <2> HIDE DEF r
  <2>4. ASSUME NEW i \in 1..Len(r)
        PROVE  call'[r[i]].pc \in {"tip", "wait"} /\ call'[r[i]].result = "none"
    <3>1. PICK j \in 1..Len(waiters) : j # k /\ r[i] = waiters[j]
      BY <2>3
    <3>2. r[i] \in Calls \ {c}
      BY <1>0, <2>1, <2>3, <3>1
    <3>3. call[waiters[j]].pc \in {"tip", "wait"} /\ call[waiters[j]].result = "none"
      BY DEF WaiterInv
    <3> QED BY <3>1, <3>2, <3>3
  <2> QED BY <2>2, <2>3, <2>4 DEF WaiterInv
<1> QED BY <1>1, <1>2

\* Resolve takes the oldest waiter of the tip's payee and amount.
LEMMA WaiterTaken ==
    ASSUME WaiterInv, CallInv, NEW p \in Calls \cup Others, Matches(p) # {}
    PROVE  LET k == Min(Matches(p))
           IN  /\ k \in 1..Len(waiters) /\ waiters[k] \in Calls /\ Same(waiters[k], p)
               /\ call[waiters[k]].pc \in {"tip", "wait"}
               /\ call[waiters[k]].result = "none"
               /\ (waiters' = RemoveAt(waiters, k)
                      /\ \A d \in Calls \ {waiters[k]} : call'[d] = call[d]) => WaiterInv'
<1> DEFINE k == Min(Matches(p))
           r == RemoveAt(waiters, k)
<1>0. waiters \in Seq(Calls) /\ IsInjective(waiters) /\ DOMAIN waiters = 1..Len(waiters)
      /\ Len(waiters) \in Nat
  BY DEF WaiterInv
<1>1. Matches(p) \in SUBSET (1..Len(waiters))
  BY <1>0 DEF Matches
<1>2. k \in Matches(p)
  BY <1>0, <1>1, MinIsLeast
<1> HIDE DEF k
<1>3. k \in 1..Len(waiters) /\ waiters[k] \in Calls
  BY <1>0, <1>1, <1>2
<1>4. Same(waiters[k], p)
  BY <1>2 DEF Matches, Same
<1>5. call[waiters[k]].pc \in {"tip", "wait"} /\ call[waiters[k]].result = "none"
  BY <1>3 DEF WaiterInv
<1>6. ASSUME waiters' = r, \A d \in Calls \ {waiters[k]} : call'[d] = call[d]
      PROVE  WaiterInv'
  <2>1. /\ r \in Seq(Calls) /\ IsInjective(r)
        /\ \A i \in 1..Len(r) : \E j \in 1..Len(waiters) : j # k /\ r[i] = waiters[j]
        /\ \A i \in 1..Len(r) : r[i] # waiters[k]
    BY <1>0, <1>3, TakenOut
  <2> HIDE DEF r
  <2>2. ASSUME NEW i \in 1..Len(r)
        PROVE  call'[r[i]].pc \in {"tip", "wait"} /\ call'[r[i]].result = "none"
    <3>1. PICK j \in 1..Len(waiters) : j # k /\ r[i] = waiters[j]
      BY <2>1
    <3>2. r[i] \in Calls \ {waiters[k]}
      BY <1>0, <2>1, <3>1
    <3>3. call[waiters[j]].pc \in {"tip", "wait"} /\ call[waiters[j]].result = "none"
      BY DEF WaiterInv
    <3>4. call'[r[i]] = call[r[i]]
      BY <1>6, <3>2
    <3> QED BY <3>1, <3>3, <3>4
  <2> QED BY <1>6, <2>1, <2>2 DEF WaiterInv
<1> QED BY <1>3, <1>4, <1>5, <1>6 DEF k

-----------------------------------------------------------------------------
(* Entries that count.                                                     *)

LEMMA CountedFinite ==
    ASSUME NEW s \in Seq(Entries)
    PROVE  \A p : IsFiniteSet(CountedIn(s, p)) /\ Cardinality(CountedIn(s, p)) \in Nat
<1> TAKE p
<1>1. Len(s) \in Nat
  OBVIOUS
<1>2. IsFiniteSet(1..Len(s)) /\ CountedIn(s, p) \subseteq 1..Len(s)
  BY <1>1, FS_Interval DEF CountedIn
<1>3. IsFiniteSet(CountedIn(s, p))
  BY <1>2, FS_Subset
<1> QED BY <1>3, FS_CardinalityType

\* No entry that counts is lost when the log grows or an entry is marked paid.
LEMMA CountsKept ==
    ASSUME NEW s \in Seq(Entries), NEW t \in Seq(Entries), Len(s) <= Len(t),
           \A i \in 1..Len(s) :
              /\ t[i].bot = s[i].bot /\ t[i].atoms = s[i].atoms
              /\ countsTowardCap(s[i].status) => countsTowardCap(t[i].status)
    PROVE  \A p : Cardinality(CountedIn(s, p)) <= Cardinality(CountedIn(t, p))
<1> TAKE p
<1>1. Len(s) \in Nat /\ Len(t) \in Nat
  OBVIOUS
<1>2. CountedIn(s, p) \subseteq CountedIn(t, p)
  BY <1>1 DEF CountedIn
<1> QED BY <1>2, CountedFinite, FS_Subset

\* A failure takes one entry at most, one of its own payee and amount.
LEMMA CountsLost ==
    ASSUME NEW s \in Seq(Entries), NEW t \in Seq(Entries), Len(s) = Len(t),
           NEW j \in 1..Len(s), NEW c, s[j].bot = BotOf[c] /\ s[j].atoms = Atoms(c),
           \A i \in 1..Len(s) : i # j => t[i] = s[i]
    PROVE  \A p : Cardinality(CountedIn(s, p)) - (IF Same(c, p) THEN 1 ELSE 0)
                  <= Cardinality(CountedIn(t, p))
<1> TAKE p
<1> DEFINE S == CountedIn(s, p)
           T == CountedIn(t, p)
<1>1. IsFiniteSet(S) /\ IsFiniteSet(T) /\ Cardinality(S) \in Nat /\ Cardinality(T) \in Nat
  BY CountedFinite
<1>2. S \ {j} \subseteq T
  BY DEF CountedIn
<1>3. CASE ~Same(c, p)
  <2>1. j \notin S
    BY <1>3 DEF CountedIn, Same
  <2>2. S \subseteq T
    BY <1>2, <2>1
  <2>3. Cardinality(S) <= Cardinality(T)
    <3> HIDE DEF S, T
    <3> QED BY <1>1, <2>2, FS_Subset
  <2> QED BY <1>1, <1>3, <2>3
<1>4. CASE Same(c, p)
  <2>1. Cardinality(S) - 1 <= Cardinality(T)
    <3> HIDE DEF S, T
    <3>1. Cardinality(S \ {j}) <= Cardinality(T) /\ Cardinality(S \ {j}) \in Nat
      <4>1. IsFiniteSet(S \ {j})
        BY <1>1, FS_Subset
      <4> QED BY <1>1, <1>2, <4>1, FS_Subset, FS_CardinalityType
    <3>2. CASE j \in S
      <4>1. Cardinality(S \ {j}) = Cardinality(S) - 1
        BY <1>1, <3>2, FS_RemoveElement
      <4> QED BY <1>1, <3>1, <4>1
    <3>3. CASE j \notin S
      <4>1. S \ {j} = S
        BY <3>3
      <4>2. Cardinality(S) <= Cardinality(T)
        BY <3>1, <4>1
      <4> QED BY <1>1, <4>2
    <3> QED BY <3>2, <3>3
  <2> QED BY <1>4, <2>1
<1> QED BY <1>3, <1>4

\* A spend logged is one entry more.
LEMMA CountsGained ==
    ASSUME NEW s \in Seq(Entries), NEW t \in Seq(Entries), Len(t) = Len(s) + 1,
           \A i \in 1..Len(s) : t[i] = s[i], NEW c,
           t[Len(s) + 1].bot = BotOf[c], t[Len(s) + 1].atoms = Atoms(c),
           t[Len(s) + 1].status = "pending"
    PROVE  \A p : Cardinality(CountedIn(s, p)) + (IF Same(c, p) THEN 1 ELSE 0)
                  <= Cardinality(CountedIn(t, p))
<1> TAKE p
<1> DEFINE S == CountedIn(s, p)
           T == CountedIn(t, p)
           j == Len(s) + 1
<1>0. Len(s) \in Nat /\ j \in 1..Len(t) /\ j \notin 1..Len(s)
  OBVIOUS
<1>1. IsFiniteSet(S) /\ IsFiniteSet(T) /\ Cardinality(S) \in Nat /\ Cardinality(T) \in Nat
  BY CountedFinite
<1>2. S \subseteq T
  BY <1>0 DEF CountedIn
<1>3. CASE ~Same(c, p)
  <2>1. Cardinality(S) <= Cardinality(T)
    <3> HIDE DEF S, T
    <3> QED BY <1>1, <1>2, FS_Subset
  <2> QED BY <1>1, <1>3, <2>1
<1>4. CASE Same(c, p)
  <2>1. j \in T /\ j \notin S
    BY <1>0, <1>4 DEF CountedIn, Same, countsTowardCap
  <2>2. Cardinality(S) + 1 <= Cardinality(T)
    <3> HIDE DEF S, T, j
    <3>1. IsFiniteSet(S \cup {j}) /\ Cardinality(S \cup {j}) = Cardinality(S) + 1
      BY <1>1, <2>1, FS_AddElement
    <3>2. S \cup {j} \subseteq T
      BY <1>2, <2>1
    <3>3. Cardinality(S \cup {j}) <= Cardinality(T)
      BY <1>1, <3>2, FS_Subset
    <3> QED BY <3>1, <3>3
  <2> QED BY <1>4, <2>2
<1> QED BY <1>3, <1>4

-----------------------------------------------------------------------------
(* Claims on the entries.                                                  *)

LEMMA WeightNat == \A b, r, l : Weight(b, r, l) \in Nat
BY DEF Weight

LEMMA ClaimsNat == \A p : \A c \in Calls : Claims(p)[c] \in Nat /\ Claims(p)'[c] \in Nat
<1> TAKE p
<1> TAKE c \in Calls
<1>1. Claims(p)[c] = IF Same(c, p) THEN Weight(call[c], rail[c], c \in late) ELSE 0
  BY DEF Claims
<1>2. Claims(p)'[c] = IF Same(c, p) THEN Weight(call'[c], rail'[c], c \in late') ELSE 0
  BY DEF Claims
<1> QED BY <1>1, <1>2, WeightNat

LEMMA ExcusedNat ==
    ASSUME CallInv
    PROVE  \A p : IsFiniteSet(UnsureOf(p)) /\ Excused(p) \in Nat
<1> TAKE p
<1>1. IsFiniteSet(Calls) /\ UnsureOf(p) \subseteq Calls
  BY BridgeAssumption DEF CallInv, UnsureOf
<1>2. IsFiniteSet(UnsureOf(p))
  BY <1>1, FS_Subset
<1> QED BY <1>2, FS_CardinalityType DEF Excused

LEMMA ExcusedSame == ASSUME unsure' = unsure PROVE \A p : Excused(p)' = Excused(p)
BY DEF Excused, UnsureOf

\* One call may come to claim k more of its class if the class gains k entries.
LEMMA ClaimsMove ==
    ASSUME CallInv, ClaimsCovered, unsure' = unsure, NEW c \in Calls,
           NEW k \in {-1, 0, 1}, LogInv, LogInv',
           Stored \/ (k <= 0 /\ UNCHANGED <<spendFile, diskFaults>>),
           (\A o \in Others : rail'[o] = "running") => \A o \in Others : rail[o] = "running",
           \A d \in Calls \ {c} :
              Weight(call'[d], rail'[d], d \in late') <= Weight(call[d], rail[d], d \in late),
           Weight(call'[c], rail'[c], c \in late') <= Weight(call[c], rail[c], c \in late) + k,
           \A p : Cardinality(CountedIn(spend, p)) + (IF Same(c, p) THEN k ELSE 0)
                     <= Cardinality(CountedIn(spend', p))
    PROVE  ClaimsCovered'
<1> SUFFICES ASSUME \A o \in Others : rail'[o] = "running",
                    NEW p \in Calls, NEW s \in {spend', spendFile'.log}
             PROVE  SumFunctionOnSet(Claims(p)', Calls)
                       <= Cardinality(CountedIn(s, p)) + diskFaults' + Excused(p)'
  BY DEF ClaimsCovered
<1> DEFINE f == Claims(p)
           g == Claims(p)'
           j == IF Same(c, p) THEN k ELSE 0
           here  == Cardinality(CountedIn(spend, p))
           there == Cardinality(CountedIn(spendFile.log, p))
           e     == Excused(p)
<1>1. IsFiniteSet(Calls) /\ j \in Int /\ j <= 1 /\ (k <= 0 => j <= 0)
  BY BridgeAssumption
<1>2. \A d \in Calls : f[d] \in Nat /\ g[d] \in Nat
  BY ClaimsNat
<1>3. \A d \in Calls : f[d] \in Int /\ g[d] \in Int
  BY <1>2
<1>4. ASSUME NEW d \in Calls
      PROVE  /\ f[d] = IF Same(d, p) THEN Weight(call[d], rail[d], d \in late) ELSE 0
             /\ g[d] = IF Same(d, p) THEN Weight(call'[d], rail'[d], d \in late') ELSE 0
  BY DEF Claims
<1>5. \A d \in Calls \ {c} : g[d] <= f[d]
  BY <1>4
<1>6. g[c] <= f[c] + j
  <2>1. CASE Same(c, p)
    BY <1>4, <2>1
  <2>2. CASE ~Same(c, p)
    BY <1>4, <2>2
  <2> QED BY <2>1, <2>2
<1>7. /\ SumFunctionOnSet(f, Calls) <= here + diskFaults + e
      /\ SumFunctionOnSet(f, Calls) <= there + diskFaults + e
  BY DEF ClaimsCovered
<1>8. here + j <= Cardinality(CountedIn(spend', p))
  OBVIOUS
<1>9. /\ here \in Nat /\ there \in Nat /\ Cardinality(CountedIn(spend', p)) \in Nat
      /\ diskFaults \in Nat /\ diskFaults' \in Nat /\ e \in Nat /\ Excused(p)' = e
  <2>1. /\ spend \in Seq(Entries) /\ spend' \in Seq(Entries)
        /\ spendFile.log \in Seq(Entries)
    BY DEF LogInv, SoundLog
  <2> QED BY <2>1, CountedFinite, ExcusedNat, ExcusedSame DEF LogInv
<1> HIDE DEF f, g, j, here, there, e
<1>10. SumFunctionOnSet(g, Calls) <= SumFunctionOnSet(f, Calls) + j
  BY <1>1, <1>3, <1>5, <1>6, SumAtMost
<1>11. SumFunctionOnSet(f, Calls) \in Int /\ SumFunctionOnSet(g, Calls) \in Int
  BY <1>1, <1>3, SumInt
<1>12. diskFaults <= diskFaults' /\ (diskFaults' = diskFaults \/ diskFaults' = diskFaults + 1)
  BY <1>9 DEF Stored
<1>13. SumFunctionOnSet(g, Calls) <= Cardinality(CountedIn(spend', p)) + diskFaults' + e
  BY <1>1, <1>7, <1>8, <1>9, <1>10, <1>11, <1>12
<1>14. CASE spendFile' = [log |-> spend', dropped |-> dropped']
  <2>1. s = spend'
    BY <1>14
  <2> QED BY <1>9, <1>13, <2>1 DEF g
<1>15. CASE spendFile' = spendFile /\ diskFaults' = diskFaults + 1
  <2>1. SumFunctionOnSet(g, Calls) <= there + diskFaults' + e
    BY <1>1, <1>7, <1>9, <1>10, <1>11, <1>15
  <2>2. SumFunctionOnSet(g, Calls) <= Cardinality(CountedIn(spendFile'.log, p)) + diskFaults' + e
    BY <1>15, <2>1 DEF there
  <2> QED BY <1>9, <1>13, <2>2 DEF g
<1>16. CASE spendFile' = spendFile /\ diskFaults' = diskFaults /\ k <= 0
  <2>1. SumFunctionOnSet(g, Calls) <= there + diskFaults' + e
    BY <1>1, <1>7, <1>9, <1>10, <1>11, <1>16
  <2>2. SumFunctionOnSet(g, Calls) <= Cardinality(CountedIn(spendFile'.log, p)) + diskFaults' + e
    BY <1>16, <2>1 DEF there
  <2> QED BY <1>9, <1>13, <2>2 DEF g
<1> QED BY <1>14, <1>15, <1>16 DEF Stored

-----------------------------------------------------------------------------
(* The day's total.                                                        *)

LEMMA TodayFinite ==
    ASSUME NEW s, NEW d, NEW t, SoundLog(s, d, t)
    PROVE  /\ IsFiniteSet(Today(s, d, t)) /\ Today(s, d, t) \subseteq 1..Len(s)
           /\ \A i \in Today(s, d, t) : [n \in DOMAIN s |-> s[n].atoms][i] = s[i].atoms
                                        /\ s[i].atoms \in Nat
           /\ SpentIn(s, d, t) \in Nat
<1>1. s \in Seq(Entries) /\ d \in 0..Len(s) /\ Len(s) \in Nat /\ DOMAIN s = 1..Len(s)
      /\ d \in Nat
  BY DEF SoundLog
<1>2. Today(s, d, t) \subseteq 1..Len(s) /\ IsFiniteSet(1..Len(s))
  BY <1>1, FS_Interval DEF Today
<1>3. IsFiniteSet(Today(s, d, t))
  BY <1>2, FS_Subset
<1>4. ASSUME NEW i \in Today(s, d, t)
      PROVE  /\ [n \in DOMAIN s |-> s[n].atoms][i] = s[i].atoms
             /\ s[i].atoms \in Nat
  <2>1. i \in 1..Len(s)
    BY <1>2
  <2>2. s[i].status # "refused"
    BY DEF Today, countsTowardCap
  <2>3. s[i].atoms \in Int /\ s[i].atoms > 0
    BY <2>1, <2>2, SoundEntry
  <2> QED BY <1>1, <2>1, <2>3
<1> DEFINE f == [n \in DOMAIN s |-> s[n].atoms]
           S == Today(s, d, t)
<1>5. \A i \in S : f[i] \in Nat
  BY <1>4
<1> HIDE DEF f, S
<1>6. SumFunctionOnSet(f, S) \in Nat
  BY <1>3, <1>5, SumNat DEF S
<1>7. SpentIn(s, d, t) \in Nat
  BY <1>6 DEF f, S, SpentIn
<1> QED BY <1>2, <1>3, <1>4, <1>7

\* Fewer entries for the same amounts come to no more.
LEMMA SpendsLess ==
    ASSUME NEW s, NEW d, NEW t, SoundLog(s, d, t), NEW u, NEW e, NEW v, SoundLog(u, e, v),
           Today(u, e, v) \subseteq Today(s, d, t),
           \A i \in Today(u, e, v) : u[i].atoms = s[i].atoms
    PROVE  SpentIn(u, e, v) <= SpentIn(s, d, t)
<1> DEFINE f == [n \in DOMAIN s |-> s[n].atoms]
           g == [n \in DOMAIN u |-> u[n].atoms]
           S == Today(s, d, t)
           U == Today(u, e, v)
<1>1. IsFiniteSet(S) /\ IsFiniteSet(U) /\ U \in SUBSET S
  BY TodayFinite
<1>2. \A i \in S : f[i] = s[i].atoms /\ f[i] \in Nat
  BY TodayFinite
<1>3. \A i \in U : g[i] = u[i].atoms /\ g[i] \in Nat
  <2>1. SoundLog(u, e, v)
    OBVIOUS
  <2> HIDE DEF U, g
  <2>2. \A i \in Today(u, e, v) : [n \in DOMAIN u |-> u[n].atoms][i] = u[i].atoms
                                 /\ u[i].atoms \in Nat
    BY <2>1, TodayFinite
  <2> QED BY <2>2 DEF U, g
<1>4. \A i \in U : g[i] \in Int /\ g[i] = f[i]
  BY <1>1, <1>2, <1>3
<1>5. SpentIn(s, d, t) = SumFunctionOnSet(f, S) /\ SpentIn(u, e, v) = SumFunctionOnSet(g, U)
  BY DEF SpentIn
<1> HIDE DEF f, g, S, U
<1>6. SumFunctionOnSet(g, U) = SumFunctionOnSet(f, U)
  BY <1>1, <1>4, SumSame
<1>7. SumFunctionOnSet(f, U) <= SumFunctionOnSet(f, S)
  BY <1>1, <1>2, SumSubset
<1> QED BY <1>5, <1>6, <1>7

LEMMA SpentIs ==
    /\ SpentToday = SpentIn(spend, dropped, now)
    /\ SpentToday' = SpentIn(spend', dropped', now')
BY DEF SpentToday, SpentIn, Today, InWindow

\* A total that does not grow stays within the cap.
LEMMA WithinLess ==
    ASSUME NEW s, NEW d, NEW t, SoundLog(s, d, t), NEW u, NEW e, NEW v, SoundLog(u, e, v),
           Today(u, e, v) \subseteq Today(s, d, t),
           \A i \in Today(u, e, v) : u[i].atoms = s[i].atoms,
           Within(SpentIn(s, d, t))
    PROVE  Within(SpentIn(u, e, v))
<1> DEFINE a == SpentIn(s, d, t)
           b == SpentIn(u, e, v)
<1>1. b <= a
  BY SpendsLess
<1>2. a \in Nat
  BY TodayFinite
<1>3. b \in Nat
  <2>1. SoundLog(u, e, v)
    OBVIOUS
  <2> QED BY <2>1, TodayFinite
<1> HIDE DEF a, b
<1>4. CASE a = 0
  <2>1. b = 0
    BY <1>1, <1>2, <1>3, <1>4
  <2> QED BY <2>1 DEF Within, b
<1>5. CASE a # 0
  <2>1. PICK p \in Policies : a <= p.perDay
    BY <1>5 DEF Within, a
  <2>2. p.perDay \in Int
    BY BridgeAssumption
  <2>3. b <= p.perDay
    BY <1>1, <1>2, <1>3, <2>1, <2>2
  <2> QED BY <2>3 DEF Within, b
<1> QED BY <1>4, <1>5

\* As time passes, entries leave the day.
LEMMA TodayLater ==
    ASSUME NEW s, NEW d, NEW t \in Nat, NEW u \in Nat, t <= u, SoundLog(s, d, t)
    PROVE  Today(s, d, u) \subseteq Today(s, d, t)
<1> SUFFICES ASSUME NEW i \in Today(s, d, u) PROVE i \in Today(s, d, t)
  OBVIOUS
<1>1. i \in d + 1..Len(s) /\ s[i].ts >= u - Window /\ countsTowardCap(s[i].status)
  BY DEF Today
<1>2. i \in 1..Len(s) /\ Window \in Nat
  <2>1. d \in Nat /\ Len(s) \in Nat
    BY DEF SoundLog
  <2> QED BY <1>1, <2>1, BridgeAssumption
<1>3. s[i].ts \in Nat
  BY <1>2, SoundEntry
<1>4. s[i].ts >= t - Window
  BY <1>1, <1>2, <1>3
<1> QED BY <1>1, <1>4 DEF Today

\* What memory's total does, the file's does too, or stays what it was.
LEMMA CapStored ==
    ASSUME CapInv, LogInv, LogInv', now <= now',
           Stored \/ UNCHANGED <<spendFile, diskFaults>>,
           raced => raced', revived => revived',
           ~raced' /\ ~revived' => Within(SpentIn(spend', dropped', now'))
    PROVE  CapInv'
<1> SUFFICES ASSUME ~raced', ~revived'
             PROVE  Within(SpentIn(spendFile'.log, spendFile'.dropped, now'))
  BY DEF CapInv
<1>1. Within(SpentIn(spendFile.log, spendFile.dropped, now))
  BY DEF CapInv
<1>2. CASE spendFile' = [log |-> spend', dropped |-> dropped']
  BY <1>2
<1>3. CASE spendFile' = spendFile
  <2> DEFINE s == spendFile.log
             d == spendFile.dropped
  <2>1. SoundLog(s, d, now) /\ SoundLog(s, d, now') /\ now \in Nat /\ now' \in Nat
    BY <1>3 DEF LogInv
  <2> HIDE DEF s, d
  <2>2. Today(s, d, now') \subseteq Today(s, d, now)
    BY <2>1, TodayLater
  <2>3. Within(SpentIn(s, d, now'))
    BY <1>1, <2>1, <2>2, WithinLess DEF s, d
  <2> QED BY <1>3, <2>3 DEF s, d
<1> QED BY <1>2, <1>3 DEF Stored

\* While the totals do not grow they stay within the cap.
LEMMA CapKept ==
    ASSUME CapInv, LogInv, LogInv', now <= now',
           Stored \/ UNCHANGED <<spendFile, diskFaults>>,
           raced => raced', revived => revived',
           ~raced' /\ ~revived' =>
              /\ Today(spend', dropped', now') \subseteq Today(spend, dropped, now)
              /\ \A i \in Today(spend', dropped', now') : spend'[i].atoms = spend[i].atoms
    PROVE  CapInv'
<1>1. ASSUME ~raced', ~revived' PROVE Within(SpentIn(spend', dropped', now'))
  <2>1. Within(SpentIn(spend, dropped, now))
    BY <1>1 DEF CapInv
  <2>2. SoundLog(spend, dropped, now) /\ SoundLog(spend', dropped', now')
    BY DEF LogInv
  <2> QED BY <1>1, <2>1, <2>2, WithinLess
<1> QED BY <1>1, CapStored

-----------------------------------------------------------------------------
(* The steps of a call.                                                    *)

LEMMA MovesOnly ==
    ASSUME CallInv, NEW c \in Calls, NEW b \in CallStates, call' = [call EXCEPT ![c] = b]
    PROVE  call'[c] = b /\ \A d \in Calls \ {c} : call'[d] = call[d]
<1>1. call \in [Calls -> CallStates]
  BY DEF CallInv
<1> QED BY <1>1

\* One call moves to b, and comes to claim k entries more.
LEMMA Move ==
    ASSUME BridgeInv, LogInv', NEW c \in Calls, NEW b \in CallStates, NEW k \in {-1, 0, 1},
           call' = [call EXCEPT ![c] = b],
           settings' = settings, rail' = rail, late' = late, unsure' = unsure,
           Stored \/ (k <= 0 /\ UNCHANGED <<spendFile, diskFaults>>),
           raced' \in BOOLEAN, revived' \in BOOLEAN, spendSeq <= spendSeq',
           \A d \in Calls \ {c} : call[d].pc \in Paying /\ Owns(d, call[d].seq, spend)
                                     => Owns(d, call[d].seq, spend'),
           Knows(c, b, rail[c], spendSeq', spend'),
           WaiterInv', CapInv',
           b.pc \in {"parked", "launch"} =>
              \E s \in Policies : b.spent + Atoms(c) <= s.perDay,
           Weight(b, rail[c], c \in late) <= Weight(call[c], rail[c], c \in late) + k,
           \A p : Cardinality(CountedIn(spend, p)) + (IF Same(c, p) THEN k ELSE 0)
                     <= Cardinality(CountedIn(spend', p))
    PROVE  BridgeInv'
<1>0. LogInv /\ CallInv /\ ClaimsCovered /\ Checked
  BY DEF BridgeInv
<1>1. spendSeq' \in Nat
  BY DEF LogInv
<1>2. CallInv' /\ call'[c] = b /\ \A d \in Calls \ {c} : call'[d] = call[d]
  BY <1>0, <1>1, CallMoves
<1>3. Checked'
  <2>1. ASSUME NEW d \in Calls, call'[d].pc \in {"parked", "launch"}
        PROVE  \E s \in Policies : call'[d].spent + Atoms(d) <= s.perDay
    <3>1. CASE d = c
      BY <1>2, <2>1, <3>1
    <3>2. CASE d # c
      BY <1>0, <1>2, <2>1, <3>2 DEF Checked
    <3> QED BY <3>1, <3>2
  <2> QED BY <2>1 DEF Checked
<1>4. ClaimsCovered'
  <2>1. ASSUME NEW d \in Calls \ {c}
        PROVE  Weight(call'[d], rail'[d], d \in late') <= Weight(call[d], rail[d], d \in late)
    <3>1. Weight(call'[d], rail'[d], d \in late') = Weight(call[d], rail[d], d \in late)
      BY <1>2
    <3>2. Weight(call[d], rail[d], d \in late) \in Nat
      BY WeightNat
    <3> QED BY <3>1, <3>2
  <2>2. Weight(call'[c], rail'[c], c \in late') <= Weight(call[c], rail[c], c \in late) + k
    BY <1>2
  <2> QED BY <1>0, <2>1, <2>2, ClaimsMove
<1> QED BY <1>2, <1>3, <1>4 DEF BridgeInv

LEMMA QuietCap ==
    ASSUME LogInv, CapInv, Quiet, raced' = raced, revived' = revived
    PROVE  CapInv'
<1>1. LogInv' /\ now <= now' /\ UNCHANGED <<spendFile, diskFaults>>
  <2>1. now \in Nat /\ now' = now /\ UNCHANGED <<spendFile, diskFaults>>
    BY DEF LogInv, Quiet
  <2> QED BY <2>1, QuietLog
<1>2. spend' = spend /\ dropped' = dropped /\ now' = now
  BY DEF Quiet
<1>3. Today(spend', dropped', now') = Today(spend, dropped, now)
  BY <1>2
<1>4. \A i \in Today(spend', dropped', now') : spend'[i].atoms = spend[i].atoms
  BY <1>2
<1> QED BY <1>1, <1>3, <1>4, CapKept

\* Such a step that logs nothing.
LEMMA QuietMove ==
    ASSUME BridgeInv, Quiet, NEW c \in Calls, NEW b \in CallStates,
           call' = [call EXCEPT ![c] = b],
           settings' = settings, rail' = rail, late' = late, raced' = raced,
           revived' = revived, unsure' = unsure,
           Knows(c, b, rail[c], spendSeq, spend), WaiterInv',
           b.pc \in {"parked", "launch"} =>
              \E s \in Policies : b.spent + Atoms(c) <= s.perDay,
           Weight(b, rail[c], c \in late) <= Weight(call[c], rail[c], c \in late)
    PROVE  BridgeInv'
<1>0. LogInv /\ CapInv /\ CallInv
  BY DEF BridgeInv
<1>1. LogInv' /\ CapInv'
  BY <1>0, QuietLog, QuietCap
<1>2. spend' = spend /\ spendSeq' = spendSeq /\ UNCHANGED <<spendFile, diskFaults>>
  BY DEF Quiet
<1>3. spendSeq <= spendSeq' /\ spend \in Seq(Entries)
  BY <1>0, <1>2 DEF LogInv, SoundLog
<1>4. raced' \in BOOLEAN /\ revived' \in BOOLEAN
  BY <1>0 DEF CallInv
<1>5. Knows(c, b, rail[c], spendSeq', spend')
  BY <1>2
<1>6. \A d \in Calls \ {c} : call[d].pc \in Paying /\ Owns(d, call[d].seq, spend)
                                => Owns(d, call[d].seq, spend')
  BY <1>2
<1>7. \A p : Cardinality(CountedIn(spend, p)) + (IF Same(c, p) THEN 0 ELSE 0)
                <= Cardinality(CountedIn(spend', p))
  <2> TAKE p
  <2>1. Cardinality(CountedIn(spend, p)) \in Nat
    BY <1>3, CountedFinite
  <2>2. Cardinality(CountedIn(spend', p)) = Cardinality(CountedIn(spend, p))
    BY <1>2
  <2> QED BY <2>1, <2>2
<1>8. Weight(b, rail[c], c \in late) <= Weight(call[c], rail[c], c \in late) + 0
  BY WeightNat
<1>9. Stored \/ (0 <= 0 /\ UNCHANGED <<spendFile, diskFaults>>)
  BY <1>2
<1> QED BY <1>1, <1>3, <1>4, <1>5, <1>6, <1>7, <1>8, <1>9, Move

LEMMA SettleKeeps ==
    ASSUME BridgeInv, NEW c \in Calls, Settle(c) PROVE BridgeInv'
<1> DEFINE next == IF Atoms(c) <= 0 THEN "done"
                   ELSE IF OverCap(c) THEN "refuse"
                   ELSE IF settings.mode = "approval" THEN "parked" ELSE "launch"
           b == [call[c] EXCEPT !.pc = next, !.spent = SpentToday]
<1>0. LogInv /\ CallInv /\ WaiterInv /\ call[c] \in CallStates
  BY DEF BridgeInv, CallInv
<1>1. /\ call[c].pc = "new" /\ call' = [call EXCEPT ![c] = b]
      /\ UNCHANGED <<settings, log, waiters, rail, late, now, crashes, raced, revived, unsure>>
  BY DEF Settle, At
<1>2. SpentToday \in Nat
  <2>1. SoundLog(spend, dropped, now)
    BY <1>0 DEF LogInv
  <2>2. SpentIn(spend, dropped, now) \in Nat
    BY <2>1, TodayFinite
  <2> QED BY <2>2, SpentIs
<1>3. next \in {"done", "refuse", "parked", "launch"}
  OBVIOUS
<1>4. next # "done" => Atoms(c) > 0
  BY AtomsInt
<1>5. next \in {"parked", "launch"} =>
         \E s \in Policies : SpentToday + Atoms(c) <= s.perDay
  <2>1. next \in {"parked", "launch"} => ~OverCap(c)
    OBVIOUS
  <2>2. settings \in Policies /\ settings.perDay \in Int /\ Atoms(c) \in Int
    BY <1>0, AtomsInt, BridgeAssumption DEF CallInv
  <2>3. ~OverCap(c) => SpentToday + Atoms(c) <= settings.perDay
    BY <1>2, <2>2 DEF OverCap
  <2> QED BY <2>1, <2>2, <2>3
<1> HIDE DEF next
<1>6. /\ b \in CallStates /\ b.pc = next /\ b.spent = SpentToday /\ b.seq = call[c].seq
      /\ b.result = call[c].result
  <2> DEFINE x == SpentToday
  <2>1. x \in Int
    BY <1>2
  <2> HIDE DEF x
  <2>2. [call[c] EXCEPT !.pc = next, !.spent = x] \in CallStates
    BY <1>0, <1>3, <2>1 DEF CallStates
  <2>3. /\ [call[c] EXCEPT !.pc = next, !.spent = x].pc = next
        /\ [call[c] EXCEPT !.pc = next, !.spent = x].spent = x
        /\ [call[c] EXCEPT !.pc = next, !.spent = x].seq = call[c].seq
        /\ [call[c] EXCEPT !.pc = next, !.spent = x].result = call[c].result
    BY <1>0 DEF CallStates
  <2> QED BY <2>2, <2>3 DEF x
<1> HIDE DEF b
<1>7. Quiet
  BY <1>1 DEF Quiet, log
<1>8. rail[c] = "none" /\ call[c].result = "none" /\ b.pc = next /\ b.pc \notin Paying
  BY <1>0, <1>1, <1>3, <1>6 DEF CallInv, Knows, Unpaid, Paying
<1>9. Knows(c, b, rail[c], spendSeq, spend)
  BY <1>3, <1>4, <1>6, <1>8 DEF Knows
<1>10. WaiterInv'
  BY <1>0, <1>1, <1>6, MovesOnly, WaitersKept
<1>11. Weight(b, rail[c], c \in late) <= Weight(call[c], rail[c], c \in late)
  BY <1>1, <1>3, <1>8 DEF Weight, TipOut, FailureHeld
<1>12. b.pc \in {"parked", "launch"} => \E s \in Policies : b.spent + Atoms(c) <= s.perDay
  BY <1>5, <1>6
<1> QED BY <1>1, <1>6, <1>7, <1>9, <1>10, <1>11, <1>12, QuietMove

\* The decision is all that ResolvePayment changes.
LEMMA ResolvePaymentKeeps ==
    ASSUME BridgeInv, NEW c \in Calls, NEW d \in {"approve", "deny"}, ResolvePayment(c, d)
    PROVE  BridgeInv'
<1> DEFINE b == [call[c] EXCEPT !.decision = d]
<1>0. LogInv /\ CallInv /\ WaiterInv /\ call[c] \in CallStates
  BY DEF BridgeInv, CallInv
<1>1. /\ call[c].pc = "parked" /\ call' = [call EXCEPT ![c] = b]
      /\ UNCHANGED <<settings, log, waiters, rail, late, now, crashes, raced, revived, unsure>>
  BY DEF ResolvePayment, At
<1>2. /\ b \in CallStates /\ b.pc = call[c].pc /\ b.spent = call[c].spent
      /\ b.seq = call[c].seq /\ b.result = call[c].result
  BY <1>0 DEF CallStates
<1> HIDE DEF b
<1>3. Quiet
  BY <1>1 DEF Quiet, log
<1>4. Knows(c, call[c], rail[c], spendSeq, spend)
  BY <1>0 DEF CallInv
<1>5. Knows(c, b, rail[c], spendSeq, spend)
  BY <1>2, <1>4 DEF Knows
<1>6. WaiterInv'
  BY <1>0, <1>1, <1>2, MovesOnly, WaitersKept
<1>7. Weight(b, rail[c], c \in late) <= Weight(call[c], rail[c], c \in late)
  BY <1>2 DEF Weight, TipOut, FailureHeld
<1>8. b.pc \in {"parked", "launch"} => \E s \in Policies : b.spent + Atoms(c) <= s.perDay
  BY <1>1, <1>2 DEF BridgeInv, Checked
<1> QED BY <1>1, <1>2, <1>3, <1>5, <1>6, <1>7, <1>8, QuietMove

\* A parked call goes on to the launch or to a refusal.
LEMMA AwaitKeeps ==
    ASSUME BridgeInv, NEW c \in Calls, awaitApproval(c) PROVE BridgeInv'
<1>0. LogInv /\ CallInv /\ WaiterInv
  BY DEF BridgeInv
<1>1. PICK x \in {"launch", "refuse"} : Goto(c, x)
  BY DEF awaitApproval
<1>2. /\ call[c].pc = "parked"
      /\ UNCHANGED <<settings, log, waiters, rail, late, now, crashes, raced, revived, unsure>>
  BY DEF awaitApproval, At
<1>3. PICK b \in CallStates : /\ call' = [call EXCEPT ![c] = b]
                              /\ b.pc = x /\ b.seq = call[c].seq /\ b.spent = call[c].spent
                              /\ b.result = call[c].result
  BY <1>0, <1>1, GoesTo DEF Unpaid
<1>4. Quiet
  BY <1>2 DEF Quiet, log
<1>5. Knows(c, call[c], rail[c], spendSeq, spend)
  BY <1>0 DEF CallInv
<1>6. Knows(c, b, rail[c], spendSeq, spend)
  BY <1>2, <1>3, <1>5 DEF Knows, Unpaid, Paying
<1>7. WaiterInv'
  BY <1>0, <1>2, <1>3, MovesOnly, WaitersKept
<1>8. Weight(b, rail[c], c \in late) <= Weight(call[c], rail[c], c \in late)
  BY <1>2, <1>3 DEF Weight, TipOut, FailureHeld
<1>9. b.pc \in {"parked", "launch"} => \E s \in Policies : b.spent + Atoms(c) <= s.perDay
  BY <1>2, <1>3 DEF BridgeInv, Checked
<1> QED BY <1>2, <1>3, <1>4, <1>6, <1>7, <1>8, <1>9, QuietMove

\* The new waiter did not wait before.
LEMMA ExpectKeeps ==
    ASSUME BridgeInv, NEW c \in Calls, Expect(c) PROVE BridgeInv'
<1>0. LogInv /\ CallInv /\ WaiterInv
  BY DEF BridgeInv
<1>1. /\ call[c].pc = "expect" /\ Goto(c, "tip") /\ waiters' = Append(waiters, c)
      /\ UNCHANGED <<settings, log, rail, late, now, crashes, raced, revived, unsure>>
  BY DEF Expect, At
<1>2. PICK b \in CallStates : /\ call' = [call EXCEPT ![c] = b]
                              /\ b.pc = "tip" /\ b.seq = call[c].seq
                              /\ b.spent = call[c].spent /\ b.result = call[c].result
  BY <1>0, <1>1, GoesTo DEF Unpaid
<1>3. Quiet
  BY <1>1 DEF Quiet, log
<1>4. Knows(c, call[c], rail[c], spendSeq, spend)
  BY <1>0 DEF CallInv
<1>5. Knows(c, b, rail[c], spendSeq, spend) /\ b.result = "none"
  BY <1>1, <1>2, <1>4 DEF Knows, Unpaid, Paying
<1>6. WaiterInv'
  <2>1. waiters \in Seq(Calls) /\ IsInjective(waiters) /\ Len(waiters) \in Nat
    BY <1>0 DEF WaiterInv
  <2>2. call'[c] = b /\ \A d \in Calls \ {c} : call'[d] = call[d]
    BY <1>0, <1>2, MovesOnly
  <2>3. ASSUME NEW i \in 1..Len(waiters)
        PROVE  /\ waiters[i] # c /\ call'[waiters[i]].pc \in {"tip", "wait"}
               /\ call'[waiters[i]].result = "none"
    <3>1. /\ waiters[i] \in Calls /\ call[waiters[i]].pc \in {"tip", "wait"}
          /\ call[waiters[i]].result = "none"
      BY <1>0 DEF WaiterInv
    <3>2. waiters[i] # c
      BY <1>1, <3>1
    <3> QED BY <2>2, <3>1, <3>2
  <2> DEFINE s == Append(waiters, c)
  <2>4. /\ s \in Seq(Calls) /\ Len(s) = Len(waiters) + 1 /\ DOMAIN s = 1..Len(waiters) + 1
        /\ s[Len(waiters) + 1] = c
        /\ \A i \in 1..Len(waiters) : s[i] = waiters[i]
    BY <2>1
  <2> HIDE DEF s
  <2>5. \A i \in 1..Len(waiters) + 1 : i = Len(waiters) + 1 \/ i \in 1..Len(waiters)
    BY <2>1
  <2>6. IsInjective(s)
    <3> SUFFICES ASSUME NEW i \in 1..Len(waiters) + 1, NEW j \in 1..Len(waiters) + 1,
                        s[i] = s[j]
                 PROVE  i = j
      BY <2>4 DEF IsInjective
    <3>1. CASE i \in 1..Len(waiters) /\ j \in 1..Len(waiters)
      <4>1. waiters[i] = waiters[j] /\ DOMAIN waiters = 1..Len(waiters)
        BY <2>1, <2>4, <3>1
      <4> QED BY <2>1, <3>1, <4>1 DEF IsInjective
    <3>2. CASE i \in 1..Len(waiters) /\ j \notin 1..Len(waiters)
      <4>1. s[i] # c /\ s[j] = c
        BY <2>3, <2>4, <2>5, <3>2
      <4> QED BY <4>1
    <3>3. CASE i \notin 1..Len(waiters) /\ j \in 1..Len(waiters)
      <4>1. s[j] # c /\ s[i] = c
        BY <2>3, <2>4, <2>5, <3>3
      <4> QED BY <4>1
    <3>4. CASE i \notin 1..Len(waiters) /\ j \notin 1..Len(waiters)
      BY <2>5, <3>4
    <3> QED BY <3>1, <3>2, <3>3, <3>4
  <2>7. ASSUME NEW i \in 1..Len(s)
        PROVE  call'[s[i]].pc \in {"tip", "wait"} /\ call'[s[i]].result = "none"
    <3>1. CASE i \in 1..Len(waiters)
      BY <2>3, <2>4, <3>1
    <3>2. CASE i \notin 1..Len(waiters)
      <4>1. s[i] = c
        BY <2>4, <2>5, <3>2
      <4> QED BY <1>2, <1>5, <2>2, <4>1
    <3> QED BY <3>1, <3>2
  <2>8. waiters' = s
    BY <1>1 DEF s
  <2> QED BY <2>4, <2>6, <2>7, <2>8 DEF WaiterInv
<1>7. Weight(b, rail[c], c \in late) <= Weight(call[c], rail[c], c \in late)
  BY <1>1, <1>2, <1>5 DEF Weight, TipOut, FailureHeld
<1> QED BY <1>1, <1>2, <1>3, <1>5, <1>6, <1>7, QuietMove

\* A tip that was not sent is a failure of the call's own.
LEMMA RefusedUnsent ==
    ASSUME BridgeInv, NEW c \in Calls, TipRefused(c), UNCHANGED <<rail, unsure>>
    PROVE  BridgeInv'
<1>0. LogInv /\ CallInv /\ WaiterInv
  BY DEF BridgeInv
<1>1. /\ call[c].pc = "tip" /\ Goto(c, "failed") /\ Cancel(c)
      /\ UNCHANGED <<settings, log, rail, late, now, crashes, raced, revived, unsure>>
  BY DEF TipRefused, At
<1>2. PICK b \in CallStates : /\ call' = [call EXCEPT ![c] = b]
                              /\ b.pc = "failed" /\ b.seq = call[c].seq
                              /\ b.spent = call[c].spent /\ b.result = call[c].result
  BY <1>0, <1>1, GoesTo DEF Paying
<1>3. Quiet
  BY <1>1 DEF Quiet, log
<1>4. Knows(c, call[c], rail[c], spendSeq, spend)
  BY <1>0 DEF CallInv
<1>5. Knows(c, b, rail[c], spendSeq, spend) /\ rail[c] = "none"
  BY <1>1, <1>2, <1>4 DEF Knows, Unpaid, Paying
<1>6. WaiterInv'
  BY <1>0, <1>1, <1>2, MovesOnly, WaitersCancelled
<1>7. Weight(b, rail[c], c \in late) <= Weight(call[c], rail[c], c \in late)
  BY <1>1, <1>2, <1>5 DEF Weight, TipOut, FailureHeld
<1> QED BY <1>1, <1>2, <1>3, <1>5, <1>6, <1>7, QuietMove

\* Pay returns the outcome it was given.
LEMMA PayReturnsKeeps ==
    ASSUME BridgeInv, NEW c \in Calls, PayReturns(c) PROVE BridgeInv'
<1>0. LogInv /\ CallInv /\ WaiterInv /\ call[c] \in CallStates
  BY DEF BridgeInv, CallInv
<1>1. /\ call[c].pc = "wait" /\ Goto(c, call[c].result) /\ call[c].result # "none"
      /\ UNCHANGED <<settings, log, waiters, rail, late, now, crashes, raced, revived, unsure>>
  BY DEF PayReturns, At
<1>2. call[c].result \in {"paid", "failed"}
  BY <1>0, <1>1 DEF CallStates
<1>3. PICK b \in CallStates : /\ call' = [call EXCEPT ![c] = b]
                              /\ b.pc = call[c].result /\ b.seq = call[c].seq
                              /\ b.spent = call[c].spent /\ b.result = call[c].result
  BY <1>0, <1>1, <1>2, GoesTo DEF Paying
<1>4. Quiet
  BY <1>1 DEF Quiet, log
<1>5. Knows(c, call[c], rail[c], spendSeq, spend)
  BY <1>0 DEF CallInv
<1>6. Knows(c, b, rail[c], spendSeq, spend)
  BY <1>1, <1>2, <1>3, <1>5 DEF Knows, Unpaid, Paying
<1>7. WaiterInv'
  BY <1>0, <1>1, <1>3, MovesOnly, WaitersKept
<1>8. Weight(b, rail[c], c \in late) <= Weight(call[c], rail[c], c \in late)
  BY <1>1, <1>2, <1>3 DEF Weight, TipOut, FailureHeld
<1>9. b.pc \notin {"parked", "launch"}
  BY <1>2, <1>3
<1> QED BY <1>1, <1>3, <1>4, <1>6, <1>7, <1>8, <1>9, QuietMove

\* Pay gives up; an outcome of the same instant is forwarded.
LEMMA PayExpiresKeeps ==
    ASSUME BridgeInv, NEW c \in Calls, PayExpires(c) PROVE BridgeInv'
<1>0. LogInv /\ CallInv /\ WaiterInv
  BY DEF BridgeInv
<1> DEFINE x == IF call[c].result = "none" THEN "done" ELSE "forward"
<1>1. /\ call[c].pc = "wait" /\ Goto(c, x) /\ Cancel(c)
      /\ UNCHANGED <<settings, log, rail, late, now, crashes, raced, revived, unsure>>
  BY DEF PayExpires, At
<1>2. /\ x \in {"done", "forward"} /\ (x = "forward" => call[c].result # "none")
      /\ (x = "done" => call[c].result = "none")
  OBVIOUS
<1> HIDE DEF x
<1>3. PICK b \in CallStates : /\ call' = [call EXCEPT ![c] = b]
                              /\ b.pc = x
                              /\ x # "done" => /\ b.seq = call[c].seq
                                               /\ b.spent = call[c].spent
                                               /\ b.result = call[c].result
  BY <1>0, <1>1, <1>2, GoesTo DEF Paying
<1>4. Quiet
  BY <1>1 DEF Quiet, log
<1>5. Knows(c, call[c], rail[c], spendSeq, spend)
  BY <1>0 DEF CallInv
<1>6. Knows(c, b, rail[c], spendSeq, spend)
  BY <1>1, <1>2, <1>3, <1>5 DEF Knows, Unpaid, Paying
<1>7. WaiterInv'
  BY <1>0, <1>1, <1>3, MovesOnly, WaitersCancelled
<1>8. Weight(b, rail[c], c \in late) <= Weight(call[c], rail[c], c \in late)
  BY <1>1, <1>2, <1>3 DEF Weight, TipOut, FailureHeld
<1> QED BY <1>1, <1>2, <1>3, <1>4, <1>6, <1>7, <1>8, QuietMove

\* A call that ends marks an entry of its own payee and amount.
LEMMA MarkMove ==
    ASSUME BridgeInv, NEW c \in Calls, NEW b \in CallStates,
           call' = [call EXCEPT ![c] = b], b.pc = "done",
           call[c].pc \in {"forward", "failed", "paid"},
           settings' = settings, rail' = rail, late' = late, waiters' = waiters,
           now' = now, raced' = raced, unsure' = unsure,
           revived' \in BOOLEAN, revived => revived',
           NEW j \in 1..Len(spend), NEW x \in {"paid", "failed"}, Marks(j, x),
           spend[j].bot = BotOf[c], spend[j].atoms = Atoms(c),
           x = "paid" => revived' \/ spend[j].status # "failed",
           x = "failed" => FailureHeld(call[c])
    PROVE  BridgeInv'
<1>0. LogInv /\ CallInv /\ WaiterInv /\ CapInv
  BY DEF BridgeInv
<1>1. /\ LogInv' /\ Len(spend') = Len(spend)
      /\ dropped' \in dropped..Len(spend) /\ Stored
      /\ \A i \in 1..Len(spend) :
            /\ i # j => spend'[i] = spend[i]
            /\ spend'[i].bot = spend[i].bot /\ spend'[i].atoms = spend[i].atoms
            /\ spend'[i].ts = spend[i].ts /\ spend'[i].seq = spend[i].seq
      /\ spend'[j].status = x
  BY <1>0, MarkDoes
<1>2. spend \in Seq(Entries) /\ spend' \in Seq(Entries) /\ Len(spend) \in Nat
      /\ dropped \in Nat /\ dropped' \in Nat /\ dropped <= dropped'
      /\ spendSeq \in Nat /\ spendSeq' = spendSeq
  <2>1. spend \in Seq(Entries) /\ spend' \in Seq(Entries) /\ dropped \in Nat /\ Len(spend) \in Nat
    BY <1>0, <1>1 DEF LogInv, SoundLog
  <2> QED BY <1>0, <1>1, <2>1 DEF Marks, LogInv
<1>3. spend[j].status # "refused"
  BY DEF Marks
<1>4. CapInv'
  <2>1. ASSUME ~revived', NEW i \in Today(spend', dropped', now')
        PROVE  i \in Today(spend, dropped, now) /\ spend'[i].atoms = spend[i].atoms
    <3>1. /\ i \in dropped + 1..Len(spend) /\ i \in 1..Len(spend)
          /\ spend'[i].ts >= now - Window /\ countsTowardCap(spend'[i].status)
      <4>1. /\ i \in dropped' + 1..Len(spend') /\ spend'[i].ts >= now' - Window
            /\ countsTowardCap(spend'[i].status)
        BY <2>1 DEF Today
      <4>2. Len(spend') = Len(spend) /\ i \in dropped' + 1..Len(spend)
        BY <1>1, <4>1
      <4>3. i \in dropped + 1..Len(spend) /\ i \in 1..Len(spend)
        <5> DEFINE d == dropped'
        <5>1. d \in Nat /\ dropped \in Nat /\ dropped <= d /\ Len(spend) \in Nat
          BY <1>2
        <5>2. i \in d + 1..Len(spend)
          BY <4>2
        <5> HIDE DEF d
        <5> QED BY <5>1, <5>2
      <4> QED BY <4>1, <4>3
    <3>2. countsTowardCap(spend[i].status)
      <4>1. CASE i = j
        BY <1>1, <1>3, <2>1, <3>1, <4>1 DEF countsTowardCap
      <4>2. CASE i # j
        BY <1>1, <3>1, <4>2
      <4> QED BY <4>1, <4>2
    <3> QED BY <1>1, <3>1, <3>2 DEF Today
  <2>2. now <= now'
    BY <1>0 DEF LogInv
  <2> QED BY <1>0, <1>1, <2>1, <2>2, CapKept
<1>5. WaiterInv'
  BY <1>0, MovesOnly, WaitersKept
<1>6. \A d \in Calls \ {c} : call[d].pc \in Paying /\ Owns(d, call[d].seq, spend)
                                => Owns(d, call[d].seq, spend')
  BY <1>0, OwnsKept
<1>7. Knows(c, call[c], rail[c], spendSeq, spend)
  BY <1>0 DEF CallInv
<1>8. Knows(c, b, rail[c], spendSeq', spend')
  BY DEF Knows, Unpaid, Paying
<1>9. spendSeq <= spendSeq' /\ raced' \in BOOLEAN
  BY <1>0, <1>2 DEF CallInv
<1>10. CASE x = "paid"
  <2>1. \A i \in 1..Len(spend) :
              /\ spend'[i].bot = spend[i].bot /\ spend'[i].atoms = spend[i].atoms
              /\ countsTowardCap(spend[i].status) => countsTowardCap(spend'[i].status)
    <3> TAKE i \in 1..Len(spend)
    <3>1. CASE i = j
      BY <1>1, <1>10, <3>1 DEF countsTowardCap
    <3>2. CASE i # j
      BY <1>1, <3>2
    <3> QED BY <3>1, <3>2
  <2>2. Len(spend) <= Len(spend')
    BY <1>1, <1>2
  <2>3. \A p : Cardinality(CountedIn(spend, p)) <= Cardinality(CountedIn(spend', p))
    BY <1>2, <2>1, <2>2, CountsKept
  <2>4. \A p : Cardinality(CountedIn(spend, p)) + (IF Same(c, p) THEN 0 ELSE 0)
                     <= Cardinality(CountedIn(spend', p))
    <3> TAKE p
    <3>1. Cardinality(CountedIn(spend, p)) \in Nat
      BY <1>2, CountedFinite
    <3> QED BY <2>3, <3>1
  <2>5. Weight(b, rail[c], c \in late) <= Weight(call[c], rail[c], c \in late) + 0
    BY DEF Weight, TipOut, FailureHeld
  <2> QED BY <1>1, <1>4, <1>5, <1>6, <1>8, <1>9, <2>4, <2>5, Move
<1>11. CASE x = "failed"
  <2>1. \A p : Cardinality(CountedIn(spend, p)) - (IF Same(c, p) THEN 1 ELSE 0)
                  <= Cardinality(CountedIn(spend', p))
    BY <1>1, <1>2, CountsLost
  <2>2. \A p : Cardinality(CountedIn(spend, p)) + (IF Same(c, p) THEN -1 ELSE 0)
                     <= Cardinality(CountedIn(spend', p))
    <3> TAKE p
    <3>1. Cardinality(CountedIn(spend, p)) \in Nat
      BY <1>2, CountedFinite
    <3>2. Cardinality(CountedIn(spend, p)) - (IF Same(c, p) THEN 1 ELSE 0)
                  <= Cardinality(CountedIn(spend', p))
      BY <2>1
    <3>3. CASE Same(c, p)
      BY <3>1, <3>2, <3>3
    <3>4. CASE ~Same(c, p)
      BY <3>1, <3>2, <3>4
    <3> QED BY <3>3, <3>4
  <2>3. Weight(b, rail[c], c \in late) <= Weight(call[c], rail[c], c \in late) + -1
    <3>1. FailureHeld(call[c]) /\ ~FailureHeld(b)
      BY <1>11 DEF FailureHeld
    <3>2. TipOut(b, rail[c], c \in late) => TipOut(call[c], rail[c], c \in late)
      BY DEF TipOut
    <3> QED BY <3>1, <3>2 DEF Weight
  <2> QED BY <1>1, <1>4, <1>5, <1>6, <1>8, <1>9, <2>2, <2>3, Move
<1> QED BY <1>10, <1>11

\* A call that ends without writing.
LEMMA EndMove ==
    ASSUME BridgeInv, NEW c \in Calls, NEW b \in CallStates,
           call' = [call EXCEPT ![c] = b], b.pc = "done",
           call[c].pc \in {"forward", "failed", "paid"}, UNCHANGED log, now' = now,
           settings' = settings, rail' = rail, late' = late, waiters' = waiters,
           raced' = raced, revived' = revived, unsure' = unsure
    PROVE  BridgeInv'
<1>0. LogInv /\ CallInv /\ WaiterInv
  BY DEF BridgeInv
<1>1. Quiet
  BY DEF Quiet, log
<1>2. WaiterInv'
  BY <1>0, MovesOnly, WaitersKept
<1>3. Knows(c, b, rail[c], spendSeq, spend)
  BY DEF Knows, Unpaid, Paying
<1>4. Weight(b, rail[c], c \in late) <= Weight(call[c], rail[c], c \in late)
  BY DEF Weight, TipOut, FailureHeld
<1> QED BY <1>1, <1>2, <1>3, <1>4, QuietMove

LEMMA ForwardKeeps ==
    ASSUME BridgeInv, NEW c \in Calls, Forward(c) PROVE BridgeInv'
<1>0. LogInv /\ CallInv /\ call[c] \in CallStates /\ revived \in BOOLEAN
  BY DEF BridgeInv, CallInv
<1> DEFINE ok == call[c].result = "paid"
<1>1. /\ call[c].pc = "forward" /\ Goto(c, "done") /\ ResolveSpend(c, ok)
      /\ UNCHANGED <<settings, waiters, rail, late, now, crashes, raced, revived, unsure>>
  BY DEF Forward, At
<1>2. PICK b \in CallStates : call' = [call EXCEPT ![c] = b] /\ b.pc = "done"
  BY <1>0, <1>1, GoesTo
<1>3. call[c].result \in {"paid", "failed"}
  <2>1. call[c].result # "none"
    BY <1>0, <1>1 DEF CallInv, Knows
  <2> QED BY <1>0, <2>1 DEF CallStates
<1>4. Outcome(ok) = call[c].result
  BY <1>3 DEF Outcome
<1>5. ok \in BOOLEAN
  OBVIOUS
<1> HIDE DEF ok
<1>6. \/ UNCHANGED log
      \/ \E j \in 1..Len(spend) :
            /\ Marks(j, Outcome(ok)) /\ spend[j].status = "pending"
            /\ spend[j].bot = BotOf[c] /\ spend[j].atoms = Atoms(c)
  BY <1>0, <1>1, <1>5, ResolveDoes
<1>7. CASE UNCHANGED log
  BY <1>1, <1>2, <1>7, EndMove
<1>8. CASE \E j \in 1..Len(spend) :
            /\ Marks(j, Outcome(ok)) /\ spend[j].status = "pending"
            /\ spend[j].bot = BotOf[c] /\ spend[j].atoms = Atoms(c)
  <2>1. PICK j \in 1..Len(spend) :
            /\ Marks(j, call[c].result) /\ spend[j].status = "pending"
            /\ spend[j].bot = BotOf[c] /\ spend[j].atoms = Atoms(c)
    BY <1>4, <1>8
  <2>2. call[c].result = "failed" => FailureHeld(call[c])
    BY <1>1 DEF FailureHeld
  <2> QED BY <1>0, <1>1, <1>2, <1>3, <2>1, <2>2, MarkMove
<1> QED BY <1>6, <1>7, <1>8

LEMMA PayFailedKeeps ==
    ASSUME BridgeInv, NEW c \in Calls, PayFailed(c) PROVE BridgeInv'
<1>0. LogInv /\ CallInv /\ revived \in BOOLEAN
  BY DEF BridgeInv, CallInv
<1>1. /\ call[c].pc = "failed" /\ Goto(c, "done")
      /\ markSpend(call[c].seq, "failed") \/ UNCHANGED log
      /\ UNCHANGED <<settings, waiters, rail, late, now, crashes, raced, revived, unsure>>
  BY DEF PayFailed, At
<1>2. PICK b \in CallStates : call' = [call EXCEPT ![c] = b] /\ b.pc = "done"
  BY <1>0, <1>1, GoesTo
<1>3. \/ UNCHANGED log
      \/ \E j \in 1..Len(spend) :
            Marks(j, "failed") /\ spend[j].bot = BotOf[c] /\ spend[j].atoms = Atoms(c)
  BY <1>0, <1>1, MarkSpendDoes DEF Paying
<1>4. FailureHeld(call[c])
  BY <1>1 DEF FailureHeld
<1>5. CASE UNCHANGED log
  BY <1>1, <1>2, <1>5, EndMove
<1>6. CASE \E j \in 1..Len(spend) :
            Marks(j, "failed") /\ spend[j].bot = BotOf[c] /\ spend[j].atoms = Atoms(c)
  <2>1. PICK j \in 1..Len(spend) :
            Marks(j, "failed") /\ spend[j].bot = BotOf[c] /\ spend[j].atoms = Atoms(c)
    BY <1>6
  <2> QED BY <1>0, <1>1, <1>2, <1>4, <2>1, MarkMove
<1> QED BY <1>3, <1>5, <1>6

LEMMA PayDoneKeeps ==
    ASSUME BridgeInv, NEW c \in Calls, PayDone(c) PROVE BridgeInv'
<1>0. LogInv /\ CallInv /\ revived \in BOOLEAN /\ DOMAIN spend = 1..Len(spend)
  BY DEF BridgeInv, CallInv, LogInv, SoundLog
<1>1. /\ call[c].pc = "paid" /\ Goto(c, "done") /\ markSpend(call[c].seq, "paid")
      /\ revived' = (revived \/ \E i \in DOMAIN spend : /\ spend[i].status = "failed"
                                                        /\ spend'[i].status = "paid")
      /\ UNCHANGED <<settings, waiters, rail, late, now, crashes, raced, unsure>>
  BY DEF PayDone, At
<1>2. PICK b \in CallStates : call' = [call EXCEPT ![c] = b] /\ b.pc = "done"
  BY <1>0, <1>1, GoesTo
<1>3. \/ UNCHANGED log
      \/ \E j \in 1..Len(spend) :
            Marks(j, "paid") /\ spend[j].bot = BotOf[c] /\ spend[j].atoms = Atoms(c)
  BY <1>0, <1>1, MarkSpendDoes DEF Paying
<1>4. CASE UNCHANGED log
  <2>1. spend' = spend
    BY <1>4 DEF log
  <2>2. revived' = revived
    BY <1>0, <1>1, <2>1
  <2> QED BY <1>1, <1>2, <1>4, <2>2, EndMove
<1>5. CASE \E j \in 1..Len(spend) :
            Marks(j, "paid") /\ spend[j].bot = BotOf[c] /\ spend[j].atoms = Atoms(c)
  <2>1. PICK j \in 1..Len(spend) :
            Marks(j, "paid") /\ spend[j].bot = BotOf[c] /\ spend[j].atoms = Atoms(c)
    BY <1>5
  <2>2. spend'[j].status = "paid"
    BY <1>0, <1>1, <2>1, MarkDoes
  <2>3. revived' \/ spend[j].status # "failed"
    BY <1>0, <1>1, <2>2
  <2>4. revived' \in BOOLEAN /\ (revived => revived')
    BY <1>1
  <2> QED BY <1>1, <1>2, <2>1, <2>3, <2>4, MarkMove
<1> QED BY <1>3, <1>4, <1>5

\* A refusal counts for nothing.
LEMMA RefuseKeeps ==
    ASSUME BridgeInv, NEW c \in Calls, refuse(c) PROVE BridgeInv'
<1>0. LogInv /\ CallInv /\ WaiterInv /\ CapInv
  BY DEF BridgeInv
<1>1. /\ call[c].pc = "refuse" /\ Goto(c, "done")
      /\ UNCHANGED <<settings, waiters, rail, late, now, crashes, raced, revived, unsure>>
  BY DEF refuse, At
<1>2. PICK b \in CallStates : call' = [call EXCEPT ![c] = b] /\ b.pc = "done"
  BY <1>0, <1>1, GoesTo
<1>3. Logs(c, "refused")
  BY DEF refuse, Logs
<1>4. /\ LogInv' /\ Len(spend') = Len(spend) + 1
      /\ dropped' \in dropped..Len(spend) + 1 /\ Stored
      /\ \A i \in 1..Len(spend) : spend'[i] = spend[i]
      /\ spend'[Len(spend) + 1] = Entry(c, "refused", spendSeq + 1)
  BY <1>0, <1>1, <1>3, LogDoes
<1>5. spend \in Seq(Entries) /\ spend' \in Seq(Entries) /\ Len(spend) \in Nat
      /\ dropped \in Nat /\ dropped' \in Nat /\ dropped <= dropped'
      /\ spendSeq \in Nat /\ spendSeq' = spendSeq + 1 /\ spendSeq <= spendSeq'
  <2>1. spend \in Seq(Entries) /\ spend' \in Seq(Entries) /\ dropped \in Nat /\ Len(spend) \in Nat
    BY <1>0, <1>4 DEF LogInv, SoundLog
  <2>2. spendSeq \in Nat /\ spendSeq' = spendSeq + 1
    BY <1>0, <1>3 DEF Logs, LogInv
  <2> QED BY <1>4, <2>1, <2>2
<1>6. spend'[Len(spend) + 1].status = "refused"
  <2>1. Entry(c, "refused", spendSeq + 1).status = "refused"
    BY DEF Entry
  <2> QED BY <1>4, <2>1
<1>7. CapInv'
  <2>1. ASSUME NEW i \in Today(spend', dropped', now')
        PROVE  i \in Today(spend, dropped, now) /\ spend'[i].atoms = spend[i].atoms
    <3>1. /\ i \in dropped + 1..Len(spend) + 1 /\ spend'[i].ts >= now - Window
          /\ countsTowardCap(spend'[i].status)
      <4>1. /\ i \in dropped' + 1..Len(spend') /\ spend'[i].ts >= now' - Window
            /\ countsTowardCap(spend'[i].status)
        BY <2>1 DEF Today
      <4> DEFINE d == dropped'
                 l == Len(spend')
      <4>2. d \in Nat /\ dropped \in Nat /\ dropped <= d /\ l = Len(spend) + 1
            /\ i \in d + 1..l
        BY <1>4, <1>5, <4>1
      <4> HIDE DEF d, l
      <4>3. i \in dropped + 1..Len(spend) + 1
        BY <1>5, <4>2
      <4> QED BY <1>1, <4>1, <4>3
    <3>2. i # Len(spend) + 1
      BY <1>6, <3>1 DEF countsTowardCap
    <3>3. i \in dropped + 1..Len(spend) /\ i \in 1..Len(spend)
      BY <1>5, <3>1, <3>2
    <3>4. spend'[i] = spend[i]
      BY <1>4, <3>3
    <3> QED BY <3>1, <3>3, <3>4 DEF Today
  <2>2. now <= now'
    BY <1>0, <1>1 DEF LogInv
  <2> QED BY <1>0, <1>1, <1>4, <2>1, <2>2, CapKept
<1>8. WaiterInv'
  BY <1>0, <1>1, <1>2, MovesOnly, WaitersKept
<1>9. \A d \in Calls \ {c} : call[d].pc \in Paying /\ Owns(d, call[d].seq, spend)
                                => Owns(d, call[d].seq, spend')
  <2> TAKE d \in Calls \ {c}
  <2>1. call[d].seq \in Nat /\ (call[d].pc \in Paying => call[d].seq <= spendSeq)
    BY <1>0 DEF CallInv, CallStates, Knows
  <2> QED BY <1>0, <1>1, <1>3, <2>1, KeptLogged
<1>10. Knows(c, b, rail[c], spendSeq', spend')
  BY <1>2 DEF Knows, Unpaid, Paying
<1>11. Weight(b, rail[c], c \in late) <= Weight(call[c], rail[c], c \in late) + 0
  BY <1>1, <1>2 DEF Weight, TipOut, FailureHeld
<1>12. \A p : Cardinality(CountedIn(spend, p)) + (IF Same(c, p) THEN 0 ELSE 0)
                     <= Cardinality(CountedIn(spend', p))
  <2> TAKE p
  <2>1. Cardinality(CountedIn(spend, p)) \in Nat
    BY <1>5, CountedFinite
  <2>2. Len(spend) <= Len(spend')
    BY <1>4, <1>5
  <2>3. Cardinality(CountedIn(spend, p)) <= Cardinality(CountedIn(spend', p))
    BY <1>4, <1>5, <2>2, CountsKept
  <2> QED BY <2>1, <2>3
<1>13. raced' \in BOOLEAN /\ revived' \in BOOLEAN
  BY <1>0, <1>1 DEF CallInv
<1> QED BY <1>1, <1>2, <1>4, <1>5, <1>7, <1>8, <1>9, <1>10, <1>11, <1>12, <1>13, Move

\* One entry more for a atoms brings the total up by no more than that.
LEMMA SpendsMore ==
    ASSUME NEW s, NEW d, NEW t, SoundLog(s, d, t), NEW u, NEW e, NEW v, SoundLog(u, e, v),
           NEW n, n \notin Today(s, d, t), NEW a \in Nat, u[n].atoms = a,
           Today(u, e, v) \subseteq Today(s, d, t) \cup {n},
           \A i \in Today(s, d, t) : u[i].atoms = s[i].atoms
    PROVE  SpentIn(u, e, v) <= SpentIn(s, d, t) + a
<1> DEFINE f == [m \in DOMAIN s |-> s[m].atoms]
           g == [m \in DOMAIN u |-> u[m].atoms]
           S == Today(s, d, t)
           U == Today(u, e, v)
           N == S \cup {n}
           h == [m \in N |-> IF m = n THEN a ELSE s[m].atoms]
<1>1. IsFiniteSet(S) /\ IsFiniteSet(U) /\ U \in SUBSET N /\ n \notin S
  BY TodayFinite
<1>2. IsFiniteSet(N)
  BY <1>1, FS_AddElement
<1>3. \A i \in S : f[i] = s[i].atoms /\ s[i].atoms \in Nat
  BY TodayFinite
<1>4. \A i \in U : g[i] = u[i].atoms /\ g[i] \in Nat
  <2>1. SoundLog(u, e, v)
    OBVIOUS
  <2> HIDE DEF U, g
  <2>2. \A i \in Today(u, e, v) : [m \in DOMAIN u |-> u[m].atoms][i] = u[i].atoms
                                 /\ u[i].atoms \in Nat
    BY <2>1, TodayFinite
  <2> QED BY <2>2 DEF U, g
<1>5. \A i \in N : h[i] \in Nat
  BY <1>3
<1>6. h[n] = a /\ \A i \in S : h[i] = f[i]
  BY <1>1, <1>3
<1>7. \A i \in U : g[i] \in Int /\ g[i] = h[i]
  <2> TAKE i \in U
  <2>1. CASE i = n
    BY <1>4, <1>6, <2>1
  <2>2. CASE i # n
    <3>1. i \in S
      BY <1>1, <2>2
    <3>2. u[i].atoms = s[i].atoms
      BY <3>1
    <3> QED BY <1>3, <1>4, <1>6, <3>1, <3>2
  <2> QED BY <2>1, <2>2
<1>8. SpentIn(s, d, t) = SumFunctionOnSet(f, S) /\ SpentIn(u, e, v) = SumFunctionOnSet(g, U)
  BY DEF SpentIn
<1> DEFINE sumU == SumFunctionOnSet(h, U)
           sumN == SumFunctionOnSet(h, N)
           sumS == SumFunctionOnSet(h, S)
<1>9. /\ sumU = SumFunctionOnSet(g, U)
      /\ sumU <= sumN
      /\ sumN = sumS + h[n]
      /\ sumS = SumFunctionOnSet(f, S)
  <2> HIDE DEF f, g, h, S, U
  <2>5. \A i \in S \cup {n} : h[i] \in Int
    BY <1>5
  <2>0. \A i \in S : h[i] \in Int /\ h[i] = f[i]
    BY <1>6, <2>5
  <2>1. sumU = SumFunctionOnSet(g, U)
    <3>1. IsFiniteSet(U)
      BY <1>1
    <3>2. SumFunctionOnSet(g, U) = SumFunctionOnSet(h, U)
      BY <1>7, <3>1, SumSame
    <3> QED BY <3>2
  <2>2. sumN = sumS + h[n]
    BY <1>1, <2>5, SumAdd
  <2>3. sumS = SumFunctionOnSet(f, S)
    <3>1. IsFiniteSet(S)
      BY <1>1
    <3> QED BY <2>0, <3>1, SumSame
  <2> HIDE DEF N
  <2>4. sumU <= sumN
    BY <1>1, <1>2, <1>5, SumSubset
  <2> QED BY <2>1, <2>2, <2>3, <2>4
<1> HIDE DEF f, g, h, S, U, N, sumU, sumN, sumS
<1> QED BY <1>6, <1>8, <1>9

\* The spend is logged before its tip starts; without a race the total stays
\* below the cap that the call was checked against.
LEMMA RecordKeeps ==
    ASSUME BridgeInv, NEW c \in Calls, recordSpend(c) PROVE BridgeInv'
<1>0. LogInv /\ CallInv /\ WaiterInv /\ CapInv /\ Checked /\ call[c] \in CallStates
  BY DEF BridgeInv, CallInv
<1> DEFINE b == [call[c] EXCEPT !.pc = "expect", !.seq = spendSeq + 1]
           n == Len(spend) + 1
<1>1. /\ call[c].pc = "launch" /\ call' = [call EXCEPT ![c] = b]
      /\ raced' = (raced \/ SpentToday > call[c].spent)
      /\ UNCHANGED <<settings, waiters, rail, late, now, crashes, revived, unsure>>
  BY DEF recordSpend, At
<1>2. Knows(c, call[c], rail[c], spendSeq, spend)
  BY <1>0 DEF CallInv
<1>3. Atoms(c) > 0 /\ Atoms(c) \in Nat /\ rail[c] = "none" /\ call[c].result = "none"
  <2>1. Atoms(c) > 0 /\ Atoms(c) \in Int
    BY <1>1, <1>2, AtomsInt DEF Knows
  <2> QED BY <1>1, <1>2, <2>1 DEF Knows, Unpaid
<1>4. Logs(c, "pending")
  BY <1>3 DEF recordSpend, Logs
<1>5. /\ LogInv' /\ Len(spend') = n
      /\ dropped' \in dropped..n /\ Stored
      /\ \A i \in 1..Len(spend) : spend'[i] = spend[i]
      /\ spend'[n] = Entry(c, "pending", spendSeq + 1)
  BY <1>0, <1>1, <1>4, LogDoes
<1>6. spend \in Seq(Entries) /\ spend' \in Seq(Entries) /\ Len(spend) \in Nat
      /\ dropped \in Nat /\ dropped' \in Nat /\ dropped <= dropped' /\ now \in Nat
      /\ spendSeq \in Nat /\ spendSeq' = spendSeq + 1 /\ spendSeq <= spendSeq'
  <2>1. spend \in Seq(Entries) /\ spend' \in Seq(Entries) /\ dropped \in Nat /\ Len(spend) \in Nat
    BY <1>0, <1>5 DEF LogInv, SoundLog
  <2>2. spendSeq \in Nat /\ spendSeq' = spendSeq + 1 /\ now \in Nat
    BY <1>0, <1>4 DEF Logs, LogInv
  <2> QED BY <1>5, <2>1, <2>2
<1>7. /\ b \in CallStates /\ b.pc = "expect" /\ b.seq = spendSeq + 1
      /\ b.result = call[c].result
  <2> DEFINE q == spendSeq + 1
  <2>1. q \in Nat
    BY <1>6
  <2> HIDE DEF q
  <2>2. [call[c] EXCEPT !.pc = "expect", !.seq = q] \in CallStates
    BY <1>0, <2>1 DEF CallStates
  <2>3. /\ [call[c] EXCEPT !.pc = "expect", !.seq = q].pc = "expect"
        /\ [call[c] EXCEPT !.pc = "expect", !.seq = q].seq = q
        /\ [call[c] EXCEPT !.pc = "expect", !.seq = q].result = call[c].result
    BY <1>0 DEF CallStates
  <2> QED BY <2>2, <2>3 DEF q
<1> HIDE DEF b
<1>8. /\ spend'[n].bot = BotOf[c] /\ spend'[n].atoms = Atoms(c)
      /\ spend'[n].status = "pending" /\ spend'[n].seq = spendSeq + 1
  <2>1. Entry(c, "pending", spendSeq + 1) =
           [bot |-> BotOf[c], atoms |-> Atoms(c), ts |-> now, status |-> "pending",
            seq |-> spendSeq + 1]
    BY DEF Entry
  <2> QED BY <1>5, <2>1
<1>9. CapInv'
  <2>0. now <= now' /\ (raced => raced') /\ (revived => revived')
    <3>1. now <= now'
      BY <1>1, <1>6
    <3>2. revived' = revived /\ (raced => raced')
      BY <1>1, Zenon
    <3> QED BY <3>1, <3>2
  <2> SUFFICES ASSUME ~raced', ~revived' PROVE Within(SpentIn(spend', dropped', now'))
    BY <1>0, <1>5, <2>0, CapStored
  <2> DEFINE x == SpentToday
             y == SpentToday'
  <2>1. ~(x > call[c].spent)
    BY <1>1
  <2>2. SoundLog(spend, dropped, now) /\ SoundLog(spend', dropped', now')
    BY <1>0, <1>5 DEF LogInv
  <2>3. x = SpentIn(spend, dropped, now) /\ y = SpentIn(spend', dropped', now')
    BY SpentIs
  <2> HIDE DEF x, y
  <2>4. x \in Nat /\ y \in Nat
    BY <2>2, <2>3, TodayFinite
  <2>5. call[c].spent \in Int
    BY <1>0 DEF CallStates
  <2>6. x <= call[c].spent
    BY <2>1, <2>4, <2>5
  <2>7. n \notin Today(spend, dropped, now)
    BY <1>6 DEF Today
  <2>8. ASSUME NEW i \in Today(spend', dropped', now')
        PROVE  i \in Today(spend, dropped, now) \cup {n}
    <3>1. /\ i \in dropped + 1..n /\ spend'[i].ts >= now - Window
          /\ countsTowardCap(spend'[i].status)
      <4>1. /\ i \in dropped' + 1..Len(spend') /\ spend'[i].ts >= now' - Window
            /\ countsTowardCap(spend'[i].status)
        BY <2>8 DEF Today
      <4>2. Len(spend') = n /\ now' = now /\ n \in Nat
        BY <1>1, <1>5, <1>6
      <4>3. i \in dropped' + 1..n
        BY <4>1, <4>2
      <4>4. i \in dropped + 1..n
        <5> DEFINE d == dropped'
        <5>1. dropped \in Nat /\ d \in Nat /\ dropped <= d /\ n \in Nat /\ i \in d + 1..n
          BY <1>6, <4>2, <4>3
        <5> HIDE DEF d, n
        <5> QED BY <5>1
      <4> QED BY <4>1, <4>2, <4>4
    <3>2. CASE i # n
      <4>1. i \in dropped + 1..Len(spend) /\ i \in 1..Len(spend)
        BY <1>6, <3>1, <3>2
      <4>2. spend'[i] = spend[i]
        BY <1>5, <4>1
      <4> QED BY <3>1, <4>1, <4>2 DEF Today
    <3> QED BY <3>2
  <2>9. \A i \in Today(spend, dropped, now) : spend'[i].atoms = spend[i].atoms
    <3> TAKE i \in Today(spend, dropped, now)
    <3>1. i \in 1..Len(spend)
      BY <2>2, TodayFinite
    <3> QED BY <1>5, <3>1
  <2>10. y <= x + Atoms(c)
    <3> HIDE DEF n
    <3>1. SpentIn(spend', dropped', now') <= SpentIn(spend, dropped, now) + Atoms(c)
      BY <1>3, <1>8, <2>2, <2>7, <2>8, <2>9, SpendsMore
    <3> QED BY <2>3, <3>1
  <2>11. PICK s \in Policies : call[c].spent + Atoms(c) <= s.perDay
    BY <1>0, <1>1 DEF Checked
  <2>12. s.perDay \in Int
    BY BridgeAssumption
  <2>13. y <= s.perDay
    BY <1>3, <2>4, <2>5, <2>6, <2>10, <2>11, <2>12
  <2> QED BY <2>3, <2>13 DEF Within
<1>10. WaiterInv'
  BY <1>0, <1>1, <1>7, MovesOnly, WaitersKept
<1>11. \A d \in Calls \ {c} : call[d].pc \in Paying /\ Owns(d, call[d].seq, spend)
                                => Owns(d, call[d].seq, spend')
  <2> TAKE d \in Calls \ {c}
  <2>1. call[d].seq \in Nat /\ (call[d].pc \in Paying => call[d].seq <= spendSeq)
    BY <1>0 DEF CallInv, CallStates, Knows
  <2> QED BY <1>0, <1>1, <1>4, <2>1, KeptLogged
<1>12. Owns(c, spendSeq + 1, spend')
  <2> SUFFICES ASSUME NEW i \in 1..n, spend'[i].seq = spendSeq + 1
               PROVE  /\ spend'[i].bot = BotOf[c] /\ spend'[i].atoms = Atoms(c)
                      /\ spend'[i].status # "refused"
    BY <1>5 DEF Owns
  <2>1. i \in 1..Len(spend) => FALSE
    <3> HAVE i \in 1..Len(spend)
    <3>1. spend[i].seq \in Nat /\ spend[i].seq <= spendSeq /\ spend'[i].seq = spend[i].seq
      <4>1. SoundLog(spend, dropped, now)
        BY <1>0 DEF LogInv
      <4> QED BY <1>0, <1>5, <4>1, SoundEntry DEF LogInv
    <3> QED BY <1>6, <3>1
  <2>2. i = n
    BY <1>6, <2>1
  <2> QED BY <1>8, <2>2
<1>13. Knows(c, b, rail[c], spendSeq', spend')
  BY <1>3, <1>6, <1>7, <1>12 DEF Knows, Unpaid
<1>14. Weight(b, rail[c], c \in late) <= Weight(call[c], rail[c], c \in late) + 1
  BY <1>1, <1>3, <1>7 DEF Weight, TipOut, FailureHeld
<1>15. \A p : Cardinality(CountedIn(spend, p)) + (IF Same(c, p) THEN 1 ELSE 0)
                     <= Cardinality(CountedIn(spend', p))
  BY <1>5, <1>6, <1>8, CountsGained
<1>16. raced' \in BOOLEAN /\ revived' \in BOOLEAN
  BY <1>0, <1>1 DEF CallInv
<1>17. b.pc \notin {"parked", "launch"}
  BY <1>7
<1> QED BY <1>1, <1>5, <1>6, <1>7, <1>9, <1>10, <1>11, <1>13, <1>14, <1>15, <1>16, <1>17, Move

-----------------------------------------------------------------------------
(* The steps of the rail, and of everybody else.                           *)

\* Nothing is logged and no call but c comes to weigh more or less.
LEMMA ClaimsSteady ==
    ASSUME LogInv, CallInv, ClaimsCovered, Quiet, unsure' = unsure, NEW c \in Calls,
           (\A o \in Others : rail'[o] = "running") => \A o \in Others : rail[o] = "running",
           \A d \in Calls \ {c} : /\ call'[d] = call[d] /\ rail'[d] = rail[d]
                                  /\ d \in late' <=> d \in late,
           Weight(call'[c], rail'[c], c \in late') <= Weight(call[c], rail[c], c \in late)
    PROVE  ClaimsCovered'
<1>1. spend \in Seq(Entries) /\ spend' = spend /\ UNCHANGED <<spendFile, diskFaults>>
      /\ LogInv'
  BY QuietLog DEF LogInv, SoundLog, Quiet
<1>2. ASSUME NEW d \in Calls \ {c}
      PROVE  Weight(call'[d], rail'[d], d \in late') <= Weight(call[d], rail[d], d \in late)
  <2>1. Weight(call'[d], rail'[d], d \in late') = Weight(call[d], rail[d], d \in late)
    BY DEF Weight, TipOut, FailureHeld
  <2>2. Weight(call[d], rail[d], d \in late) \in Nat
    BY WeightNat
  <2> QED BY <2>1, <2>2
<1>3. \A p : Cardinality(CountedIn(spend, p)) + (IF Same(c, p) THEN 0 ELSE 0)
                     <= Cardinality(CountedIn(spend', p))
  <2> TAKE p
  <2>1. Cardinality(CountedIn(spend, p)) \in Nat
    BY <1>1, CountedFinite
  <2>2. Cardinality(CountedIn(spend', p)) = Cardinality(CountedIn(spend, p))
    BY <1>1
  <2> QED BY <2>1, <2>2
<1>4. Weight(call'[c], rail'[c], c \in late') <= Weight(call[c], rail[c], c \in late) + 0
  BY WeightNat
<1> QED BY <1>1, <1>2, <1>3, <1>4, ClaimsMove

LEMMA TipStartsKeeps ==
    ASSUME BridgeInv, NEW c \in Calls, TipStarts(c) PROVE BridgeInv'
<1>0. LogInv /\ CallInv /\ WaiterInv /\ ClaimsCovered /\ Checked /\ CapInv
  BY DEF BridgeInv
<1>1. /\ call[c].pc = "tip" /\ Goto(c, "wait") /\ rail' = [rail EXCEPT ![c] = "running"]
      /\ UNCHANGED <<settings, log, waiters, late, now, crashes, raced, revived, unsure>>
  BY DEF TipStarts, At
<1>2. PICK b \in CallStates : /\ call' = [call EXCEPT ![c] = b]
                              /\ b.pc = "wait" /\ b.seq = call[c].seq
                              /\ b.spent = call[c].spent /\ b.result = call[c].result
  BY <1>0, <1>1, GoesTo DEF Paying
<1>3. Quiet
  BY <1>1 DEF Quiet, log
<1>4. LogInv' /\ CapInv'
  BY <1>0, <1>1, <1>3, QuietLog, QuietCap
<1>5. call'[c] = b /\ \A d \in Calls \ {c} : call'[d] = call[d]
  BY <1>0, <1>2, MovesOnly
<1>6. /\ rail'[c] = "running" /\ \A p \in (Calls \cup Others) \ {c} : rail'[p] = rail[p]
      /\ rail' \in [Calls \cup Others -> {"none", "running", "settled", "failed"}]
  <2>1. rail \in [Calls \cup Others -> {"none", "running", "settled", "failed"}]
    BY <1>0 DEF CallInv
  <2> QED BY <1>1, <2>1
<1>7. Knows(c, call[c], rail[c], spendSeq, spend)
  BY <1>0 DEF CallInv
<1>8. rail[c] = "none" /\ c \notin late
  <2>1. rail[c] = "none"
    BY <1>1, <1>7 DEF Knows, Unpaid
  <2> QED BY <1>0, <2>1 DEF CallInv
<1>9. CallInv'
  <2>1. call' \in [Calls -> CallStates]
    BY <1>0, <1>2 DEF CallInv
  <2>2. late' \subseteq {p \in Calls \cup Others : rail'[p] \in {"settled", "failed"}}
    BY <1>0, <1>1, <1>6, <1>8 DEF CallInv
  <2>3. spendSeq' = spendSeq /\ spend' = spend
    BY <1>3 DEF Quiet
  <2>4. Knows(c, b, rail'[c], spendSeq', spend')
    BY <1>1, <1>2, <1>7, <2>3 DEF Knows, Unpaid, Paying
  <2>5. ASSUME NEW d \in Calls PROVE Knows(d, call'[d], rail'[d], spendSeq', spend')
    <3>1. CASE d = c
      BY <1>5, <2>4, <3>1
    <3>2. CASE d # c
      <4>1. Knows(d, call[d], rail[d], spendSeq, spend)
        BY <1>0 DEF CallInv
      <4> QED BY <1>5, <1>6, <2>3, <3>2, <4>1
    <3> QED BY <3>1, <3>2
  <2> QED BY <1>0, <1>1, <1>6, <2>1, <2>2, <2>5 DEF CallInv
<1>10. WaiterInv'
  BY <1>0, <1>1, <1>2, <1>5, WaitersKept
<1>11. ClaimsCovered'
  <2>1. \A o \in Others : rail'[o] = rail[o]
    BY <1>6, BridgeAssumption
  <2>2. Weight(call'[c], rail'[c], c \in late') <= Weight(call[c], rail[c], c \in late)
    BY <1>1, <1>2, <1>5, <1>6, <1>8 DEF Weight, TipOut, FailureHeld
  <2> QED BY <1>0, <1>1, <1>3, <1>5, <1>6, <2>1, <2>2, ClaimsSteady
<1>12. Checked'
  <2>1. ASSUME NEW d \in Calls, call'[d].pc \in {"parked", "launch"}
        PROVE  \E s \in Policies : call'[d].spent + Atoms(d) <= s.perDay
    <3>1. d # c
      BY <1>2, <1>5, <2>1
    <3> QED BY <1>0, <1>5, <2>1, <3>1 DEF Checked
  <2> QED BY <2>1 DEF Checked
<1> QED BY <1>4, <1>9, <1>10, <1>11, <1>12 DEF BridgeInv

\* A tip that was sent though starting it erred: the call claims an entry for
\* the tip and one for the failure, and the tip is excused.
LEMMA RefusedSent ==
    ASSUME BridgeInv, NEW c \in Calls, TipRefused(c),
           rail' = [rail EXCEPT ![c] = "running"], unsure' = unsure \cup {c}
    PROVE  BridgeInv'
<1>0. LogInv /\ CallInv /\ WaiterInv /\ ClaimsCovered /\ Checked /\ CapInv
  BY DEF BridgeInv
<1>1. /\ call[c].pc = "tip" /\ Goto(c, "failed") /\ Cancel(c)
      /\ UNCHANGED <<settings, log, late, now, crashes, raced, revived>>
  BY DEF TipRefused, At
<1>2. PICK b \in CallStates : /\ call' = [call EXCEPT ![c] = b]
                              /\ b.pc = "failed" /\ b.seq = call[c].seq
                              /\ b.spent = call[c].spent /\ b.result = call[c].result
  BY <1>0, <1>1, GoesTo DEF Paying
<1>3. Quiet
  BY <1>1 DEF Quiet, log
<1>4. LogInv' /\ CapInv' /\ spendSeq' = spendSeq /\ spend' = spend
      /\ UNCHANGED <<spendFile, diskFaults>>
  BY <1>0, <1>1, <1>3, QuietLog, QuietCap DEF Quiet
<1>5. call'[c] = b /\ \A d \in Calls \ {c} : call'[d] = call[d]
  BY <1>0, <1>2, MovesOnly
<1>6. /\ rail'[c] = "running" /\ \A p \in (Calls \cup Others) \ {c} : rail'[p] = rail[p]
      /\ rail' \in [Calls \cup Others -> {"none", "running", "settled", "failed"}]
  <2>1. rail \in [Calls \cup Others -> {"none", "running", "settled", "failed"}]
    BY <1>0 DEF CallInv
  <2> QED BY <2>1
<1>7. Knows(c, call[c], rail[c], spendSeq, spend)
  BY <1>0 DEF CallInv
<1>8. rail[c] = "none" /\ c \notin late /\ c \notin unsure
  <2>1. rail[c] = "none"
    BY <1>1, <1>7 DEF Knows, Unpaid
  <2> QED BY <1>0, <2>1 DEF CallInv
<1>9. CallInv'
  <2>1. call' \in [Calls -> CallStates]
    BY <1>0, <1>2 DEF CallInv
  <2>2. late' \subseteq {p \in Calls \cup Others : rail'[p] \in {"settled", "failed"}}
    BY <1>0, <1>1, <1>6, <1>8 DEF CallInv
  <2>3. unsure' \subseteq {d \in Calls : rail'[d] # "none"}
    <3>1. ASSUME NEW d \in unsure' PROVE d \in Calls /\ rail'[d] # "none"
      <4>1. CASE d = c
        BY <1>6, <4>1
      <4>2. CASE d # c
        BY <1>0, <1>6, <3>1, <4>2 DEF CallInv
      <4> QED BY <4>1, <4>2
    <3> QED BY <3>1
  <2>4. Knows(c, b, rail'[c], spendSeq', spend')
    BY <1>1, <1>2, <1>4, <1>7 DEF Knows, Unpaid, Paying
  <2>5. ASSUME NEW d \in Calls PROVE Knows(d, call'[d], rail'[d], spendSeq', spend')
    <3>1. CASE d = c
      BY <1>5, <2>4, <3>1
    <3>2. CASE d # c
      <4>1. Knows(d, call[d], rail[d], spendSeq, spend)
        BY <1>0 DEF CallInv
      <4> QED BY <1>4, <1>5, <1>6, <3>2, <4>1
    <3> QED BY <3>1, <3>2
  <2> QED BY <1>0, <1>1, <1>6, <2>1, <2>2, <2>3, <2>5 DEF CallInv
<1>10. WaiterInv'
  BY <1>0, <1>1, <1>2, <1>5, WaitersCancelled
<1>11. ClaimsCovered'
  <2> SUFFICES ASSUME \A o \in Others : rail'[o] = "running",
                      NEW p \in Calls, NEW s \in {spend, spendFile.log}
               PROVE  SumFunctionOnSet(Claims(p)', Calls)
                         <= Cardinality(CountedIn(s, p)) + diskFaults + Excused(p)'
    BY <1>4 DEF ClaimsCovered
  <2> DEFINE f == Claims(p)
             g == Claims(p)'
             j == IF Same(c, p) THEN 1 ELSE 0
             m == Cardinality(CountedIn(s, p)) + diskFaults
             e == Excused(p)
  <2>1. \A o \in Others : rail[o] = "running"
    BY <1>6, BridgeAssumption
  <2>2. SumFunctionOnSet(f, Calls) <= m + e /\ m \in Nat /\ e \in Nat
    <3>1. s \in Seq(Entries) /\ diskFaults \in Nat
      BY <1>0 DEF LogInv, SoundLog
    <3>2. Cardinality(CountedIn(s, p)) \in Nat /\ e \in Nat
      BY <1>0, <3>1, CountedFinite, ExcusedNat
    <3> QED BY <1>0, <2>1, <3>1, <3>2 DEF ClaimsCovered
  <2>3. Excused(p)' = e + j
    <3>1. CASE Same(c, p)
      <4>1. UnsureOf(p)' = UnsureOf(p) \cup {c} /\ c \notin UnsureOf(p)
        BY <1>8, <3>1 DEF UnsureOf, Same
      <4>2. IsFiniteSet(UnsureOf(p))
        BY <1>0, ExcusedNat
      <4>3. Cardinality(UnsureOf(p) \cup {c}) = Cardinality(UnsureOf(p)) + 1
        BY <4>1, <4>2, FS_AddElement
      <4>4. Cardinality(UnsureOf(p)') = Cardinality(UnsureOf(p)) + 1
        BY <4>1, <4>3
      <4> QED BY <3>1, <4>4 DEF Excused
    <3>2. CASE ~Same(c, p)
      <4>1. UnsureOf(p)' = UnsureOf(p)
        BY <3>2 DEF UnsureOf, Same
      <4> QED BY <2>2, <3>2, <4>1 DEF Excused
    <3> QED BY <3>1, <3>2
  <2>4. \A d \in Calls : f[d] \in Int /\ g[d] \in Int
    BY ClaimsNat
  <2>5. ASSUME NEW d \in Calls
        PROVE  /\ f[d] = IF Same(d, p) THEN Weight(call[d], rail[d], d \in late) ELSE 0
               /\ g[d] = IF Same(d, p) THEN Weight(call'[d], rail'[d], d \in late') ELSE 0
    BY DEF Claims
  <2>6. \A d \in Calls \ {c} : g[d] <= f[d]
    <3> TAKE d \in Calls \ {c}
    <3>1. call'[d] = call[d] /\ rail'[d] = rail[d] /\ late' = late
      BY <1>1, <1>5, <1>6
    <3>2. g[d] = f[d]
      BY <2>5, <3>1
    <3> QED BY <2>4, <3>2
  <2>7. g[c] <= f[c] + j
    <3>1. TipOut(call[c], rail[c], c \in late)
      BY <1>1 DEF TipOut
    <3>2. Weight(call'[c], rail'[c], c \in late') <= Weight(call[c], rail[c], c \in late) + 1
      BY <3>1 DEF Weight
    <3> QED BY <2>4, <2>5, <3>2
  <2>8. IsFiniteSet(Calls) /\ j \in Int
    BY BridgeAssumption
  <2> HIDE DEF f, g, j, m, e
  <2>9. SumFunctionOnSet(g, Calls) <= SumFunctionOnSet(f, Calls) + j
    BY <2>4, <2>6, <2>7, <2>8, SumAtMost
  <2>10. SumFunctionOnSet(g, Calls) \in Int /\ SumFunctionOnSet(f, Calls) \in Int
    BY <2>4, <2>8, SumInt
  <2>11. SumFunctionOnSet(g, Calls) <= m + (e + j)
    BY <2>2, <2>8, <2>9, <2>10
  <2> QED BY <2>3, <2>11 DEF g, m
<1>12. Checked'
  <2>1. ASSUME NEW d \in Calls, call'[d].pc \in {"parked", "launch"}
        PROVE  \E s \in Policies : call'[d].spent + Atoms(d) <= s.perDay
    <3>1. d # c
      BY <1>2, <1>5, <2>1
    <3> QED BY <1>0, <1>5, <2>1, <3>1 DEF Checked
  <2> QED BY <2>1 DEF Checked
<1> QED BY <1>4, <1>9, <1>10, <1>11, <1>12 DEF BridgeInv

LEMMA TipRefusedKeeps ==
    ASSUME BridgeInv, NEW c \in Calls, TipRefused(c) PROVE BridgeInv'
<1>1. \/ UNCHANGED <<rail, unsure>>
      \/ rail' = [rail EXCEPT ![c] = "running"] /\ unsure' = unsure \cup {c}
  BY DEF TipRefused
<1> QED BY <1>1, RefusedUnsent, RefusedSent

\* A tip ends: its claim goes to the waiter that is given its outcome, or to
\* whoever it reaches late.
LEMMA ProgressKeeps ==
    ASSUME BridgeInv, NEW p \in Calls \cup Others, NEW ok \in BOOLEAN, Progress(p, ok)
    PROVE  BridgeInv'
<1>0. LogInv /\ CallInv /\ WaiterInv /\ ClaimsCovered /\ Checked /\ CapInv
  BY DEF BridgeInv
<1> DEFINE x == IF ok THEN "settled" ELSE "failed"
<1>1. /\ rail[p] = "running" /\ rail' = [rail EXCEPT ![p] = x]
      /\ UNCHANGED <<settings, log, now, crashes, raced, revived, unsure>>
  BY DEF Progress
<1>2. x \in {"settled", "failed"} /\ Outcome(ok) \in {"paid", "failed"}
      /\ (x = "failed" <=> ~ok) /\ (Outcome(ok) = "failed" <=> ~ok)
  BY DEF Outcome
<1> HIDE DEF x
<1>3. Quiet
  BY <1>1 DEF Quiet, log
<1>4. LogInv' /\ CapInv' /\ spendSeq' = spendSeq /\ spend' = spend
  BY <1>0, <1>1, <1>3, QuietLog, QuietCap DEF Quiet
<1>5. /\ rail'[p] = x /\ \A q \in (Calls \cup Others) \ {p} : rail'[q] = rail[q]
      /\ rail' \in [Calls \cup Others -> {"none", "running", "settled", "failed"}]
  <2>1. rail \in [Calls \cup Others -> {"none", "running", "settled", "failed"}]
    BY <1>0 DEF CallInv
  <2> QED BY <1>1, <1>2, <2>1
<1>6. p \notin late /\ \A d \in Calls : Knows(d, call[d], rail[d], spendSeq, spend)
  BY <1>0, <1>1 DEF CallInv
<1>7. (\A o \in Others : rail'[o] = "running") =>
         p \in Calls /\ \A o \in Others : rail[o] = "running"
  BY <1>1, <1>2, <1>5
<1>8. ASSUME NEW d \in Calls
      PROVE  Knows(d, call[d], rail'[d], spendSeq', spend')
  <2>1. CASE d = p
    BY <1>1, <1>4, <1>6, <2>1 DEF Knows
  <2>2. CASE d # p
    BY <1>4, <1>5, <1>6, <2>2
  <2> QED BY <2>1, <2>2
<1>9. CASE Matches(p) = {}
  <2>1. late' = late \cup {p} /\ waiters' = waiters /\ call' = call
    BY <1>9 DEF Progress
  <2>2. CallInv'
    <3>1. late' \subseteq {q \in Calls \cup Others : rail'[q] \in {"settled", "failed"}}
      BY <1>0, <1>2, <1>5, <1>6, <2>1 DEF CallInv
    <3> QED BY <1>0, <1>1, <1>5, <1>8, <2>1, <3>1 DEF CallInv
  <2>3. WaiterInv' /\ Checked'
    BY <1>0, <2>1 DEF WaiterInv, Checked
  <2>4. ClaimsCovered'
    <3>1. CASE p \in Calls
      <4>1. Weight(call'[p], rail'[p], p \in late') <= Weight(call[p], rail[p], p \in late)
        BY <1>1, <1>2, <1>5, <2>1 DEF Weight, TipOut, FailureHeld
      <4>2. \A d \in Calls \ {p} : /\ call'[d] = call[d] /\ rail'[d] = rail[d]
                                   /\ d \in late' <=> d \in late
        BY <1>5, <2>1
      <4> QED BY <1>0, <1>1, <1>3, <1>7, <3>1, <4>1, <4>2, ClaimsSteady
    <3>2. CASE p \notin Calls
      BY <1>7, <3>2 DEF ClaimsCovered
    <3> QED BY <3>1, <3>2
  <2> QED BY <1>4, <2>2, <2>3, <2>4 DEF BridgeInv
<1>10. CASE Matches(p) # {}
  <2> DEFINE k == Min(Matches(p))
             w == waiters[k]
             b == [call[w] EXCEPT !.result = Outcome(ok)]
  <2>1. /\ waiters' = RemoveAt(waiters, k) /\ late' = late
        /\ call' = [call EXCEPT ![w] = b]
    BY <1>10 DEF Progress
  <2>2. /\ w \in Calls /\ Same(w, p)
        /\ call[w].pc \in {"tip", "wait"} /\ call[w].result = "none"
        /\ (waiters' = RemoveAt(waiters, k)
               /\ \A d \in Calls \ {w} : call'[d] = call[d]) => WaiterInv'
    BY <1>0, <1>10, WaiterTaken
  <2> HIDE DEF k, w
  <2>3. /\ b \in CallStates /\ b.pc = call[w].pc /\ b.seq = call[w].seq
        /\ b.spent = call[w].spent /\ b.result = Outcome(ok)
    <3>1. call[w] \in CallStates
      BY <1>0, <2>2 DEF CallInv
    <3> QED BY <1>2, <3>1 DEF CallStates
  <2> HIDE DEF b
  <2>4. /\ call'[w] = b /\ \A d \in Calls \ {w} : call'[d] = call[d]
        /\ call' \in [Calls -> CallStates]
    BY <1>0, <2>1, <2>2, <2>3 DEF CallInv
  <2>5. WaiterInv'
    BY <2>1, <2>2, <2>4
  <2>6. CallInv'
    <3>1. Knows(w, b, rail'[w], spendSeq', spend')
      <4>1. Knows(w, call[w], rail'[w], spendSeq', spend')
        BY <1>8, <2>2
      <4> QED BY <1>2, <2>2, <2>3, <4>1 DEF Knows
    <3>2. ASSUME NEW d \in Calls PROVE Knows(d, call'[d], rail'[d], spendSeq', spend')
      <4>1. CASE d = w
        BY <2>4, <3>1, <4>1
      <4>2. CASE d # w
        BY <1>8, <2>4, <4>2
      <4> QED BY <4>1, <4>2
    <3>3. late' \subseteq {q \in Calls \cup Others : rail'[q] \in {"settled", "failed"}}
      BY <1>0, <1>5, <1>6, <2>1 DEF CallInv
    <3>4. unsure' \subseteq {d \in Calls : rail'[d] # "none"}
      BY <1>0, <1>1, <1>2, <1>5 DEF CallInv
    <3> QED BY <1>0, <1>1, <1>5, <2>1, <2>4, <3>2, <3>3, <3>4 DEF CallInv
  <2>7. Checked'
    <3>1. ASSUME NEW d \in Calls, call'[d].pc \in {"parked", "launch"}
          PROVE  \E s \in Policies : call'[d].spent + Atoms(d) <= s.perDay
      <4>1. d # w
        BY <2>2, <2>3, <2>4, <3>1
      <4> QED BY <1>0, <2>4, <3>1, <4>1 DEF Checked
    <3> QED BY <3>1 DEF Checked
  <2>8. ClaimsCovered'
    <3> SUFFICES ASSUME \A o \in Others : rail'[o] = "running",
                        NEW q \in Calls, NEW s \in {spend, spendFile.log}
                 PROVE  SumFunctionOnSet(Claims(q)', Calls)
                           <= Cardinality(CountedIn(s, q)) + diskFaults + Excused(q)
      BY <1>1, <1>3, ExcusedSame DEF ClaimsCovered, Quiet
    <3> DEFINE f == Claims(q)
               g == Claims(q)'
               h == [f EXCEPT ![p] = g[p]]
               j == IF Same(p, q) /\ ~ok THEN 1 ELSE 0
               m == Cardinality(CountedIn(s, q)) + diskFaults + Excused(q)
    <3>0. p \in Calls /\ (\A o \in Others : rail[o] = "running")
      BY <1>7
    <3>1. SumFunctionOnSet(f, Calls) <= m /\ m \in Nat
      <4>1. s \in Seq(Entries) /\ diskFaults \in Nat
        BY <1>0 DEF LogInv, SoundLog
      <4>2. Cardinality(CountedIn(s, q)) \in Nat /\ Excused(q) \in Nat
        BY <1>0, <4>1, CountedFinite, ExcusedNat
      <4> QED BY <1>0, <3>0, <4>1, <4>2 DEF ClaimsCovered
    <3> HIDE DEF m
    <3>2. \A d \in Calls : f[d] \in Int /\ g[d] \in Int
      BY ClaimsNat
    <3>3. ASSUME NEW d \in Calls
          PROVE  /\ f[d] = IF Same(d, q) THEN Weight(call[d], rail[d], d \in late) ELSE 0
                 /\ g[d] = IF Same(d, q) THEN Weight(call'[d], rail'[d], d \in late') ELSE 0
      BY DEF Claims
    <3>4. \A d \in Calls \ {p, w} : f[d] = g[d]
      <4> TAKE d \in Calls \ {p, w}
      <4>1. call'[d] = call[d] /\ rail'[d] = rail[d] /\ late' = late
        BY <1>5, <2>1, <2>4
      <4> QED BY <3>3, <4>1
    <3>5. Same(p, q) <=> Same(w, q)
      BY <2>2 DEF Same
    <3>6. IsFiniteSet(Calls) /\ j \in {0, 1}
      BY BridgeAssumption
    <3>7. CASE w = p
      <4>1. g[p] <= f[p]
        <5>0. call[p].pc \notin {"expect", "tip"}
          BY <1>1, <1>6, <3>0 DEF Knows, Unpaid
        <5>1. Weight(b, x, FALSE) <= Weight(call[p], "running", FALSE)
          BY <1>2, <2>2, <2>3, <3>7, <5>0 DEF Weight, TipOut, FailureHeld
        <5>2. Weight(call'[p], rail'[p], p \in late') = Weight(b, x, FALSE)
          BY <1>5, <1>6, <2>1, <2>4, <3>7 DEF Weight, TipOut
        <5>3. Weight(call[p], rail[p], p \in late) = Weight(call[p], "running", FALSE)
          BY <1>1, <1>6 DEF Weight, TipOut
        <5>4. /\ f[p] = IF Same(p, q) THEN Weight(call[p], "running", FALSE) ELSE 0
              /\ g[p] = IF Same(p, q) THEN Weight(b, x, FALSE) ELSE 0
          BY <3>0, <3>3, <5>2, <5>3
        <5>5. f[p] \in Int /\ g[p] \in Int
          BY <3>0, <3>2
        <5> HIDE DEF f, g
        <5>6. CASE Same(p, q)
          BY <5>1, <5>4, <5>6
        <5>7. CASE ~Same(p, q)
          BY <5>4, <5>5, <5>7
        <5> QED BY <5>6, <5>7
      <4>2. \A d \in Calls : f[d] \in Int /\ g[d] \in Int /\ g[d] <= f[d]
        BY <3>2, <3>4, <3>7, <4>1
      <4> HIDE DEF f, g
      <4>3. SumFunctionOnSet(g, Calls) <= SumFunctionOnSet(f, Calls)
        BY <3>6, <4>2, SumMonotone
      <4>4. SumFunctionOnSet(g, Calls) \in Int /\ SumFunctionOnSet(f, Calls) \in Int
        BY <3>2, <3>6, SumInt
      <4>5. SumFunctionOnSet(g, Calls) <= m
        BY <3>1, <4>3, <4>4
      <4> QED BY <4>5 DEF g, m
    <3>8. CASE w # p
      <4>1. f \in [Calls -> Int]
        BY <3>2 DEF Claims
      <4>2. /\ \A d \in Calls : h[d] \in Int /\ (d # p => h[d] = f[d])
            /\ h[p] = g[p]
        BY <3>0, <3>2, <4>1
      <4>3. g[p] <= f[p] + (0 - j)
        <5>1. Weight(call'[p], rail'[p], p \in late') = Weight(call[p], x, FALSE)
          BY <1>5, <1>6, <2>1, <2>4, <3>0, <3>8 DEF Weight, TipOut
        <5>2. Weight(call[p], rail[p], p \in late) = Weight(call[p], "running", FALSE)
          BY <1>1, <1>6 DEF Weight, TipOut
        <5>3. call[p].pc \notin {"expect", "tip"}
          BY <1>1, <1>6, <3>0 DEF Knows, Unpaid
        <5>4. Weight(call[p], x, FALSE) <= Weight(call[p], "running", FALSE)
                                             - (IF ok THEN 0 ELSE 1)
          BY <1>2, <5>3 DEF Weight, TipOut, FailureHeld
        <5>5. /\ f[p] = IF Same(p, q) THEN Weight(call[p], "running", FALSE) ELSE 0
              /\ g[p] = IF Same(p, q) THEN Weight(call[p], x, FALSE) ELSE 0
          BY <3>0, <3>3, <5>1, <5>2
        <5>6. f[p] \in Int /\ g[p] \in Int
          BY <3>0, <3>2
        <5> HIDE DEF f, g
        <5>7. CASE Same(p, q)
          <6> DEFINE before == f[p]
                     after == g[p]
          <6>1. before = Weight(call[p], "running", FALSE) /\ after = Weight(call[p], x, FALSE)
            BY <5>5, <5>7
          <6>2. after <= before - (IF ok THEN 0 ELSE 1)
            BY <5>4, <6>1
          <6>3. j = IF ok THEN 0 ELSE 1
            BY <5>7
          <6>4. before \in Int /\ after \in Int
            BY <5>6
          <6> HIDE DEF j, before, after
          <6>5. after <= before + (0 - j)
            BY <6>2, <6>3, <6>4
          <6> QED BY <6>5 DEF before, after
        <5>8. CASE ~Same(p, q)
          BY <5>5, <5>6, <5>8
        <5> QED BY <5>7, <5>8
      <4>4. g[w] <= h[w] + j
        <5>1. Weight(call'[w], rail'[w], w \in late') <= Weight(call[w], rail[w], w \in late)
                                                           + (IF ok THEN 0 ELSE 1)
          <6>1. call'[w] = b /\ rail'[w] = rail[w] /\ late' = late
            BY <1>5, <2>1, <2>2, <2>4, <3>8
          <6>2. /\ TipOut(b, rail[w], w \in late) <=> TipOut(call[w], rail[w], w \in late)
                /\ ~FailureHeld(call[w]) /\ (FailureHeld(b) => ~ok)
            BY <1>2, <2>2, <2>3 DEF TipOut, FailureHeld
          <6> QED BY <6>1, <6>2 DEF Weight
        <5>2. h[w] = f[w]
          BY <2>2, <3>8, <4>2
        <5> HIDE DEF h
        <5> QED BY <2>2, <3>3, <3>5, <5>1, <5>2, WeightNat
      <4>5. \A d \in Calls \ {w} : g[d] <= h[d]
        <5> HIDE DEF h
        <5> QED BY <3>2, <3>4, <4>2
      <4>6. \A d \in Calls \ {p} : h[d] <= f[d]
        <5> HIDE DEF h
        <5> QED BY <3>2, <4>2
      <4> HIDE DEF f, g, h
      <4>7. SumFunctionOnSet(h, Calls) <= SumFunctionOnSet(f, Calls) + (0 - j)
        <5>1. 0 - j \in Int /\ \A d \in Calls : f[d] \in Int /\ h[d] \in Int
          BY <3>2, <3>6, <4>2
        <5>2. h[p] <= f[p] + (0 - j)
          BY <4>2, <4>3
        <5> HIDE DEF j
        <5> QED BY <3>0, <3>6, <4>6, <5>1, <5>2, SumAtMost
      <4>8. SumFunctionOnSet(g, Calls) <= SumFunctionOnSet(h, Calls) + j
        <5>1. j \in Int /\ \A d \in Calls : g[d] \in Int /\ h[d] \in Int
          BY <3>2, <3>6, <4>2
        <5> HIDE DEF j
        <5> QED BY <2>2, <3>6, <4>4, <4>5, <5>1, SumAtMost
      <4>9. /\ SumFunctionOnSet(g, Calls) \in Int /\ SumFunctionOnSet(f, Calls) \in Int
            /\ SumFunctionOnSet(h, Calls) \in Int
        BY <3>2, <3>6, <4>2, SumInt
      <4>10. SumFunctionOnSet(g, Calls) <= m
        <5> HIDE DEF j
        <5> QED BY <3>1, <3>6, <4>7, <4>8, <4>9
      <4> QED BY <4>10 DEF g, m
    <3> QED BY <3>7, <3>8
  <2> QED BY <1>4, <2>5, <2>6, <2>7, <2>8 DEF BridgeInv
<1> QED BY <1>9, <1>10

\* A late outcome reaches the log: the failed tip's claim ends with the entry.
LEMMA ResolveLateKeeps ==
    ASSUME BridgeInv, NEW p \in Calls \cup Others, resolveLate(p) PROVE BridgeInv'
<1>0. LogInv /\ CallInv /\ WaiterInv /\ ClaimsCovered /\ Checked /\ CapInv
  BY DEF BridgeInv
<1> DEFINE ok == rail[p] = "settled"
<1>1. /\ p \in late /\ late' = late \ {p} /\ ResolveSpend(p, ok)
      /\ UNCHANGED <<settings, call, waiters, rail, now, crashes, raced, revived, unsure>>
  BY DEF resolveLate
<1>2. rail[p] \in {"settled", "failed"} /\ ok \in BOOLEAN
  BY <1>0, <1>1 DEF CallInv
<1>3. Outcome(ok) = IF rail[p] = "settled" THEN "paid" ELSE "failed"
  BY DEF Outcome
<1> HIDE DEF ok
<1>4. \/ UNCHANGED log
      \/ \E j \in 1..Len(spend) :
            /\ Marks(j, Outcome(ok)) /\ spend[j].status = "pending"
            /\ spend[j].bot = BotOf[p] /\ spend[j].atoms = Atoms(p)
  BY <1>0, <1>1, <1>2, ResolveDoes
<1>5. WaiterInv' /\ Checked'
  BY <1>0, <1>1 DEF WaiterInv, Checked
<1>6. \A d \in Calls : /\ call'[d] = call[d] /\ rail'[d] = rail[d]
                       /\ d # p => (d \in late' <=> d \in late)
  BY <1>1
<1>7. (\A o \in Others : rail'[o] = "running") =>
         p \in Calls /\ \A o \in Others : rail[o] = "running"
  BY <1>1, <1>2
<1>8. Weight(call'[p], rail'[p], p \in late') <= Weight(call[p], rail[p], p \in late)
      /\ (rail[p] = "failed" /\ call[p].pc \notin {"expect", "tip"} =>
             Weight(call'[p], rail'[p], p \in late') + 1 <= Weight(call[p], rail[p], p \in late))
  <2>1. call'[p] = call[p] /\ rail'[p] = rail[p] /\ p \in late /\ p \notin late'
    BY <1>1
  <2> QED BY <2>1 DEF Weight, TipOut
<1>9. p \in Calls => call[p].pc \notin {"expect", "tip"}
  BY <1>0, <1>2 DEF CallInv, Knows, Unpaid
<1>10. CASE UNCHANGED log
  <2>1. Quiet
    BY <1>1, <1>10 DEF Quiet, log
  <2>2. LogInv' /\ CapInv' /\ spend' = spend /\ spendSeq' = spendSeq
    BY <1>0, <1>1, <2>1, QuietLog, QuietCap DEF Quiet
  <2>3. CallInv'
    BY <1>0, <1>1, <2>2 DEF CallInv
  <2>4. ClaimsCovered'
    <3>1. CASE p \in Calls
      BY <1>0, <1>1, <1>6, <1>7, <1>8, <2>1, <3>1, ClaimsSteady
    <3>2. CASE p \notin Calls
      BY <1>7, <3>2 DEF ClaimsCovered
    <3> QED BY <3>1, <3>2
  <2> QED BY <1>5, <2>2, <2>3, <2>4 DEF BridgeInv
<1>11. CASE \E j \in 1..Len(spend) :
            /\ Marks(j, Outcome(ok)) /\ spend[j].status = "pending"
            /\ spend[j].bot = BotOf[p] /\ spend[j].atoms = Atoms(p)
  <2> DEFINE x == Outcome(ok)
  <2> HIDE DEF x
  <2>1. PICK j \in 1..Len(spend) :
            /\ Marks(j, x) /\ spend[j].status = "pending"
            /\ spend[j].bot = BotOf[p] /\ spend[j].atoms = Atoms(p)
    BY <1>11 DEF x
  <2>2. /\ LogInv' /\ Len(spend') = Len(spend)
        /\ dropped' \in dropped..Len(spend) /\ Stored
        /\ \A i \in 1..Len(spend) :
              /\ i # j => spend'[i] = spend[i]
              /\ spend'[i].bot = spend[i].bot /\ spend'[i].atoms = spend[i].atoms
              /\ spend'[i].ts = spend[i].ts /\ spend'[i].seq = spend[i].seq
        /\ spend'[j].status = x
    BY <1>0, <1>1, <2>1, MarkDoes
  <2>3. spend \in Seq(Entries) /\ spend' \in Seq(Entries) /\ Len(spend) \in Nat
        /\ dropped \in Nat /\ dropped' \in Nat /\ dropped <= dropped'
        /\ spendSeq' = spendSeq
    <3>1. spend \in Seq(Entries) /\ spend' \in Seq(Entries) /\ dropped \in Nat /\ Len(spend) \in Nat
      BY <1>0, <2>2 DEF LogInv, SoundLog
    <3> QED BY <2>1, <2>2, <3>1 DEF Marks
  <2>4. CapInv'
    <3>1. ASSUME NEW i \in Today(spend', dropped', now')
          PROVE  i \in Today(spend, dropped, now) /\ spend'[i].atoms = spend[i].atoms
      <4>1. /\ i \in dropped + 1..Len(spend) /\ i \in 1..Len(spend)
            /\ spend'[i].ts >= now - Window /\ countsTowardCap(spend'[i].status)
        BY <1>1, <2>2, <2>3, <3>1 DEF Today
      <4>2. countsTowardCap(spend[i].status)
        BY <2>1, <2>2, <4>1 DEF countsTowardCap
      <4> QED BY <2>2, <4>1, <4>2 DEF Today
    <3>2. now <= now'
      BY <1>0, <1>1 DEF LogInv
    <3> QED BY <1>0, <1>1, <2>2, <3>1, <3>2, CapKept
  <2>5. CallInv'
    <3>1. ASSUME NEW d \in Calls PROVE Knows(d, call'[d], rail'[d], spendSeq', spend')
      <4>1. Knows(d, call[d], rail[d], spendSeq, spend)
        BY <1>0 DEF CallInv
      <4>2. Owns(d, call[d].seq, spend) => Owns(d, call[d].seq, spend')
        BY <1>0, <1>1, <2>1, OwnsKept
      <4>3. Knows(d, call[d], rail[d], spendSeq, spend')
        BY <4>1, <4>2 DEF Knows
      <4> QED BY <1>6, <2>3, <4>3
    <3> QED BY <1>0, <1>1, <3>1 DEF CallInv
  <2>6. ClaimsCovered'
    <3>1. CASE p \notin Calls
      BY <1>7, <3>1 DEF ClaimsCovered
    <3>2. CASE p \in Calls
      <4>1. (\A o \in Others : rail'[o] = "running") => \A o \in Others : rail[o] = "running"
        BY <1>7
      <4>2. ASSUME NEW d \in Calls \ {p}
            PROVE  Weight(call'[d], rail'[d], d \in late') <= Weight(call[d], rail[d], d \in late)
        <5>1. Weight(call'[d], rail'[d], d \in late') = Weight(call[d], rail[d], d \in late)
          BY <1>6 DEF Weight, TipOut
        <5>2. Weight(call[d], rail[d], d \in late) \in Nat
          BY WeightNat
        <5> QED BY <5>1, <5>2
      <4>3. CASE rail[p] = "settled"
        <5>1. x = "paid"
          BY <1>3, <4>3 DEF x
        <5>2. \A i \in 1..Len(spend) :
                 /\ spend'[i].bot = spend[i].bot /\ spend'[i].atoms = spend[i].atoms
                 /\ countsTowardCap(spend[i].status) => countsTowardCap(spend'[i].status)
          <6> TAKE i \in 1..Len(spend)
          <6>1. CASE i = j
            BY <2>2, <5>1, <6>1 DEF countsTowardCap
          <6>2. CASE i # j
            BY <2>2, <6>2
          <6> QED BY <6>1, <6>2
        <5>3. Len(spend) <= Len(spend')
          BY <2>2, <2>3
        <5>4. \A q : Cardinality(CountedIn(spend, q)) <= Cardinality(CountedIn(spend', q))
          BY <2>3, <5>2, <5>3, CountsKept
        <5>5. \A q : Cardinality(CountedIn(spend, q)) + (IF Same(p, q) THEN 0 ELSE 0)
                        <= Cardinality(CountedIn(spend', q))
          <6> TAKE q
          <6>1. Cardinality(CountedIn(spend, q)) \in Nat
            BY <2>3, CountedFinite
          <6> QED BY <5>4, <6>1
        <5>6. Weight(call'[p], rail'[p], p \in late') <= Weight(call[p], rail[p], p \in late) + 0
          BY <1>8, WeightNat
        <5> QED BY <1>0, <1>1, <2>2, <3>2, <4>1, <4>2, <5>5, <5>6, ClaimsMove
      <4>4. CASE rail[p] = "failed"
        <5>1. \A q : Cardinality(CountedIn(spend, q)) - (IF Same(p, q) THEN 1 ELSE 0)
                        <= Cardinality(CountedIn(spend', q))
          BY <2>1, <2>2, <2>3, CountsLost
        <5>2. \A q : Cardinality(CountedIn(spend, q)) + (IF Same(p, q) THEN -1 ELSE 0)
                        <= Cardinality(CountedIn(spend', q))
          <6> TAKE q
          <6>1. Cardinality(CountedIn(spend, q)) \in Nat
            BY <2>3, CountedFinite
          <6>2. Cardinality(CountedIn(spend, q)) - (IF Same(p, q) THEN 1 ELSE 0)
                  <= Cardinality(CountedIn(spend', q))
            BY <5>1
          <6>3. CASE Same(p, q)
            BY <6>1, <6>2, <6>3
          <6>4. CASE ~Same(p, q)
            BY <6>1, <6>2, <6>4
          <6> QED BY <6>3, <6>4
        <5>3. Weight(call'[p], rail'[p], p \in late') <= Weight(call[p], rail[p], p \in late) + -1
          <6> DEFINE before == Weight(call[p], rail[p], p \in late)
                     after  == Weight(call'[p], rail'[p], p \in late')
          <6>1. before \in Nat /\ after \in Nat /\ after + 1 <= before
            BY <1>8, <1>9, <3>2, <4>4, WeightNat
          <6> HIDE DEF before, after
          <6>2. after <= before + -1
            BY <6>1
          <6> QED BY <6>2 DEF before, after
        <5> QED BY <1>0, <1>1, <2>2, <3>2, <4>1, <4>2, <5>2, <5>3, ClaimsMove
      <4> QED BY <1>2, <4>3, <4>4
    <3> QED BY <3>1, <3>2
  <2> QED BY <1>5, <2>2, <2>4, <2>5, <2>6 DEF BridgeInv
<1> QED BY <1>4, <1>10, <1>11

\* Nothing but the settings changes.
LEMMA ApplySettingsKeeps ==
    ASSUME BridgeInv, NEW s \in Policies, ApplySettings(s) PROVE BridgeInv'
<1>0. LogInv /\ CallInv /\ WaiterInv /\ ClaimsCovered /\ Checked /\ CapInv
  BY DEF BridgeInv
<1>1. /\ settings' \in Policies
      /\ UNCHANGED <<log, call, waiters, rail, late, now, crashes, raced, revived, unsure>>
  BY DEF ApplySettings
<1>2. Quiet
  BY <1>1 DEF Quiet, log
<1>3. LogInv' /\ CapInv' /\ spend' = spend /\ spendSeq' = spendSeq
      /\ UNCHANGED <<spendFile, diskFaults>>
  BY <1>0, <1>1, <1>2, QuietLog, QuietCap DEF Quiet
<1>4. CallInv' /\ WaiterInv' /\ Checked'
  BY <1>0, <1>1, <1>3 DEF CallInv, WaiterInv, Checked
<1>5. ClaimsCovered'
  BY <1>0, <1>1, <1>3 DEF ClaimsCovered, Claims, Excused, UnsureOf
<1> QED BY <1>3, <1>4, <1>5 DEF BridgeInv

\* As time passes, entries leave the day.
LEMMA TickKeeps ==
    ASSUME BridgeInv, Tick PROVE BridgeInv'
<1>0. LogInv /\ CallInv /\ WaiterInv /\ ClaimsCovered /\ Checked /\ CapInv
  BY DEF BridgeInv
<1>1. /\ now' = now + 1 /\ now \in Nat /\ Window \in Nat
      /\ UNCHANGED <<settings, spend, dropped, spendSeq, spendFile, diskFaults, call,
                     waiters, rail, late, crashes, raced, revived, unsure>>
  BY <1>0, BridgeAssumption DEF Tick, log, LogInv
<1>2. LogInv'
  BY <1>0, TickLog
<1>3. CallInv' /\ WaiterInv' /\ Checked'
  BY <1>0, <1>1 DEF CallInv, WaiterInv, Checked
<1>4. ClaimsCovered'
  BY <1>0, <1>1 DEF ClaimsCovered, Claims, Excused, UnsureOf
<1>5. Today(spend', dropped', now') \subseteq Today(spend, dropped, now)
  <2>1. SoundLog(spend, dropped, now) /\ now' \in Nat /\ now <= now'
    BY <1>0, <1>1 DEF LogInv
  <2>2. Today(spend, dropped, now') \subseteq Today(spend, dropped, now)
    BY <1>1, <2>1, TodayLater
  <2> QED BY <1>1, <2>2
<1>6. now <= now'
  BY <1>1
<1>7. CapInv'
  BY <1>0, <1>1, <1>2, <1>5, <1>6, CapKept
<1> QED BY <1>2, <1>3, <1>4, <1>7 DEF BridgeInv

\* A restart ends every claim but the tips that move or moved, and the file's
\* log takes the place of memory's.
LEMMA RestartKeeps ==
    ASSUME BridgeInv, Restart PROVE BridgeInv'
<1>0. LogInv /\ CallInv /\ WaiterInv /\ ClaimsCovered /\ Checked /\ CapInv
  BY DEF BridgeInv
<1>1. /\ call' = [c \in Calls |-> IF call[c].pc = "new" THEN call[c]
                                  ELSE Returned]
      /\ waiters' = <<>> /\ late' = {}
      /\ UNCHANGED <<settings, rail, now, raced, revived, unsure>>
  BY DEF Restart, At
<1>2. /\ LogInv' /\ diskFaults' = diskFaults /\ now' = now
      /\ spendFile' = spendFile /\ dropped' = spendFile.dropped
      /\ SameLog(spendFile.log, spend')
  BY <1>0, RestartLog
<1>3. ASSUME NEW c \in Calls
      PROVE  /\ call'[c] \in CallStates
             /\ \/ call[c].pc = "new" /\ call'[c] = call[c]
                \/ call[c].pc # "new" /\ call'[c].pc = "done"
  <2>1. call[c] \in CallStates
    BY <1>0 DEF CallInv
  <2>2. Returned \in CallStates /\ Returned.pc = "done"
    BY DEF Returned, NewCall, CallStates
  <2>3. call'[c] = IF call[c].pc = "new" THEN call[c] ELSE Returned
    BY <1>1
  <2>4. CASE call[c].pc = "new"
    BY <2>1, <2>3, <2>4
  <2>5. CASE call[c].pc # "new"
    BY <2>2, <2>3, <2>5
  <2> QED BY <2>4, <2>5
<1>4. ASSUME NEW c \in Calls PROVE Knows(c, call'[c], rail'[c], spendSeq', spend')
  <2>1. CASE call[c].pc = "new" /\ call'[c] = call[c]
    <3>1. Knows(c, call[c], rail[c], spendSeq, spend)
      BY <1>0 DEF CallInv
    <3> QED BY <1>1, <2>1, <3>1 DEF Knows, Paying
  <2>2. CASE call[c].pc # "new" /\ call'[c].pc = "done"
    BY <2>2 DEF Knows, Unpaid, Paying
  <2> QED BY <1>3, <2>1, <2>2
<1>5. CallInv'
  <2>1. call' \in [Calls -> CallStates]
    BY <1>1, <1>3
  <2> QED BY <1>0, <1>1, <1>4, <2>1 DEF CallInv
<1>6. WaiterInv'
  BY <1>1 DEF WaiterInv, IsInjective
<1>7. Checked'
  BY <1>3 DEF Checked
<1>8. CapInv'
  <2> SUFFICES ASSUME ~raced', ~revived'
               PROVE  /\ Within(SpentIn(spend', dropped', now'))
                      /\ Within(SpentIn(spendFile'.log, spendFile'.dropped, now'))
    BY DEF CapInv
  <2> DEFINE s == spendFile.log
             d == spendFile.dropped
  <2>1. Within(SpentIn(s, d, now))
    BY <1>0, <1>1 DEF CapInv
  <2>2. SoundLog(s, d, now) /\ SoundLog(spend', d, now) /\ SameLog(s, spend')
    BY <1>0, <1>2 DEF LogInv
  <2> HIDE DEF s, d
  <2>3. Len(s) \in Nat /\ d \in Nat /\ Len(spend') = Len(s)
    BY <2>2 DEF SoundLog, SameLog
  <2>4. ASSUME NEW i \in Today(spend', d, now)
        PROVE  i \in Today(s, d, now) /\ spend'[i].atoms = s[i].atoms
    <3>1. i \in d + 1..Len(s) /\ spend'[i].ts >= now - Window
          /\ countsTowardCap(spend'[i].status)
      BY <2>3, <2>4 DEF Today
    <3>2. i \in 1..Len(s)
      BY <2>3, <3>1
    <3>3. spend'[i].ts = s[i].ts /\ spend'[i].status = s[i].status
          /\ spend'[i].atoms = s[i].atoms
      BY <2>2, <3>2 DEF SameLog
    <3> QED BY <3>1, <3>3 DEF Today
  <2>5. Within(SpentIn(spend', d, now))
    BY <2>1, <2>2, <2>4, WithinLess
  <2> QED BY <1>2, <2>1, <2>5 DEF s, d
<1>9. ClaimsCovered'
  <2> SUFFICES ASSUME \A o \in Others : rail'[o] = "running",
                      NEW p \in Calls, NEW s \in {spend', spendFile.log}
               PROVE  SumFunctionOnSet(Claims(p)', Calls)
                         <= Cardinality(CountedIn(s, p)) + diskFaults + Excused(p)
    BY <1>1, <1>2, ExcusedSame DEF ClaimsCovered
  <2> DEFINE f == Claims(p)
             g == Claims(p)'
             m == Cardinality(CountedIn(spendFile.log, p))
             e == Excused(p)
  <2>1. \A o \in Others : rail[o] = "running"
    BY <1>1
  <2>2. CountedIn(s, p) = CountedIn(spendFile.log, p)
    BY <1>2 DEF CountedIn, SameLog
  <2>3. SumFunctionOnSet(f, Calls) <= m + diskFaults + e
    BY <1>0, <2>1 DEF ClaimsCovered
  <2>4. m \in Nat /\ diskFaults \in Nat /\ e \in Nat
    <3>1. spendFile.log \in Seq(Entries)
      BY <1>0 DEF LogInv
    <3> QED BY <1>0, <3>1, CountedFinite, ExcusedNat DEF LogInv
  <2>5. ASSUME NEW c \in Calls
        PROVE  Weight(call'[c], rail'[c], c \in late') <= Weight(call[c], rail[c], c \in late)
    <3>1. rail'[c] = rail[c] /\ c \notin late'
      BY <1>1
    <3>2. ~FailureHeld(call'[c]) /\ call'[c].pc \notin {"expect", "tip"}
      BY <1>3 DEF FailureHeld
    <3> QED BY <3>1, <3>2 DEF Weight, TipOut
  <2>6. \A c \in Calls : /\ f[c] = IF Same(c, p) THEN Weight(call[c], rail[c], c \in late) ELSE 0
                         /\ g[c] = IF Same(c, p) THEN Weight(call'[c], rail'[c], c \in late')
                                                 ELSE 0
    BY DEF Claims
  <2>7. \A c \in Calls : f[c] \in Int /\ g[c] \in Int
    BY ClaimsNat
  <2> HIDE DEF f, g, m, e
  <2>8. \A c \in Calls : f[c] \in Int /\ g[c] \in Int /\ g[c] <= f[c]
    BY <2>5, <2>6, <2>7
  <2>9. IsFiniteSet(Calls)
    BY BridgeAssumption
  <2>10. SumFunctionOnSet(g, Calls) <= SumFunctionOnSet(f, Calls)
    BY <2>8, <2>9, SumMonotone
  <2>11. SumFunctionOnSet(g, Calls) \in Int /\ SumFunctionOnSet(f, Calls) \in Int
    BY <2>7, <2>9, SumInt
  <2>12. SumFunctionOnSet(g, Calls) <= m + diskFaults + e
    BY <2>3, <2>4, <2>10, <2>11
  <2> QED BY <2>2, <2>12 DEF g, m, e
<1> QED BY <1>2, <1>5, <1>6, <1>7, <1>8, <1>9 DEF BridgeInv

-----------------------------------------------------------------------------
(* The invariant, and what follows.                                        *)

LEMMA BridgeInitial == ASSUME Init PROVE BridgeInv
<1>1. spend = <<>> /\ dropped = 0 /\ spendSeq = 0 /\ now = 0 /\ diskFaults = 0
      /\ spendFile = [log |-> <<>>, dropped |-> 0]
  BY DEF Init
<1>2. /\ settings \in Policies /\ call = [c \in Calls |-> NewCall] /\ waiters = <<>>
      /\ rail = [p \in Calls \cup Others |-> IF p \in Others THEN "running" ELSE "none"]
      /\ late = {} /\ raced = FALSE /\ revived = FALSE /\ unsure = {}
  BY DEF Init
<1>3. LogInv
  <2>1. SoundLog(<<>>, 0, 0)
    BY DEF SoundLog
  <2>2. spendFile.log = <<>> /\ spendFile.dropped = 0
        /\ spendFile \in [log : Seq(Entries), dropped : Nat]
    BY <1>1
  <2>3. \A i \in 1..Len(spend) : spend[i].seq <= spendSeq
    BY <1>1
  <2> QED BY <1>1, <2>1, <2>2, <2>3 DEF LogInv
<1>4. NewCall \in CallStates /\ NewCall.pc = "new" /\ NewCall.result = "none"
  BY DEF NewCall, CallStates
<1>5. \A c \in Calls : call[c] = NewCall /\ rail[c] = "none"
  BY <1>2, BridgeAssumption
<1>6. CallInv
  <2>1. ASSUME NEW c \in Calls PROVE Knows(c, call[c], rail[c], spendSeq, spend)
    BY <1>4, <1>5 DEF Knows, Paying
  <2>2. call \in [Calls -> CallStates]
    BY <1>2, <1>4
  <2>3. rail \in [Calls \cup Others -> {"none", "running", "settled", "failed"}]
    BY <1>2
  <2> QED BY <1>2, <2>1, <2>2, <2>3 DEF CallInv
<1>7. WaiterInv
  BY <1>2 DEF WaiterInv, IsInjective
<1>8. Checked
  BY <1>4, <1>5 DEF Checked
<1>9. CapInv
  <2>1. Today(<<>>, 0, now) = {}
    BY DEF Today
  <2>2. SpentIn(<<>>, 0, now) = 0
    BY <2>1, SumEmpty DEF SpentIn
  <2> QED BY <1>1, <2>2 DEF CapInv, Within
<1>10. ClaimsCovered
  <2>1. ASSUME NEW p \in Calls, NEW s \in {spend, spendFile.log}
        PROVE  SumFunctionOnSet(Claims(p), Calls)
                  <= Cardinality(CountedIn(s, p)) + diskFaults + Excused(p)
    <3> DEFINE f == Claims(p)
    <3>1. \A c \in Calls : Weight(call[c], rail[c], c \in late) = 0
      BY <1>4, <1>5, <1>2 DEF Weight, TipOut, FailureHeld
    <3>2. \A c \in Calls : f[c] = 0
      BY <3>1 DEF Claims
    <3> HIDE DEF f
    <3>3. IsFiniteSet(Calls)
      BY BridgeAssumption
    <3>4. SumFunctionOnSet(f, Calls) = 0
      BY <3>2, <3>3, SumZero
    <3>5. s = <<>> /\ s \in Seq(Entries)
      <4>1. spend = <<>> /\ spendFile.log = <<>>
        BY <1>1
      <4>2. s = <<>>
        BY <4>1
      <4>3. <<>> \in Seq(Entries)
        OBVIOUS
      <4> QED BY <4>2, <4>3
    <3>6. Cardinality(CountedIn(s, p)) \in Nat
      BY <3>5, CountedFinite
    <3>7. SumFunctionOnSet(f, Calls)
             <= Cardinality(CountedIn(s, p)) + diskFaults + Excused(p)
      <4>1. Excused(p) \in Nat
        BY <1>6, ExcusedNat
      <4> QED BY <1>1, <3>4, <3>6, <4>1
    <3> QED BY <3>7 DEF f
  <2> QED BY <2>1 DEF ClaimsCovered
<1> QED BY <1>3, <1>6, <1>7, <1>8, <1>9, <1>10 DEF BridgeInv

LEMMA BridgeStep == ASSUME BridgeInv, [Next]_vars PROVE BridgeInv'
<1>1. ASSUME NEW c \in Calls, Settle(c) PROVE BridgeInv'
  BY <1>1, SettleKeeps
<1>2. ASSUME NEW c \in Calls, SettleStep(c) PROVE BridgeInv'
  BY <1>2, RefuseKeeps, AwaitKeeps, RecordKeeps, ExpectKeeps, TipStartsKeeps,
     TipRefusedKeeps, PayReturnsKeeps, PayExpiresKeeps, ForwardKeeps, PayFailedKeeps,
     PayDoneKeeps DEF SettleStep
<1>3. ASSUME NEW c \in Calls, NEW d \in {"approve", "deny"}, ResolvePayment(c, d)
      PROVE  BridgeInv'
  BY <1>3, ResolvePaymentKeeps
<1>4. ASSUME NEW p \in Calls \cup Others, NEW ok \in BOOLEAN, Progress(p, ok)
      PROVE  BridgeInv'
  BY <1>4, ProgressKeeps
<1>5. ASSUME NEW p \in Calls \cup Others, resolveLate(p) PROVE BridgeInv'
  BY <1>5, ResolveLateKeeps
<1>6. ASSUME NEW s \in Policies, ApplySettings(s) PROVE BridgeInv'
  BY <1>6, ApplySettingsKeeps
<1>7. ASSUME Restart PROVE BridgeInv'
  BY <1>7, RestartKeeps
<1>8. ASSUME Tick PROVE BridgeInv'
  BY <1>8, TickKeeps
<1>9. ASSUME UNCHANGED vars PROVE BridgeInv'
  <2>1. /\ UNCHANGED <<spend, dropped, spendSeq, spendFile, diskFaults, now>>
        /\ UNCHANGED <<settings, call, waiters, rail, late, raced, revived, unsure>>
    BY <1>9 DEF vars, log
  <2>2. LogInv /\ CallInv /\ WaiterInv /\ ClaimsCovered /\ Checked /\ CapInv
    BY DEF BridgeInv
  <2>3. LogInv' /\ CapInv'
    BY <2>1, <2>2, QuietLog, QuietCap DEF Quiet
  <2>4. CallInv' /\ WaiterInv' /\ Checked'
    BY <2>1, <2>2 DEF CallInv, WaiterInv, Checked
  <2>5. ClaimsCovered'
    BY <2>1, <2>2 DEF ClaimsCovered, Claims, Excused, UnsureOf
  <2> QED BY <2>3, <2>4, <2>5 DEF BridgeInv
<1> QED BY <1>1, <1>2, <1>3, <1>4, <1>5, <1>6, <1>7, <1>8, <1>9 DEF Next

\* The invariant holds in every reachable state of every instance.
THEOREM BridgeInvCorrect == Spec => []BridgeInv
<1>1. Init => BridgeInv
  BY BridgeInitial
<1>2. BridgeInv /\ [Next]_vars => BridgeInv'
  BY BridgeStep
<1> QED BY <1>1, <1>2, PTL DEF Spec

\* Only refusals are logged without an amount, no entry is from the future, and
\* nobody waits who is not in Pay (settle, TipMatcher).
THEOREM BridgeTypeCorrect == Spec => []BridgeTypeOK
<1>1. BridgeInv => BridgeTypeOK
  <2> SUFFICES ASSUME BridgeInv PROVE BridgeTypeOK
    OBVIOUS
  <2>0. LogInv /\ CallInv /\ WaiterInv /\ SoundLog(spend, dropped, now)
    BY DEF BridgeInv, LogInv
  <2>1. spend \in Seq(Entries) /\ dropped \in 0..Len(spend) /\ DOMAIN spend = 1..Len(spend)
        /\ now \in Nat /\ spendSeq \in Nat
    BY <2>0 DEF SoundLog, LogInv
  <2>2. ASSUME NEW i \in 1..Len(spend)
        PROVE  /\ spend[i].status \in {"pending", "paid", "failed", "refused"}
               /\ spend[i].ts \in 0..now /\ spend[i].seq \in 0..spendSeq
               /\ spend[i].status # "refused" => spend[i].atoms > 0
    <3>1. /\ spend[i].ts \in Nat /\ spend[i].seq \in Nat /\ spend[i].ts <= now
          /\ spend[i].status \in Statuses
          /\ spend[i].status # "refused" => spend[i].atoms > 0
      BY <2>0, SoundEntry
    <3>2. spend[i].seq <= spendSeq
      BY <2>0 DEF LogInv
    <3>3. spend[i].ts \in 0..now /\ spend[i].seq \in 0..spendSeq
      BY <2>1, <3>1, <3>2
    <3> QED BY <3>1, <3>3 DEF Statuses
  <2>3. IsInjective(waiters)
        /\ \A i \in DOMAIN waiters : At(waiters[i], "tip") \/ At(waiters[i], "wait")
    BY <2>0 DEF WaiterInv, At
  <2>4. settings \in Policies
        /\ late \subseteq {p \in DOMAIN rail : rail[p] \in {"settled", "failed"}}
        /\ unsure \subseteq {c \in Calls : rail[c] # "none"}
    BY <2>0 DEF CallInv
  <2> QED BY <2>1, <2>2, <2>3, <2>4 DEF BridgeTypeOK
<1> QED BY <1>1, BridgeInvCorrect, PTL

\* Every tip that moved money or may still move it is covered by an entry that
\* counts, but for one for each failed write and each tip that was sent though
\* starting it erred, and pruning takes no entry that
\* counts or waits for its outcome (TipMatcher, ResolveSpend, persistSpendLocked).
THEOREM LogCoversMoneyCorrect == Spec => []LogCoversMoney
<1>1. BridgeInv => LogCoversMoney
  <2> SUFFICES ASSUME BridgeInv PROVE LogCoversMoney
    OBVIOUS
  <2>0. LogInv /\ CallInv /\ ClaimsCovered /\ SoundLog(spend, dropped, now)
    BY DEF BridgeInv, LogInv
  <2>1. PruneSafe
    BY <2>0 DEF PruneSafe, SoundLog, InWindow
  <2>2. ASSUME \A o \in Others : rail[o] = "running", NEW c \in Calls
        PROVE  Cardinality(Counted(c)) + diskFaults + Cardinality(UnsureOf(c))
                  >= Cardinality(Moving(c))
    <3> DEFINE f == Claims(c)
               T == Moving(c)
    <3>1. SumFunctionOnSet(f, Calls)
             <= Cardinality(CountedIn(spend, c)) + diskFaults + Excused(c)
      BY <2>0, <2>2 DEF ClaimsCovered
    <3>2. T \in SUBSET Calls /\ IsFiniteSet(Calls) /\ IsFiniteSet(T)
      BY BridgeAssumption, FS_Subset DEF Moving
    <3>3. \A d \in Calls : f[d] \in Nat
      BY ClaimsNat
    <3>4. \A d \in T : 1 <= f[d]
      <4> TAKE d \in T
      <4>1. d \in Calls /\ rail[d] \in {"running", "settled"} /\ Same(d, c)
        BY DEF Moving, Same
      <4>2. 1 <= Weight(call[d], rail[d], d \in late)
        BY <4>1 DEF Weight, TipOut
      <4>3. f[d] = Weight(call[d], rail[d], d \in late)
        BY <4>1 DEF Claims
      <4> QED BY <4>2, <4>3
    <3>5. spend \in Seq(Entries)
      BY <2>0 DEF SoundLog
    <3>6. Counted(c) = CountedIn(spend, c)
      BY <3>5 DEF Counted, CountedIn
    <3>7. SumFunctionOnSet(f, Calls) \in Nat /\ Cardinality(CountedIn(spend, c)) \in Nat
          /\ Cardinality(T) \in Nat /\ diskFaults \in Nat /\ Excused(c) \in Nat
      <4> HIDE DEF f, T
      <4> QED BY <2>0, <3>2, <3>3, <3>5, CountedFinite, ExcusedNat, SumNat,
                 FS_CardinalityType DEF LogInv
    <3>8. Cardinality(T) <= SumFunctionOnSet(f, Calls)
      <4> HIDE DEF f, T
      <4> QED BY <3>2, <3>3, <3>4, SumCounts
    <3> QED BY <3>1, <3>6, <3>7, <3>8 DEF Excused
  <2>3. MoneyCovered
    BY <2>2 DEF MoneyCovered
  <2> QED BY <2>1, <2>3 DEF LogCoversMoney
<1> QED BY <1>1, BridgeInvCorrect, PTL

\* The day's total passes the cap only where settle races with settle, or marks
\* paid what an equal tip's outcome had failed (settle, markSpendLocked): no
\* failed write, and no restart on what it left, takes it there.
THEOREM CapUnlessRacedCorrect == Spec => []CapUnlessRaced
<1>1. BridgeInv => CapUnlessRaced
  <2> SUFFICES ASSUME BridgeInv, ~raced, ~revived PROVE WithinCap
    BY DEF CapUnlessRaced
  <2>1. Within(SpentToday)
    BY SpentIs DEF BridgeInv, CapInv
  <2> QED BY <2>1 DEF Within, WithinCap
<1> QED BY <1>1, BridgeInvCorrect, PTL
=============================================================================
