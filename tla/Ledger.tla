------------------------------- MODULE Ledger -------------------------------
(***************************************************************************)
(* The server-authoritative balance store (server/ledger.go): per-caller   *)
(* balances in memory, and the file every mutation rewrites synchronously  *)
(* (temporary file, then rename: the file is replaced whole or not at      *)
(* all).  The mutation happens in memory BEFORE the file is written and is *)
(* not undone when the write fails.                                        *)
(***************************************************************************)
EXTENDS Integers

CONSTANTS
    Peers,          \* caller uids
    MaxDiskFaults   \* bound: how many file writes may fail

ASSUME LedgerAssumption == MaxDiskFaults \in Nat

VARIABLES
    balances,       \* Ledger.data.Balances
    ledgerFile,     \* what ledger.json holds
    diskFaults      \* how many writes have failed so far

ledgerVars == <<balances, ledgerFile, diskFaults>>

\* One attempt to replace a file: it succeeds (ok) or fails.
Write(ok) ==
    /\ ok \in BOOLEAN
    /\ ~ok => diskFaults < MaxDiskFaults
    /\ diskFaults' = IF ok THEN diskFaults ELSE diskFaults + 1

\* persistLocked, called with the mutated balances b.
persistLocked(b, ok) ==
    /\ balances' = b
    /\ ledgerFile' = IF ok THEN b ELSE ledgerFile
    /\ Write(ok)

\* Credit; ok is whether it returns a nil error.
Credit(uid, atoms, ok) ==
    IF atoms <= 0
    THEN ok /\ UNCHANGED ledgerVars
    ELSE persistLocked([balances EXCEPT ![uid] = @ + atoms], ok)

\* Mutant: the balance is not compared with the amount.
InsufficientIfNegative(uid, atoms) == balances[uid] < 0

\* The refusal ErrInsufficient, which changes nothing.
Insufficient(uid, atoms) == balances[uid] < atoms

\* Debit of a sufficient balance; ok is whether it returns a nil error.
Debit(uid, atoms, ok) ==
    /\ ~Insufficient(uid, atoms)
    /\ persistLocked([balances EXCEPT ![uid] = @ - atoms], ok)

\* OpenLedger after a restart: memory is what the file holds.
OpenLedger == balances' = ledgerFile /\ UNCHANGED <<ledgerFile, diskFaults>>

\* Every value has its type: no balance is negative, in memory or on disk
\* (Debit).
LedgerTypeOK ==
    /\ balances \in [Peers -> Nat]
    /\ ledgerFile \in [Peers -> Nat]
    /\ diskFaults \in 0..MaxDiskFaults
=============================================================================
