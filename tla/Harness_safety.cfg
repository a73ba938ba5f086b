SPECIFICATION Spec
SYMMETRY Symmetry
CONSTANTS
    c1 = c1
    c2 = c2
    c3 = c3
    k1 = k1
    p1 = p1
    NoKey = NoKey
    NoCall = NoCall
    Calls = {c1, c2, c3}
    Keys = {k1}
    Peers = {p1}
    KeyOf <- TwoAndUnkeyed
    CallerOf <- OneCaller
    Prices = {0, 2}
    Tips = {4}
    MaxDeposit = 4
    CallKeyTTL = 0
    MaxTime = 1
    MaxCrashes = 2
    MaxDiskFaults = 1
INVARIANTS
    TypeOK
    SingleFlight
    SettledIsFinal
    OutcomeWasProduced
    LedgerAddsUp
    GivenBackOncePerCrash
PROPERTIES
    ImplementsPaidCall
CHECK_DEADLOCK FALSE
