SPECIFICATION RelaySpec
CONSTANTS
    a1 = a1
    a2 = a2
    a3 = a3
    b1 = b1
    b2 = b2
    b3 = b3
    ra = ra
    rb = rb
    k1 = k1
    k2 = k2
    p1 = p1
    NoKey = NoKey
    NoCall = NoCall
    NoSession = NoSession
    Calls = {a1, a2, a3, b1, b2, b3}
    Keys = {k1, k2}
    Peers = {p1}
    Relays = {ra, rb}
    Attempts <- InOrder
    KeyOf <- OneKeyEach
    CallerOf <- OneCaller
    Bridge = p1
    Prices = {0}
    Tips = {2}
    Tip = 2
    MaxDeposit = 0
    CallKeyTTL = 0
    MaxTime = 0
    MaxCrashes = 0
    MaxDiskFaults = 0
    MaxPolls = 2
    MaxSessions = 3
    Shared = FALSE
    MaxBreaks = 1
    MaxSettings = 0
    MayClose = FALSE
INVARIANTS
    OneFailureIsAbsorbed
CHECK_DEADLOCK FALSE
