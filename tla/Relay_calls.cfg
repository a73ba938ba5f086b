SPECIFICATION RelayFairSpec
CONSTANTS
    a1 = a1
    a2 = a2
    a3 = a3
    b1 = b1
    b2 = b2
    b3 = b3
    ra = ra
    rb = rb
    k1 = k1
    k2 = k2
    p1 = p1
    NoKey = NoKey
    NoCall = NoCall
    NoSession = NoSession
    Calls = {a1, a2, a3}
    Keys = {k1}
    Peers = {p1}
    Relays = {ra}
    Attempts <- InOrder
    KeyOf <- OneKeyEach
    CallerOf <- OneCaller
    Bridge = p1
    Prices = {1}
    Tips = {2}
    Tip = 2
    MaxDeposit = 2
    CallKeyTTL = 0
    MaxTime = 0
    MaxCrashes = 1
    MaxDiskFaults = 0
    MaxPolls = 2
    MaxSessions = 2
    Shared = TRUE
    MaxBreaks = 1
    MaxSettings = 1
    MayClose = FALSE
INVARIANTS
    RelayTypeOK
    ChargedOnce
    AnswerMatchesBill
PROPERTIES
    EverythingIsAnswered
CHECK_DEADLOCK FALSE
