SPECIFICATION FairSpec
CONSTANTS
    bot = bot
    c1 = c1
    c2 = c2
    c3 = c3
    Calls = {c1, c2}
    Others = {}
    BotOf <- Payees
    Shortfall <- Shortfalls
    Price <- Prices
    Policies <- Either
    Window = 0
    SpendKeep = 1
    MaxTime = 1
    MaxDiskFaults = 1
    MaxCrashes = 1
CHECK_DEADLOCK FALSE
INVARIANTS
    BridgeTypeOK
    LogCoversMoney
    CapUnlessRaced
PROPERTIES
    EverySettleReturns
