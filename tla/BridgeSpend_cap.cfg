SPECIFICATION Spec
CONSTANTS
    bot = bot
    c1 = c1
    c2 = c2
    c3 = c3
    Calls = {c1, c2, c3}
    Others = {o1}
    BotOf <- Payees
    Shortfall <- Shortfalls
    Price <- Prices
    Policies <- Autopay
    Window = 1
    SpendKeep = 9
    MaxTime = 0
    MaxDiskFaults = 0
    MaxCrashes = 0
CHECK_DEADLOCK FALSE
INVARIANTS
    CapIsHard
