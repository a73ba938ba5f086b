SPECIFICATION FairSpec
CONSTANTS
    Nil = Nil
    Fee = 1
    Budget = 1
    TipAtoms = 2
    Quotes = {1, 2}
    Expiry = 1
    MaxRegs = 2
    MaxTips = 2
    MaxTime = 0
    MaxDiskFaults = 0
    MaxCrashes = 0
CHECK_DEADLOCK FALSE
PROPERTIES
    VerificationStarts
