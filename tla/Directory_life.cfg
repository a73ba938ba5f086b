SPECIFICATION Spec
CONSTANTS
    Nil = Nil
    Fee = 1
    Budget = 1
    TipAtoms = 2
    Quotes = {1, 2}
    Expiry = 1
    MaxRegs = 2
    MaxTips = 2
    MaxTime = 1
    MaxDiskFaults = 1
    MaxCrashes = 1
CHECK_DEADLOCK FALSE
INVARIANTS
    DirectoryTypeOK
    ListedUnlessOvertaken
    ProviderPaysOnce
    OneKeyPerTest
