SPECIFICATION Spec
CONSTANTS
    d1 = d1
    d2 = d2
    j1 = j1
    j2 = j2
    j3 = j3
    Jobs = {j1, j2, j3}
    DirOf <- Directories
    Amounts = {0, 1, 2, 3}
    Enabled = TRUE
    AllowedDirs = {d1, d2}
    MaxAtomsPerRequest = 2
    MaxAtomsPerMonth = 3
    Month = 1
    MaxTime = 2
    MaxDiskFaults = 1
    MaxCrashes = 1
INVARIANTS
    RegistrantTypeOK
    HistoryCoversMoney
    MonthlyCapUnlessRaced
CHECK_DEADLOCK FALSE
