SPECIFICATION FairSpec
CONSTANTS
    p1 = p1
    p2 = p2
    Peers = {p1, p2}
    AllowedPeers = {p1}
    NumTips = 3
    Payer <- TipPayers
    Matoms <- TipMatoms
    MatomsPerAtom = 1000
    Keep = 2
    ChanCap = 2
    MaxDrops = 1
    MaxCrashes = 2
    MaxDiskFaults = 1
INVARIANTS
    TipTypeOK
    AckedIsCredited
    OverCreditBounded
PROPERTIES
    EveryTipAcked
CHECK_DEADLOCK FALSE
