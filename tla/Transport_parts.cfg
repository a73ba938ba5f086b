SPECIFICATION TransportSpec
CONSTANTS
    p1 = p1
    p2 = p2
    m1 = m1
    m2 = m2
    m3 = m3
    m4 = m4
    Handlers = {h1, h2}
    Peers = {p1}
    Allowed = {p1}
    InSids = {s1, s2}
    DialSids = {d1}
    MaxSessionsPerPeer = 1
    InboxSize = 1
    IdleTimeout = 0
    MaxConns = 3
    MaxTime = 1
    Senders = {p1, p2}
    Messages = {m1, m2, m3, m4}
    PeerOf <- SenderOf
    LenOf <- Lengths
    ExpOf <- Deadlines
    Rogue <- RogueParts
    ChunkSize = 2
    MaxParts = 3
    MaxPendingPerPeer = 1
    MaxMessageBytes = 5
    MaxTotalBytes = 6
    Timeout = 1
    MaxClock = 3
CHECK_DEADLOCK FALSE
SYMMETRY Symmetry
INVARIANTS
    RouterTypeOK
    TableExact
    NothingOutlivesClose
    HandlePMNeverBlocks
    AssemblerTypeOK
    BuffersAccounted
    ReturnedIntact
PROPERTIES
    NoRevival
    FreshCompletion
