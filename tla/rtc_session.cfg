SPECIFICATION Spec
CONSTANTS
    c1 = c1
    c2 = c2
    p1 = p1
    p2 = p2
    f1 = f1
    f2 = f2
    f3 = f3
    f4 = f4
    f5 = f5
    Conn = {c1, c2}
    Peer = {p1, p2}
    PeerOf <- OwnPeers
    File = {f1, f2, f3, f4, f5}
    ConnOf <- TwoOfFirst
    Size <- MixedSizes
    None = None
    PinSet = TRUE
    RequirePairing = TRUE
    KnownPeers = {}
    Allowed = {f1, f2}
    Hashed = {f1, f2}
    MaxFilesPerSession = 2
    MaxPINAttempts = 2
    StaleHandlers = FALSE
    IdleChecks = 1
    DiskMayFail = TRUE
    KnowsPin = {c1}
    Keyless = {c1, c2}
    PairAnswers = {TRUE, FALSE}
INVARIANTS
    SuccessMeansSaved
    TypeOK
    AcksNotDropped
    PartialOnlyWhileActive
    PairedBeforeTokens
CHECK_DEADLOCK FALSE
