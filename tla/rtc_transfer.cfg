SPECIFICATION OrderedSpec
CONSTANTS
    c1 = c1
    c2 = c2
    p1 = p1
    p2 = p2
    f1 = f1
    f2 = f2
    f3 = f3
    f4 = f4
    f5 = f5
    Conn = {c1, c2}
    Peer = {p1, p2}
    PeerOf <- OwnPeers
    File = {f1, f2}
    ConnOf <- OneEach
    Size <- MixedSizes
    None = None
    PinSet = FALSE
    RequirePairing = TRUE
    KnownPeers = {}
    Allowed = {f1, f2}
    Hashed = {f1, f2}
    MaxFilesPerSession = 2
    MaxPINAttempts = 2
    StaleHandlers = TRUE
    IdleChecks = 1
    DiskMayFail = FALSE
    KnowsPin = {c1, c2}
    Keyless = {c1}
    PairAnswers = {TRUE, FALSE}
INVARIANTS
    KeysVerified
PROPERTIES
    RTCDelivery
    ReceiverFreed
    TransferEnds
CHECK_DEADLOCK FALSE
