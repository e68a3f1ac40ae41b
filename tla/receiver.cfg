CONSTANTS
    Disc = {d1, d2}
    Device = {p1, p2}
    Together = {p1, p2}
    HostOf <- MCHostOf
    None = None
    MaxResponses = 1
    MaxReceiveErrors = 2
    IP = {i1, Loopback}
    Loopback = Loopback
    MaxTotal = 3
    MaxPerIP = 2
    MaxPINAttempts = 1
    CmdSlots = 1
SPECIFICATION FairSpec
INVARIANTS TypeOK ScanSeesAll NoMissedChange CountersMatch GuessBudget
PROPERTY StopCompletes
CHECK_DEADLOCK FALSE
