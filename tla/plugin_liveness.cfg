SPECIFICATION FairSpec
CONSTANTS
    Proc = {p1, p2, p3}
    None = None
    Autostart = TRUE
    TmpMayFill = FALSE
    MaxAttempts = 1
PROPERTIES ReceiverReturns FirewallClosed
CHECK_DEADLOCK FALSE
