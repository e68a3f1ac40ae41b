SPECIFICATION Spec
CONSTANTS
    Proc = {p1, p2, p3}
    None = None
    Autostart = TRUE
    TmpMayFill = TRUE
    MaxAttempts = 1
INVARIANTS TypeOK OneReceiver
PROPERTY UserStopRespected
CHECK_DEADLOCK FALSE
