SPECIFICATION FairSpec
CONSTANTS
    File = {f1, f2}
    Worker = {w1, w2}
    None = None
    MaxUploadAttempts = 2
    IdleTimeout = 2
    DeadlineRefresh = 1
INVARIANTS
    NilMeansSent
    CancelStopsUploads
    FailureReleasesRemote
    NoResend
PROPERTIES
    SlowUploadsSurvive
    StartReturns
CHECK_DEADLOCK FALSE
