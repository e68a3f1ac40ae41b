SPECIFICATION FairSpec
CONSTANTS
    Session = {s1}
    Client = {c1}
    File = {f1, f2}
    Upload = {u1, u2}
    Dest = {d1}
    DestOf <- SameDest
    FolderDests = {d1}
    WithChecksum = {}
    FileSize = 1
    MaxSuffix = 1
    MaxConcurrentSessions = 1
    MaxFilesPerSession = 2
    MaxChecksumAttempts = 1
    SessionTimeout = 0
    UploadIdleTimeout = 1
    RemoveMayFail = TRUE
    None = None
    User = User
INVARIANTS
    CountMatchesOpenFiles
    OneFolderPerSession
PROPERTIES
    UploadsAnswered
    SessionsReclaimed
CHECK_DEADLOCK FALSE
