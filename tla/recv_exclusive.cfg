SPECIFICATION Spec
CONSTANTS
    Session = {s1, s2}
    Client = {c1}
    File = {f1}
    Upload = {u1}
    Dest = {d1}
    DestOf <- SameDest
    FolderDests = {}
    WithChecksum = {f1}
    FileSize = 1
    MaxSuffix = 0
    MaxConcurrentSessions = 2
    MaxFilesPerSession = 1
    MaxChecksumAttempts = 2
    SessionTimeout = 0
    UploadIdleTimeout = 1
    RemoveMayFail = FALSE
    None = None
    User = User
INVARIANT AtMostOneActive
CHECK_DEADLOCK FALSE
