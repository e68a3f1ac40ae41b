---------------------------- MODULE RecvSessions ----------------------------
(***************************************************************************)
(* The HTTP receive path of the LocalSend backend: the session manager     *)
(* (session/recvsessman.go), the receive session with its per-file upload  *)
(* state machine (session/recv.go), the handlers that drive them           *)
(* (recv/handlers.go) and the unique-name allocation they use              *)
(* (utils/files.go, utils/folderremap.go).                                 *)
(*                                                                         *)
(* Every request runs on its own goroutine.  A step of the model is one    *)
(* critical section, one atomic operation or one file system call; what    *)
(* happens between two of them is not ordered with the other requests, the *)
(* vacuum goroutine or the clock.  Requests the handlers reject without    *)
(* touching any state (403, 409, 429, 400) are stuttering steps.           *)
(***************************************************************************)
EXTENDS Integers, FiniteSets

CONSTANTS
    Session,                \* session ids (uuids: each is used once)
    Client,                 \* client IP addresses
    File,                   \* file ids a sender may announce
    Upload,                 \* upload requests in flight at one time
    Dest,                   \* announced relative paths
    DestOf,                 \* DestOf[f]: the announced path of file f
    FolderDests,            \* the announced paths that lie in a root folder
    WithChecksum,           \* the files announced with a sha256
    FileSize,               \* announced size, in chunks
    MaxSuffix,              \* MaxUniquePathAttempts
    MaxConcurrentSessions,
    MaxFilesPerSession,
    MaxChecksumAttempts,    \* maxChecksumAttempts
    SessionTimeout,         \* in ticks
    UploadIdleTimeout,      \* in ticks
    RemoveMayFail,          \* whether os.Remove of a partial file can fail
    None, User              \* no value; the owner of files already on disk

Key == Session \X File
Suffix == 0..MaxSuffix

\* A place on disk: root folder number (0: not remapped), path, suffix number.
Path == Suffix \X Dest \X Suffix

ASSUME RecvAssumption ==
    /\ IsFiniteSet(File) /\ IsFiniteSet(Session)
    /\ DestOf \in [File -> Dest]
    /\ FolderDests \subseteq Dest
    /\ WithChecksum \subseteq File
    /\ FileSize \in Nat /\ MaxSuffix \in Nat
    /\ MaxConcurrentSessions \in Nat /\ MaxFilesPerSession \in Nat
    /\ MaxChecksumAttempts \in Nat \ {0}
    /\ SessionTimeout \in Nat /\ UploadIdleTimeout \in Nat
    /\ RemoveMayFail \in BOOLEAN
    /\ None # User
    /\ None \notin Session \cup Client \cup Key \cup Path \cup Suffix
    /\ User \notin Key

VARIABLES
    \* RecvSessManager
    sessions,     \* the ids in the sync.Map
    admission,    \* holder of admissionMu: <<step, session>>
    vacuum,       \* session vacuumTask has found stopped and is about to delete
    answering,    \* created sessions whose prepare-upload is not answered yet
    offered,      \* sessions whose id and tokens a client has received
    killing,      \* sessions cancel took from the map and has yet to End
    \* RecvSession
    client, files, started, filesCount,
    age,          \* ticks since lastActivity, up to SessionTimeout + 1
    remap,        \* number of the session's root folder, None before it is chosen
    hint,         \* UniqueFileAllocator.next
    status, attempts, targetPath,
    \* the upload requests
    pc, job, path, suffix, written, idle, result,
    \* the save directory
    folders,      \* root folder numbers that exist
    owner,        \* who created the file at a path, None if there is none
    complete,     \* paths whose content was received in full and verified
    \* history, read by the properties only
    lapsed,       \* sessions that were inactive past SessionTimeout at some time
    acked         \* files an upload of which was answered with 200

managerVars == <<sessions, admission, vacuum, answering, offered, killing>>
sessionVars == <<client, files, started, filesCount>>
nameVars    == <<remap, hint>>
fileVars    == <<status, attempts, targetPath>>
requestVars == <<pc, job, path, suffix, written, idle, result>>
diskVars    == <<folders, owner, complete>>

vars == <<managerVars, sessionVars, age, nameVars, fileVars, requestVars,
          diskVars, lapsed, acked>>

Pending == "pending"
InProgress == "inProgress"
Finished == "finished"
Failed == "failed"
Status == {Pending, InProgress, Finished, Failed}

\* Where an upload request is in uploadHandler and SaveFile.
Steps == {"idle", "claim", "mkdir", "create", "copy", "settle", "count"}

\* The steps between finding the file pending and giving up the claim.
Claimed == {"mkdir", "create", "copy", "settle"}

Free == <<"free", None>>

TypeOK ==
    /\ sessions \subseteq Session
    /\ admission \in {Free} \cup ({"store", "start"} \X Session)
    /\ vacuum \in Session \cup {None}
    /\ answering \subseteq Session
    /\ offered \subseteq Session
    /\ killing \subseteq Session
    /\ client \in [Session -> Client \cup {None}]
    /\ files \in [Session -> SUBSET File]
    /\ started \in [Session -> BOOLEAN]
    /\ filesCount \in [Session -> Int]
    /\ age \in [Session -> 0..(SessionTimeout + 1)]
    /\ remap \in [Session -> Suffix \cup {None}]
    /\ hint \in [Session \X Dest -> 0..(MaxSuffix + 1)]
    /\ status \in [Key -> Status]
    /\ attempts \in [Key -> Nat]
    /\ targetPath \in [Key -> Path \cup {None}]
    /\ pc \in [Upload -> Steps]
    /\ job \in [Upload -> Key \cup {None}]
    /\ path \in [Upload -> Path \cup {None}]
    /\ suffix \in [Upload -> 0..(MaxSuffix + 1)]
    /\ written \in [Upload -> 0..(FileSize + 1)]
    /\ idle \in [Upload -> 0..(UploadIdleTimeout + 1)]
    /\ result \in [Upload -> {Pending, Finished, Failed}]
    /\ folders \subseteq Suffix
    /\ owner \in [Path -> Key \cup {None, User}]
    /\ complete \subseteq Path
    /\ lapsed \subseteq Session
    /\ acked \subseteq Key

-----------------------------------------------------------------------------
(* The save directory may hold folders and files of the user's already.    *)

Init ==
    /\ sessions = {} /\ admission = Free /\ vacuum = None
    /\ answering = {} /\ offered = {} /\ killing = {}
    /\ client = [s \in Session |-> None]
    /\ files = [s \in Session |-> {}]
    /\ started = [s \in Session |-> FALSE]
    /\ filesCount = [s \in Session |-> 0]
    /\ age = [s \in Session |-> 0]
    /\ remap = [s \in Session |-> None]
    /\ hint = [k \in Session \X Dest |-> 0]
    /\ status = [k \in Key |-> Pending]
    /\ attempts = [k \in Key |-> 0]
    /\ targetPath = [k \in Key |-> None]
    /\ pc = [u \in Upload |-> "idle"]
    /\ job = [u \in Upload |-> None]
    /\ path = [u \in Upload |-> None]
    /\ suffix = [u \in Upload |-> 0]
    /\ written = [u \in Upload |-> 0]
    /\ idle = [u \in Upload |-> 0]
    /\ result = [u \in Upload |-> Failed]
    /\ folders \in {{}, {0}}
    /\ complete \in {{}} \cup {{<<0, d, 0>>} : d \in Dest \ FolderDests}
    /\ owner = [p \in Path |-> IF p \in complete THEN User ELSE None]
    /\ lapsed = {} /\ acked = {}

-----------------------------------------------------------------------------
(* The session manager.                                                    *)

Timeout(s) == age[s] > SessionTimeout

StoppedIgnoringTimeout(s) == ~started[s] \/ filesCount[s] = 0        \* mutant

\* Stopped reads three atomics one after the other; here they are read at once.
Stopped(s) == Timeout(s) \/ ~started[s] \/ filesCount[s] = 0

HasActiveUpload == \E u \in Upload : pc[u] = "copy"                  \* mutant

HasActiveSessions == \E s \in sessions : ~Stopped(s)

\* End: the compare-and-swap lets one caller reset the count.
End(s) ==
    /\ started' = [started EXCEPT ![s] = FALSE]
    /\ filesCount' = [filesCount EXCEPT ![s] = IF started[s] THEN 0 ELSE @]
    /\ UNCHANGED <<client, files>>

\* prepare-upload, under admissionMu: no session may be active, and the new
\* session accepts every file of the request.
CreateSessionIfAllowed(c, s, fs) ==
    /\ admission = Free
    /\ files[s] = {}
    /\ fs # {}
    /\ ~HasActiveSessions
    /\ Cardinality(sessions) < MaxConcurrentSessions
    /\ Cardinality(fs) <= MaxFilesPerSession
    /\ admission' = <<"store", s>>
    /\ client' = [client EXCEPT ![s] = c]
    /\ files' = [files EXCEPT ![s] = fs]
    /\ filesCount' = [filesCount EXCEPT ![s] = Cardinality(fs)]
    /\ UNCHANGED <<sessions, vacuum, answering, offered, killing, started, age,
                   nameVars, fileVars, requestVars, diskVars, lapsed, acked>>

StoreSession(s) ==
    /\ admission = <<"store", s>>
    /\ sessions' = sessions \cup {s}
    /\ admission' = <<"start", s>>
    /\ UNCHANGED <<vacuum, answering, offered, killing, sessionVars, age,
                   nameVars, fileVars, requestVars, diskVars, lapsed, acked>>

StartSession(s) ==
    /\ admission = <<"start", s>>
    /\ started' = [started EXCEPT ![s] = TRUE]
    /\ admission' = Free
    /\ answering' = answering \cup {s}
    /\ UNCHANGED <<sessions, vacuum, offered, killing, client, files, filesCount,
                   age, nameVars, fileVars, requestVars, diskVars, lapsed, acked>>

\* The sender learns the session id and the tokens unless the vacuum has
\* already taken the session from the map (500).
GeneratePreUploadResp(s) ==
    /\ s \in answering
    /\ answering' = answering \ {s}
    /\ offered' = offered \cup ({s} \cap sessions)
    /\ UNCHANGED <<sessions, admission, vacuum, killing, sessionVars, age,
                   nameVars, fileVars, requestVars, diskVars, lapsed, acked>>

\* vacuumTask looks at one session and deletes it in a second step; it does not
\* hold admissionMu.
VacuumCheck(s) ==
    /\ vacuum = None
    /\ s \in sessions
    /\ Stopped(s)
    /\ vacuum' = s
    /\ UNCHANGED <<sessions, admission, answering, offered, killing, sessionVars,
                   age, nameVars, fileVars, requestVars, diskVars, lapsed, acked>>

VacuumDelete ==
    /\ vacuum # None
    /\ sessions' = sessions \ {vacuum}
    /\ vacuum' = None
    /\ UNCHANGED <<admission, answering, offered, killing, sessionVars, age,
                   nameVars, fileVars, requestVars, diskVars, lapsed, acked>>

\* cancel: LoadAndDelete gives the session to one caller, which then Ends it.
KillSessionForClient(c, s) ==
    /\ s \in offered \cap sessions
    /\ c = client[s]
    /\ sessions' = sessions \ {s}
    /\ killing' = killing \cup {s}
    /\ UNCHANGED <<admission, vacuum, answering, offered, sessionVars, age,
                   nameVars, fileVars, requestVars, diskVars, lapsed, acked>>

KillEnd(s) ==
    /\ s \in killing
    /\ killing' = killing \ {s}
    /\ End(s)
    /\ UNCHANGED <<sessions, admission, vacuum, answering, offered, age,
                   nameVars, fileVars, requestVars, diskVars, lapsed, acked>>

-----------------------------------------------------------------------------
(* The clock.  A body read fails as soon as its deadline has passed.       *)

Tick ==
    LET aged == {s \in Session : files[s] # {} /\ age[s] <= SessionTimeout}
        waiting == {u \in Upload : pc[u] = "copy"}
    IN  /\ aged # {} \/ waiting # {}
        /\ \A u \in waiting : idle[u] <= UploadIdleTimeout
        /\ age' = [s \in Session |-> IF s \in aged THEN age[s] + 1 ELSE age[s]]
        /\ idle' = [u \in Upload |-> IF u \in waiting THEN idle[u] + 1 ELSE idle[u]]
        /\ lapsed' = lapsed \cup {s \in aged : age[s] = SessionTimeout}
        /\ UNCHANGED <<managerVars, sessionVars, nameVars, fileVars, pc, job, path,
                       suffix, written, result, diskVars, acked>>

-----------------------------------------------------------------------------
(* An upload request: uploadHandler, then SaveFile.                        *)

Goto(u, step) == pc' = [pc EXCEPT ![u] = step]

\* The session exists, is started and belongs to the caller.
UploadRequest(u, s, f, c) ==
    /\ pc[u] = "idle"
    /\ s \in offered \cap sessions
    /\ f \in files[s]
    /\ started[s]
    /\ c = client[s]
    /\ Goto(u, "claim")
    /\ job' = [job EXCEPT ![u] = <<s, f>>]
    /\ UNCHANGED <<managerVars, sessionVars, age, nameVars, fileVars, path, suffix,
                   written, idle, result, diskVars, lapsed, acked>>

\* prepareFolderRemap, once in a session: the first number whose folder does not
\* exist.  The folder itself is made later.
FolderNeeded(s) == \E f \in files[s] : DestOf[f] \in FolderDests

FindUniqueFolderName(n) == n \notin folders /\ 0..(n - 1) \subseteq folders

RemapDoneByFile(s) == remap[s] # None /\ remap[s] \notin folders     \* mutant

\* folderRemapOnce
RemapDone(s) == remap[s] # None

PrepareFolderRemap(s) ==
    IF FolderNeeded(s) /\ ~RemapDone(s)
    THEN \E n \in Suffix : /\ FindUniqueFolderName(n)
                           /\ remap' = [remap EXCEPT ![s] = n]
    ELSE UNCHANGED remap

\* MaxUniquePathAttempts folders of that name exist.
NoFolderLeft(s) == FolderNeeded(s) /\ ~RemapDone(s) /\ Suffix \subseteq folders

\* SaveFile claims the file under the session's mutex (an End since the request
\* was checked goes unseen), then fixes the folder.
ClaimFile(u) ==
    LET k == job[u]
        noFolder == NoFolderLeft(k[1])
    IN  /\ pc[u] = "claim"
        /\ status[k] = Pending
        /\ status' = [status EXCEPT ![k] = InProgress]
        /\ attempts' = [attempts EXCEPT ![k] = @ + 1]
        /\ IF noFolder THEN UNCHANGED remap ELSE PrepareFolderRemap(k[1])
        /\ path' = [path EXCEPT ![u] = IF noFolder THEN None ELSE targetPath[k]]
        /\ Goto(u, IF noFolder THEN "settle" ELSE "mkdir")
        /\ UNCHANGED <<managerVars, sessionVars, age, hint, targetPath, job, suffix,
                       written, idle, result, diskVars, lapsed, acked>>

RejectUpload(u) ==
    /\ pc[u] = "claim"
    /\ status[job[u]] # Pending
    /\ Goto(u, "idle")
    /\ job' = [job EXCEPT ![u] = None]
    /\ UNCHANGED <<managerVars, sessionVars, age, nameVars, fileVars, path, suffix,
                   written, idle, result, diskVars, lapsed, acked>>

InFolder(k) == DestOf[k[2]] \in FolderDests

\* ensureSaveDir, and the allocator's look at its suffix hint.
EnsureSaveDir(u) ==
    LET k == job[u]
    IN  /\ pc[u] = "mkdir"
        /\ folders' = IF InFolder(k) THEN folders \cup {remap[k[1]]} ELSE folders
        /\ suffix' = [suffix EXCEPT ![u] = hint[<<k[1], DestOf[k[2]]>>]]
        /\ Goto(u, "create")
        /\ UNCHANGED <<managerVars, sessionVars, age, nameVars, fileVars, job, path,
                       written, idle, result, owner, complete, lapsed, acked>>

\* The name this try opens with O_CREATE|O_EXCL: a retry has a fixed one.
Candidate(u) ==
    LET k == job[u]
    IN  IF path[u] # None THEN path[u]
        ELSE <<IF InFolder(k) THEN remap[k[1]] ELSE 0, DestOf[k[2]], suffix[u]>>

CanOpenOverPartial(p) == p \notin complete                            \* mutant
CanOpenAnything(p) == TRUE                                          \* mutant

CanOpen(p) == owner[p] = None

NextHint(k, p) == IF p[3] + 1 > hint[<<k[1], DestOf[k[2]]>>]
                  THEN p[3] + 1 ELSE hint[<<k[1], DestOf[k[2]]>>]

CreateFile(u) ==
    LET k == job[u]
        p == Candidate(u)
    IN  /\ pc[u] = "create"
        /\ suffix[u] <= MaxSuffix \/ path[u] # None
        /\ CanOpen(p)
        /\ owner' = [owner EXCEPT ![p] = k]
        /\ complete' = complete \ {p}
        /\ path' = [path EXCEPT ![u] = p]
        /\ targetPath' = [targetPath EXCEPT ![k] = p]
        /\ hint' = IF path[u] # None THEN hint
                   ELSE [hint EXCEPT ![<<k[1], DestOf[k[2]]>>] = NextHint(k, p)]
        /\ Goto(u, "copy")
        /\ written' = [written EXCEPT ![u] = 0]
        /\ idle' = [idle EXCEPT ![u] = 0]
        /\ UNCHANGED <<managerVars, sessionVars, age, remap, status, attempts, job,
                       suffix, result, folders, lapsed, acked>>

\* The name is taken: the allocator goes on with the next suffix.
NextSuffix(u) ==
    /\ pc[u] = "create"
    /\ path[u] = None
    /\ suffix[u] <= MaxSuffix
    /\ ~CanOpen(Candidate(u))
    /\ suffix' = [suffix EXCEPT ![u] = @ + 1]
    /\ UNCHANGED <<managerVars, sessionVars, age, nameVars, fileVars, pc, job, path,
                   written, idle, result, diskVars, lapsed, acked>>

\* No suffix is left, or the name of a retry has been taken.
NoNameLeft(u) ==
    /\ pc[u] = "create"
    /\ IF path[u] = None THEN suffix[u] > MaxSuffix ELSE ~CanOpen(path[u])
    /\ path' = [path EXCEPT ![u] = None]
    /\ Goto(u, "settle")
    /\ UNCHANGED <<managerVars, sessionVars, age, nameVars, fileVars, job, suffix,
                   written, idle, result, diskVars, lapsed, acked>>

\* Another error before a file is open (the name cannot be sanitized, mkdir or
\* open failed): nothing to remove.
AbortAttempt(u) ==
    /\ pc[u] \in {"mkdir", "create"}
    /\ path' = [path EXCEPT ![u] = None]
    /\ Goto(u, "settle")
    /\ UNCHANGED <<managerVars, sessionVars, age, nameVars, fileVars, job,
                   suffix, written, idle, result, diskVars, lapsed, acked>>

NoDeadline(u) == FALSE                                              \* mutant

DeadlinePassed(u) == idle[u] > UploadIdleTimeout

\* activityReader and idleDeadlineReader: bytes keep session and request alive.
\* The LimitReader stops one byte beyond the announced size.
ReceiveChunk(u) ==
    /\ pc[u] = "copy"
    /\ written[u] <= FileSize
    /\ ~DeadlinePassed(u)
    /\ written' = [written EXCEPT ![u] = @ + 1]
    /\ idle' = [idle EXCEPT ![u] = 0]
    /\ age' = [age EXCEPT ![job[u][1]] = 0]
    /\ UNCHANGED <<managerVars, sessionVars, nameVars, fileVars, pc, job, path,
                   suffix, result, diskVars, lapsed, acked>>

\* The read deadline ends a silent body, the LimitReader one that is too long.
BodyRefused(u) ==
    /\ pc[u] = "copy"
    /\ DeadlinePassed(u) \/ written[u] > FileSize
    /\ Goto(u, "settle")
    /\ UNCHANGED <<managerVars, sessionVars, age, nameVars, fileVars, job, path,
                   suffix, written, idle, result, diskVars, lapsed, acked>>

\* Disconnect, write or flush error, or a body that ends too early.
BodyFails(u) ==
    /\ pc[u] = "copy"
    /\ Goto(u, "settle")
    /\ UNCHANGED <<managerVars, sessionVars, age, nameVars, fileVars, job, path,
                   suffix, written, idle, result, diskVars, lapsed, acked>>

BodyComplete(u) == written[u] = FileSize /\ idle[u] <= UploadIdleTimeout

ChecksumMismatch(u) ==
    /\ pc[u] = "copy"
    /\ BodyComplete(u)
    /\ job[u][2] \in WithChecksum
    /\ result' = [result EXCEPT ![u] = Pending]
    /\ Goto(u, "settle")
    /\ UNCHANGED <<managerVars, sessionVars, age, nameVars, fileVars, job, path,
                   suffix, written, idle, diskVars, lapsed, acked>>

BodyVerified(u) ==
    /\ pc[u] = "copy"
    /\ BodyComplete(u)
    /\ result' = [result EXCEPT ![u] = Finished]
    /\ complete' = complete \cup {path[u]}
    /\ Goto(u, "settle")
    /\ UNCHANGED <<managerVars, sessionVars, age, nameVars, fileVars, job, path,
                   suffix, written, idle, folders, owner, lapsed, acked>>

\* The deferred Close and Remove of a file that was opened and is not finished.
RemoveSkipped(u) == UNCHANGED <<owner, complete>>                   \* mutant

RemovePartial(u) ==
    \/ /\ result[u] # Finished /\ path[u] # None
       /\ owner' = [owner EXCEPT ![path[u]] = None]
       /\ complete' = complete \ {path[u]}
    \/ /\ result[u] = Finished \/ path[u] = None \/ RemoveMayFail
       /\ UNCHANGED <<owner, complete>>

OutcomeRetried(u) == result[u]                                      \* mutant

\* finishFileAttempt under the mutex: a checksum mismatch may be retried.
Outcome(u) ==
    IF result[u] = Pending /\ attempts[job[u]] < MaxChecksumAttempts THEN Pending
    ELSE IF result[u] = Finished THEN Finished
    ELSE Failed

TerminalFinished(u) == Outcome(u) = Finished                         \* mutant

Terminal(u) == status[job[u]] = InProgress /\ Outcome(u) # Pending

\* The handler's answer: 200 for a finished file, else 422, 400 or 500.
AnsweredTerminal(u) == status[job[u]] # Pending                      \* mutant

Answered200(u) == result[u] = Finished

\* The request is answered and its goroutine returns.
Answer(u) ==
    /\ acked' = IF Answered200(u) THEN acked \cup {job[u]} ELSE acked
    /\ Goto(u, "idle")
    /\ job' = [job EXCEPT ![u] = None]
    /\ path' = [path EXCEPT ![u] = None]
    /\ suffix' = [suffix EXCEPT ![u] = 0]
    /\ written' = [written EXCEPT ![u] = 0]
    /\ idle' = [idle EXCEPT ![u] = 0]
    /\ result' = [result EXCEPT ![u] = Failed]

\* The deferred functions of SaveFile, in their order.
SettleFile(u) ==
    /\ pc[u] = "settle"
    /\ RemovePartial(u)
    /\ status' = [status EXCEPT ![job[u]] = IF @ = InProgress THEN Outcome(u) ELSE @]
    /\ IF Terminal(u)
       THEN Goto(u, "count") /\ UNCHANGED <<job, path, suffix, written, idle, result, acked>>
       ELSE Answer(u)
    /\ UNCHANGED <<managerVars, sessionVars, age, nameVars, attempts, targetPath,
                   folders, lapsed>>

\* finishFileAttempt after the mutex: the last terminal file Ends the session.
\* Nobody can tell a count of zero from an ended session, so that End is part of
\* the step.
CountFile(u) ==
    LET s == job[u][1]
        last == filesCount[s] = 1
    IN  /\ pc[u] = "count"
        /\ filesCount' = [filesCount EXCEPT ![s] = @ - 1]
        /\ started' = [started EXCEPT ![s] = @ /\ ~last]
        /\ Answer(u)
        /\ UNCHANGED <<managerVars, client, files, age, nameVars, fileVars, diskVars,
                       lapsed>>

-----------------------------------------------------------------------------

SessionStep(s) ==
    \/ \E c \in Client, fs \in SUBSET File : CreateSessionIfAllowed(c, s, fs)
    \/ StoreSession(s)
    \/ StartSession(s)
    \/ GeneratePreUploadResp(s)
    \/ VacuumCheck(s)
    \/ \E c \in Client : KillSessionForClient(c, s)
    \/ KillEnd(s)

\* What the handler of a request in flight does by itself: no byte of the sender,
\* no broken connection and no file system error is needed for it.
HandlerStep(u) ==
    \/ ClaimFile(u)
    \/ RejectUpload(u)
    \/ EnsureSaveDir(u)
    \/ CreateFile(u)
    \/ NextSuffix(u)
    \/ NoNameLeft(u)
    \/ ChecksumMismatch(u)
    \/ BodyVerified(u)
    \/ BodyRefused(u)
    \/ SettleFile(u)
    \/ CountFile(u)

Next ==
    \/ \E s \in Session : SessionStep(s)
    \/ VacuumDelete
    \/ Tick
    \/ \E u \in Upload :
          \/ \E s \in Session, f \in File, c \in Client : UploadRequest(u, s, f, c)
          \/ ReceiveChunk(u)
          \/ BodyFails(u)
          \/ AbortAttempt(u)
          \/ HandlerStep(u)

Spec == Init /\ [][Next]_vars

(* Goroutines that can run do run, the vacuum ticks every five seconds and *)
(* time passes.  Senders and the file system promise nothing.              *)
Fairness ==
    /\ WF_vars(Tick)
    /\ WF_vars(VacuumDelete \/ \E s \in Session : VacuumCheck(s))
    /\ \A s \in Session : /\ WF_vars(StoreSession(s))
                          /\ WF_vars(StartSession(s))
                          /\ WF_vars(GeneratePreUploadResp(s))
                          /\ WF_vars(KillEnd(s))
    /\ \A u \in Upload : WF_vars(HandlerStep(u))

FairSpec == Spec /\ Fairness

-----------------------------------------------------------------------------
(* The inductive invariant behind the theorems of RecvSessions_proofs.     *)

\* What a request's place in SaveFile says about its variables.
RequestOK(u) ==
    /\ pc[u] # "idle" => job[u] \in Key /\ job[u][2] \in files[job[u][1]]
    /\ pc[u] \in {"mkdir", "create"} /\ InFolder(job[u]) => remap[job[u][1]] # None
    /\ pc[u] = "copy" => path[u] # None
    /\ pc[u] \notin {"settle", "count"} => result[u] = Failed
    /\ pc[u] = "settle" /\ result[u] # Failed => path[u] # None
    /\ pc[u] \in Claimed => status[job[u]] = InProgress
    /\ pc[u] = "count" =>
          status[job[u]] = IF result[u] = Finished THEN Finished ELSE Failed

RequestInv == \A u \in Upload : RequestOK(u)

\* One request at a time works on a file.
ClaimInv ==
    \A u, v \in Upload :
        (/\ pc[u] \in Claimed \cup {"count"} /\ pc[v] \in Claimed \cup {"count"}
         /\ job[u] = job[v]) => u = v

\* A request that has opened a file.
Opened(u) == pc[u] = "copy" \/ (pc[u] = "settle" /\ path[u] # None)

\* It owns that file, and the file is complete when its content was verified.
WriterInv ==
    \A u \in Upload : Opened(u) =>
        /\ owner[path[u]] = job[u]
        /\ targetPath[job[u]] = path[u]
        /\ path[u] \in complete <=> result[u] = Finished

\* A complete file is the user's, or that of a finished upload, or that of the
\* request which is about to report it finished.
StoredInv ==
    \A p \in complete :
        \/ owner[p] = User
        \/ /\ owner[p] \in Key
           /\ \/ status[owner[p]] = Finished
              \/ \E u \in Upload : /\ Opened(u) /\ path[u] = p
                                   /\ job[u] = owner[p] /\ result[u] = Finished

AckedInv == \A k \in acked : status[k] = Finished

-----------------------------------------------------------------------------
(* Safety.                                                                 *)

\* Files of a session that finishFileAttempt has not counted down yet.
OpenFiles(s) ==
    {f \in files[s] : \/ status[<<s, f>>] \in {Pending, InProgress}
                     \/ \E u \in Upload : pc[u] = "count" /\ job[u] = <<s, f>>}

\* While a session is started its filesCount is the number of files that still
\* have to reach a terminal state, across retries, failures and races of the
\* last uploads: a count too high would block every other sender until the
\* timeout, one too low would end the session under its uploads.
CountMatchesOpenFiles ==
    \A s \in Session : started[s] => filesCount[s] = Cardinality(OpenFiles(s))

\* A file that was acknowledged with 200, or only marked finished, lies on disk
\* complete, under the name its session recorded, and still carries the bytes of
\* that very file: no retry, clean-up or other session overwrote or removed it.
FinishedOnDisk ==
    \A k \in Key : (status[k] = Finished \/ k \in acked) =>
        /\ targetPath[k] \in complete
        /\ owner[targetPath[k]] = k

\* Every file on disk that is not complete is being written by one upload: the
\* error paths leave no partial file behind (where os.Remove works), and two
\* uploads never write to one path.
NoOrphanPartial ==
    \A p \in Path :
        /\ ~RemoveMayFail /\ owner[p] \in Key /\ p \notin complete
              => \E u \in Upload : Opened(u) /\ path[u] = p
        /\ \A u, v \in Upload :
              Opened(u) /\ Opened(v) /\ path[u] = p /\ path[v] = p => u = v

\* Two sessions are active at once only if one of them had once been inactive past
\* SessionTimeout: admission, uploads, cancel and vacuum alone never cause it.
ExclusiveUnlessLapsed ==
    \A s, t \in sessions :
        ~Stopped(s) /\ ~Stopped(t) => s = t \/ s \in lapsed \/ t \in lapsed

\* A file is tried MaxChecksumAttempts times at most, and one that may be tried again has
\* a try left, however its attempts mismatch, fail, are refused or race each other.
RetriesBounded ==
    \A k \in Key : /\ attempts[k] <= MaxChecksumAttempts
                   /\ status[k] = Pending => attempts[k] < MaxChecksumAttempts

\* All files of a session that lie in its root folder are saved in one folder.
OneFolderPerSession ==
    \A k, m \in Key :
        (/\ k[1] = m[1] /\ InFolder(k) /\ InFolder(m)
         /\ targetPath[k] # None /\ targetPath[m] # None)
        => targetPath[k][1] = targetPath[m][1]

\* A complete file, the user's own ones included, is never touched again.
CompleteIsFinal ==
    [][\A p \in complete : p \in complete' /\ owner'[p] = owner[p]]_<<complete, owner>>

\* The receive path keeps the promises of module Delivery.
Stored == {k \in Key : \E p \in complete : owner[p] = k}
GivenUp == {k \in Key : status[k] = Failed}

D == INSTANCE Delivery WITH stored <- Stored, failed <- GivenUp

DeliverySpec == D!Spec

\* What the comments of CreateSessionIfAllowed and HasActiveSessions promise: a
\* sender is turned away while another session is active.
AtMostOneActive ==
    \A s, t \in sessions : ~Stopped(s) /\ ~Stopped(t) => s = t

\* What the comment of SessionTimeout promises: only sessions without uploads
\* within the timeout are cleaned up.
OfferedReachable ==
    \A s \in offered : ~Stopped(s) /\ s \notin lapsed \cup killing => s \in sessions

-----------------------------------------------------------------------------
(* Liveness.                                                               *)

\* Every upload request is answered: a silent or endless body cannot hold it.
UploadsAnswered == \A u \in Upload : (pc[u] # "idle") ~> (pc[u] = "idle")

\* Every session leaves the manager, whatever its sender does, so that another
\* sender is not blocked for ever.
SessionsReclaimed == \A s \in Session : (s \in sessions) ~> (s \notin sessions)

=============================================================================
