-------------------------- MODULE RecvFiles_proofs --------------------------
(***************************************************************************)
(* More proofs about RecvSessions, on top of the invariant IInv of         *)
(* RecvSessions_proofs: what is left on disk (NoOrphanPartial,             *)
(* OneFolderPerSession), the budget of retries (RetriesBounded), the count *)
(* of open files (CountMatchesOpenFiles) and the exclusion of sessions      *)
(* (ExclusiveUnlessLapsed).                                                *)
(***************************************************************************)
EXTENDS RecvSessions_proofs

USE DEF Pending, InProgress, Finished, Failed, Status, Steps
USE DEF managerVars, sessionVars, nameVars, fileVars, requestVars, diskVars

\* Where os.Remove works, a partial file has its writer.
PartialInv ==
    \A p \in Path : ~RemoveMayFail /\ owner[p] \in Key /\ p \notin complete
        => \E u \in Upload : Opened(u) /\ path[u] = p

\* A retry aims at the name of the first attempt, and what lies in a root folder lies
\* in the one the session has chosen.
RetryInv ==
    \A u \in Upload : pc[u] \in {"mkdir", "create"} /\ path[u] # None
        => path[u] = targetPath[job[u]]

FolderInv ==
    \A k \in Key : InFolder(k) /\ targetPath[k] # None
        => remap[k[1]] # None /\ targetPath[k][1] = remap[k[1]]

FilesInv == IInv /\ PartialInv /\ RetryInv /\ FolderInv

-----------------------------------------------------------------------------
(* What is left on disk.                                                   *)

\* A step on the disk's behalf that only moves requests: no file is made or removed, and
\* a request that has a file open keeps it.
Moves ==
    /\ UNCHANGED <<owner, targetPath>>
    /\ complete \subseteq complete'
    /\ \A u \in Upload : Opened(u) => Opened(u)' /\ path'[u] = path[u]

\* Such a step leaves no orphan.
LEMMA MovesPartial ==
    ASSUME PartialInv, Moves
    PROVE  PartialInv'
<1> SUFFICES ASSUME NEW p \in Path, ~RemoveMayFail, owner'[p] \in Key, p \notin complete'
             PROVE  \E u \in Upload : Opened(u)' /\ path'[u] = p
  BY DEF PartialInv
<1>1. PICK u \in Upload : Opened(u) /\ path[u] = p
  BY DEF PartialInv, Moves
<1> QED
  BY <1>1 DEF Moves

\* Most steps of a request are of that kind.
LEMMA MovingSteps ==
    ASSUME IInv, NEW u \in Upload,
           \/ \E s \in Session, f \in File, c \in Client : UploadRequest(u, s, f, c)
           \/ BodyFails(u) \/ AbortAttempt(u) \/ ClaimFile(u) \/ RejectUpload(u)
           \/ EnsureSaveDir(u) \/ NoNameLeft(u) \/ ChecksumMismatch(u) \/ BodyVerified(u)
           \/ BodyRefused(u) \/ CountFile(u)
    PROVE  Moves
<1> USE DEF IInv, TypeOK, Moves, Opened, Goto
<1>1. ASSUME NEW s \in Session, NEW f \in File, NEW c \in Client, UploadRequest(u, s, f, c)
      PROVE  Moves
  BY <1>1 DEF UploadRequest
<1>2. CASE BodyFails(u)
  BY <1>2 DEF BodyFails, RequestInv, RequestOK
<1>3. CASE AbortAttempt(u)
  BY <1>3 DEF AbortAttempt
<1>4. CASE ClaimFile(u)
  BY <1>4 DEF ClaimFile
<1>5. CASE RejectUpload(u)
  BY <1>5 DEF RejectUpload
<1>6. CASE EnsureSaveDir(u)
  BY <1>6 DEF EnsureSaveDir
<1>7. CASE NoNameLeft(u)
  BY <1>7 DEF NoNameLeft
<1>8. CASE ChecksumMismatch(u)
  BY <1>8 DEF ChecksumMismatch, RequestInv, RequestOK
<1>9. CASE BodyVerified(u)
  BY <1>9 DEF BodyVerified, RequestInv, RequestOK
<1>10. CASE BodyRefused(u)
  BY <1>10 DEF BodyRefused, RequestInv, RequestOK
<1>11. CASE CountFile(u)
  BY <1>11 DEF CountFile, Answer
<1> QED
  BY <1>1, <1>2, <1>3, <1>4, <1>5, <1>6, <1>7, <1>8, <1>9, <1>10, <1>11

\* A file that is created has its writer.
LEMMA CreatePartial ==
    ASSUME IInv, PartialInv, NEW u \in Upload, CreateFile(u)
    PROVE  PartialInv'
<1> USE DEF IInv, TypeOK
<1>1. Candidate(u) \in Path
  BY CandidateType DEF CreateFile
<1> SUFFICES ASSUME NEW p \in Path, ~RemoveMayFail, owner'[p] \in Key, p \notin complete'
             PROVE  \E v \in Upload : Opened(v)' /\ path'[v] = p
  BY DEF PartialInv
<1>2. CASE p = Candidate(u)
  BY <1>1, <1>2 DEF CreateFile, Goto, Opened
<1>3. CASE p # Candidate(u)
  <2>1. PICK v \in Upload : Opened(v) /\ path[v] = p
    BY <1>3 DEF CreateFile, PartialInv
  <2>2. v # u
    BY <2>1 DEF CreateFile, Opened
  <2> QED
    BY <2>1, <2>2 DEF CreateFile, Goto, Opened
<1> QED
  BY <1>2, <1>3

\* A request that settles has removed its file, or verified it.
LEMMA SettlePartial ==
    ASSUME IInv, PartialInv, NEW u \in Upload, SettleFile(u)
    PROVE  PartialInv'
<1> USE DEF IInv, TypeOK
<1> SUFFICES ASSUME NEW p \in Path, ~RemoveMayFail, owner'[p] \in Key, p \notin complete'
             PROVE  \E v \in Upload : Opened(v)' /\ path'[v] = p
  BY DEF PartialInv
<1>1. owner[p] \in Key /\ p \notin complete /\ p # path[u]
  <2>1. CASE result[u] # Finished /\ path[u] # None
    <3>1. owner' = [owner EXCEPT ![path[u]] = None] /\ complete' = complete \ {path[u]}
      BY <2>1 DEF SettleFile, RemovePartial
    <3>2. p # path[u]
      BY <3>1, RecvAssumption
    <3> QED
      BY <3>1, <3>2
  <2>2. CASE result[u] = Finished \/ path[u] = None
    <3>1. UNCHANGED <<owner, complete>>
      BY <2>2 DEF SettleFile, RemovePartial
    <3>2. p # path[u]
      BY <2>2, <3>1, RecvAssumption DEF SettleFile, WriterInv, Opened
    <3> QED
      BY <3>1, <3>2
  <2> QED
    BY <2>1, <2>2
<1>2. PICK v \in Upload : Opened(v) /\ path[v] = p
  BY <1>1 DEF PartialInv
<1>3. v # u
  BY <1>1, <1>2
<1>4. pc'[v] = pc[v] /\ path'[v] = path[v]
  BY <1>3 DEF SettleFile, Answer, Goto
<1> QED
  BY <1>2, <1>4 DEF Opened

\* The names of retries and the folder: only a claim, a choice of the folder and the
\* creation of a file matter.
NamesKept ==
    /\ UNCHANGED <<targetPath, remap>>
    /\ \A u \in Upload : pc'[u] \in {"mkdir", "create"}
          => pc[u] \in {"mkdir", "create"} /\ path'[u] = path[u] /\ job'[u] = job[u]

\* Steps that keep all three keep what is said about names.
LEMMA NamesKeptKeeps ==
    ASSUME RetryInv, FolderInv, NamesKept
    PROVE  RetryInv' /\ FolderInv'
<1>1. RetryInv'
  BY DEF RetryInv, NamesKept
<1>2. FolderInv'
  BY DEF FolderInv, NamesKept, InFolder
<1> QED
  BY <1>1, <1>2

\* The steps that name no file for the first time.
LEMMA NamesKeptSteps ==
    ASSUME IInv, NEW u \in Upload,
           \/ \E s \in Session, f \in File, c \in Client : UploadRequest(u, s, f, c)
           \/ BodyFails(u) \/ AbortAttempt(u) \/ RejectUpload(u) \/ EnsureSaveDir(u)
           \/ NoNameLeft(u) \/ ChecksumMismatch(u) \/ BodyVerified(u) \/ BodyRefused(u)
           \/ SettleFile(u) \/ CountFile(u)
    PROVE  NamesKept
<1> USE DEF IInv, TypeOK, NamesKept, Goto
<1>1. ASSUME NEW s \in Session, NEW f \in File, NEW c \in Client, UploadRequest(u, s, f, c)
      PROVE  NamesKept
  BY <1>1 DEF UploadRequest
<1>2. CASE BodyFails(u) \/ BodyRefused(u)
  BY <1>2 DEF BodyFails, BodyRefused
<1>3. CASE AbortAttempt(u) \/ NoNameLeft(u)
  BY <1>3 DEF AbortAttempt, NoNameLeft
<1>4. CASE RejectUpload(u)
  BY <1>4 DEF RejectUpload
<1>5. CASE EnsureSaveDir(u)
  BY <1>5 DEF EnsureSaveDir
<1>6. CASE ChecksumMismatch(u) \/ BodyVerified(u)
  BY <1>6 DEF ChecksumMismatch, BodyVerified
<1>7. CASE SettleFile(u)
  BY <1>7 DEF SettleFile, Answer
<1>8. CASE CountFile(u)
  BY <1>8 DEF CountFile, Answer
<1> QED
  BY <1>1, <1>2, <1>3, <1>4, <1>5, <1>6, <1>7, <1>8

\* A claim takes over the name of the first attempt; the folder is chosen once.
LEMMA ClaimNames ==
    ASSUME IInv, RetryInv, FolderInv, NEW u \in Upload, ClaimFile(u)
    PROVE  RetryInv' /\ FolderInv'
<1> USE DEF IInv, TypeOK
<1>1. RetryInv'
  BY DEF RetryInv, ClaimFile, Goto
<1>2. job[u][1] \in Session
  BY JobType DEF ClaimFile
<1>3. \A s \in Session : remap[s] # None => remap'[s] = remap[s]
  BY <1>2 DEF ClaimFile, PrepareFolderRemap, RemapDone
<1>4. FolderInv'
  BY <1>3 DEF FolderInv, ClaimFile, InFolder, Key
<1> QED
  BY <1>1, <1>4

\* A file is created in the folder of its session.
LEMMA CreateNames ==
    ASSUME IInv, RetryInv, FolderInv, NEW u \in Upload, CreateFile(u)
    PROVE  RetryInv' /\ FolderInv'
<1> USE DEF IInv, TypeOK
<1>1. job[u] \in Key /\ job[u] = <<job[u][1], job[u][2]>>
  BY JobType DEF CreateFile
<1>2. Candidate(u) \in Path
  BY CandidateType DEF CreateFile
<1>3. RetryInv'
  <2> SUFFICES ASSUME NEW v \in Upload, pc'[v] \in {"mkdir", "create"}, path'[v] # None
               PROVE  path'[v] = targetPath'[job'[v]]
    BY DEF RetryInv
  <2>1. v # u /\ pc[v] = pc'[v] /\ path[v] = path'[v] /\ job'[v] = job[v]
    BY DEF CreateFile, Goto
  <2>2. job[v] # job[u]
    BY <2>1 DEF CreateFile, ClaimInv, Claimed
  <2> QED
    BY <1>1, <2>1, <2>2 DEF CreateFile, RetryInv
<1>4. InFolder(job[u]) => remap[job[u][1]] # None /\ Candidate(u)[1] = remap[job[u][1]]
  <2>1. CASE path[u] = None
    BY <2>1 DEF Candidate, CreateFile, RequestInv, RequestOK
  <2>2. CASE path[u] # None
    BY <1>1, <2>2 DEF Candidate, CreateFile, RetryInv, FolderInv
  <2> QED
    BY <2>1, <2>2
<1>5. FolderInv'
  BY <1>1, <1>4 DEF FolderInv, CreateFile, InFolder
<1> QED
  BY <1>3, <1>5

\* Every step keeps the invariant about the files on disk.
LEMMA FilesStep == FilesInv /\ [Next]_vars => FilesInv'
<1> SUFFICES ASSUME FilesInv, [Next]_vars
             PROVE  FilesInv'
  OBVIOUS
<1> USE DEF FilesInv
<1>1. IInv'
  BY InvStep
<1>2. ASSUME QuietNext
      PROVE  PartialInv' /\ RetryInv' /\ FolderInv'
  <2>1. Quiet
    BY <1>2, QuietSteps DEF IInv
  <2>2. Moves /\ NamesKept
    BY <2>1 DEF Quiet, Moves, NamesKept, Opened
  <2> QED
    BY <2>2, MovesPartial, NamesKeptKeeps
<1>3. ASSUME NEW u \in Upload, NEW s \in Session, NEW f \in File, NEW c \in Client,
             UploadRequest(u, s, f, c)
      PROVE  PartialInv' /\ RetryInv' /\ FolderInv'
  BY <1>3, MovingSteps, MovesPartial, NamesKeptSteps, NamesKeptKeeps
<1>4. ASSUME NEW u \in Upload,
             BodyFails(u) \/ AbortAttempt(u) \/ RejectUpload(u) \/ EnsureSaveDir(u)
                \/ NoNameLeft(u) \/ ChecksumMismatch(u) \/ BodyVerified(u) \/ BodyRefused(u)
                \/ CountFile(u)
      PROVE  PartialInv' /\ RetryInv' /\ FolderInv'
  BY <1>4, MovingSteps, MovesPartial, NamesKeptSteps, NamesKeptKeeps
<1>5. ASSUME NEW u \in Upload, ClaimFile(u)
      PROVE  PartialInv' /\ RetryInv' /\ FolderInv'
  BY <1>5, MovingSteps, MovesPartial, ClaimNames
<1>6. ASSUME NEW u \in Upload, CreateFile(u)
      PROVE  PartialInv' /\ RetryInv' /\ FolderInv'
  BY <1>6, CreatePartial, CreateNames
<1>7. ASSUME NEW u \in Upload, SettleFile(u)
      PROVE  PartialInv' /\ RetryInv' /\ FolderInv'
  BY <1>7, SettlePartial, NamesKeptSteps, NamesKeptKeeps
<1>8. PartialInv' /\ RetryInv' /\ FolderInv'
  BY <1>2, <1>3, <1>4, <1>5, <1>6, <1>7 DEF Next, HandlerStep, QuietNext
<1> QED
  BY <1>1, <1>8

\* It holds from the start.
LEMMA FilesInvariant == Spec => []FilesInv
<1>1. ASSUME Init
      PROVE  FilesInv
  <2>1. PartialInv
    BY <1>1, RecvAssumption DEF Init, PartialInv
  <2>2. RetryInv /\ FolderInv
    BY <1>1 DEF Init, RetryInv, FolderInv
  <2> QED
    BY <1>1, <2>1, <2>2, InitInv DEF FilesInv
<1> QED
  BY <1>1, FilesStep, PTL DEF Spec

\* Whatever fails and whoever retries, SaveFile leaves no partial file without an upload
\* that writes it (where os.Remove works), and no two uploads write to one path.
THEOREM NoOrphan == Spec => []NoOrphanPartial
<1>1. FilesInv => NoOrphanPartial
  <2> SUFFICES ASSUME FilesInv
               PROVE  NoOrphanPartial
    OBVIOUS
  <2>1. ASSUME NEW u \in Upload, NEW v \in Upload, Opened(u), Opened(v), path[u] = path[v]
        PROVE  u = v
    BY <2>1 DEF FilesInv, IInv, WriterInv, ClaimInv, Opened, Claimed
  <2> QED
    BY <2>1 DEF FilesInv, PartialInv, NoOrphanPartial
<1> QED
  BY <1>1, FilesInvariant, PTL

\* prepareFolderRemap decides once: all files of a session that belong in its root
\* folder are saved in one.
THEOREM OneFolder == Spec => []OneFolderPerSession
<1>1. FilesInv => OneFolderPerSession
  BY DEF FilesInv, FolderInv, OneFolderPerSession
<1> QED
  BY <1>1, FilesInvariant, PTL

-----------------------------------------------------------------------------
(* The manager.                                                            *)

\* prepare-upload is between creating the session and starting it.
Admitted(s) == \E step \in {"store", "start"} : admission = <<step, s>>

Counted(s) == started[s] \/ Admitted(s)

\* A session is born once: one without files was never started, and its files were
\* never touched.
BirthInv ==
    \A s \in Session :
        /\ Counted(s) => files[s] # {}
        /\ Admitted(s) => ~started[s]
        /\ \A f \in File : status[<<s, f>>] # Pending => f \in files[s]

CountInv == \A s \in Session : Counted(s) => filesCount[s] = Cardinality(OpenFiles(s))

LapseInv == \A s \in Session : Timeout(s) => s \in lapsed

\* While a session is being admitted, only sessions that once lapsed can be active.
AdmissionInv ==
    admission # Free => \A t \in sessions : ~Stopped(t) => t \in lapsed

ManagerInv ==
    IInv /\ BirthInv /\ CountInv /\ LapseInv /\ AdmissionInv /\ ExclusiveUnlessLapsed

\* A step in which no session comes back to life, but for lapsed ones.
NoRevival ==
    /\ sessions' \subseteq sessions
    /\ lapsed \subseteq lapsed'
    /\ \A s \in Session : ~Stopped(s)' => ~Stopped(s) \/ s \in lapsed'

\* Without a revival exclusion stays.
LEMMA NoRevivalKeeps ==
    ASSUME IInv, AdmissionInv, ExclusiveUnlessLapsed, NoRevival,
           admission' = admission \/ admission' = Free
    PROVE  AdmissionInv' /\ ExclusiveUnlessLapsed'
<1> USE DEF IInv, TypeOK
<1>1. sessions' \subseteq Session
  BY DEF NoRevival
<1>2. AdmissionInv'
  BY <1>1 DEF AdmissionInv, NoRevival
<1>3. ExclusiveUnlessLapsed'
  BY <1>1 DEF ExclusiveUnlessLapsed, NoRevival
<1> QED
  BY <1>2, <1>3

\* The steps of requests that count nothing down and let no byte in, and those of
\* the manager that start and end no session.
Outside ==
    /\ sessions' \subseteq sessions
    /\ UNCHANGED <<admission, files, started, filesCount, age, lapsed>>
    /\ \A s \in Session : OpenFiles(s)' = OpenFiles(s)
    /\ \A s \in Session, f \in File : status'[<<s, f>>] # Pending => f \in files[s]

\* They keep the manager's invariant.
LEMMA OutsideKeeps ==
    ASSUME ManagerInv, Outside
    PROVE  BirthInv' /\ CountInv' /\ LapseInv' /\ AdmissionInv' /\ ExclusiveUnlessLapsed'
<1> USE DEF ManagerInv
<1>1. \A s \in Session : Counted(s)' = Counted(s) /\ Admitted(s)' = Admitted(s)
  BY DEF Counted, Admitted, Outside
<1>2. BirthInv'
  BY <1>1 DEF BirthInv, Outside
<1>3. CountInv'
  BY <1>1 DEF CountInv, Outside
<1>4. LapseInv'
  BY DEF LapseInv, Timeout, Outside
<1>5. NoRevival
  BY DEF NoRevival, Outside, Stopped, Timeout
<1> QED
  BY <1>2, <1>3, <1>4, <1>5, NoRevivalKeeps DEF Outside

\* A request moves, and neither makes nor leaves a count.
LEMMA OutsideMoves ==
    ASSUME IInv, BirthInv, NEW u \in Upload,
           UNCHANGED <<sessions, admission, files, started, filesCount, age, lapsed, status>>,
           \A v \in Upload : v # u => pc'[v] = pc[v] /\ job'[v] = job[v],
           pc[u] # "count", pc'[u] # "count"
    PROVE  Outside
  BY DEF Outside, OpenFiles, BirthInv

\* Most steps of an upload request are such.
LEMMA OutsideSteps ==
    ASSUME IInv, BirthInv, NEW u \in Upload,
           \/ \E s \in Session, f \in File, c \in Client : UploadRequest(u, s, f, c)
           \/ BodyFails(u) \/ AbortAttempt(u) \/ RejectUpload(u)
           \/ EnsureSaveDir(u) \/ CreateFile(u) \/ NextSuffix(u) \/ NoNameLeft(u)
           \/ ChecksumMismatch(u) \/ BodyVerified(u) \/ BodyRefused(u)
    PROVE  Outside
<1> USE DEF IInv, TypeOK, Goto
<1>1. ASSUME NEW s \in Session, NEW f \in File, NEW c \in Client, UploadRequest(u, s, f, c)
      PROVE  Outside
  BY <1>1, OutsideMoves DEF UploadRequest
<1>2. CASE BodyFails(u) \/ BodyRefused(u)
  BY <1>2, OutsideMoves DEF BodyFails, BodyRefused
<1>3. CASE AbortAttempt(u) \/ NoNameLeft(u)
  BY <1>3, OutsideMoves DEF AbortAttempt, NoNameLeft
<1>4. CASE RejectUpload(u)
  BY <1>4, OutsideMoves DEF RejectUpload
<1>5. CASE EnsureSaveDir(u)
  BY <1>5, OutsideMoves DEF EnsureSaveDir
<1>6. CASE CreateFile(u)
  BY <1>6, OutsideMoves DEF CreateFile
<1>7. CASE NextSuffix(u)
  BY <1>7, OutsideMoves DEF NextSuffix
<1>8. CASE ChecksumMismatch(u)
  BY <1>8, OutsideMoves DEF ChecksumMismatch
<1>9. CASE BodyVerified(u)
  BY <1>9, OutsideMoves DEF BodyVerified
<1> QED
  BY <1>1, <1>2, <1>3, <1>4, <1>5, <1>6, <1>7, <1>8, <1>9

\* A file that has not been counted down yet.
IsOpen(s, f) == \/ status[<<s, f>>] \in {Pending, InProgress}
                \/ \E u \in Upload : pc[u] = "count" /\ job[u] = <<s, f>>

\* OpenFiles only depends on the files that are open.
LEMMA SameOpen ==
    ASSUME TypeOK, UNCHANGED files,
           \A s \in Session, f \in File : IsOpen(s, f)' <=> IsOpen(s, f)
    PROVE  \A s \in Session : OpenFiles(s)' = OpenFiles(s)
<1>1. \A s \in Session : files[s] \subseteq File
  BY DEF TypeOK
<1>2. \A s \in Session : OpenFiles(s) = {f \in files[s] : IsOpen(s, f)}
  BY DEF OpenFiles, IsOpen
<1>3. \A s \in Session : OpenFiles(s)' = {f \in files[s] : IsOpen(s, f)'}
  BY DEF OpenFiles, IsOpen
<1> QED
  BY <1>1, <1>2, <1>3

\* A claim changes the state of a file, which stays open.
LEMMA OutsideClaim ==
    ASSUME IInv, BirthInv, NEW u \in Upload, ClaimFile(u)
    PROVE  Outside
<1>1. job[u] \in Key /\ job[u][1] \in Session /\ job[u][2] \in File
      /\ job[u] = <<job[u][1], job[u][2]>> /\ job[u][2] \in files[job[u][1]]
  BY JobType DEF IInv, ClaimFile, RequestInv, RequestOK
<1>2. UNCHANGED <<sessions, admission, files, started, filesCount, age, lapsed, job>>
  BY DEF ClaimFile
<1>3. \A k \in Key :
          /\ status'[k] \in {Pending, InProgress} <=> status[k] \in {Pending, InProgress}
          /\ k # job[u] => status'[k] = status[k]
  BY <1>1 DEF IInv, TypeOK, ClaimFile
<1>4. \A v \in Upload : pc'[v] = "count" <=> pc[v] = "count"
  BY DEF IInv, TypeOK, ClaimFile, Goto
<1>5. \A s \in Session, f \in File : <<s, f>> \in Key
  BY DEF Key
<1>6. ASSUME NEW s \in Session, NEW f \in File
      PROVE  IsOpen(s, f)' <=> IsOpen(s, f)
  <2>1. status'[<<s, f>>] \in {Pending, InProgress} <=> status[<<s, f>>] \in {Pending, InProgress}
    BY <1>3, <1>5
  <2> QED
    BY <1>2, <1>4, <2>1 DEF IsOpen
<1>7. ASSUME NEW s \in Session, NEW f \in File, status'[<<s, f>>] # Pending
      PROVE  f \in files[s]
  <2>1. CASE <<s, f>> = job[u]
    <3>1. s = job[u][1] /\ f = job[u][2]
      BY <2>1
    <3> QED
      BY <1>1, <3>1
  <2>2. CASE <<s, f>> # job[u]
    BY <1>3, <1>5, <1>7, <2>2 DEF BirthInv
  <2> QED
    BY <2>1, <2>2
<1> QED
  BY <1>2, <1>6, <1>7, SameOpen DEF Outside, IInv

\* A settled file goes back to pending, or stays open until it is counted.
LEMMA OutsideSettle ==
    ASSUME IInv, BirthInv, NEW u \in Upload, SettleFile(u)
    PROVE  Outside
<1>1. job[u] \in Key /\ job[u][1] \in Session /\ job[u][2] \in File
      /\ job[u] = <<job[u][1], job[u][2]>> /\ job[u][2] \in files[job[u][1]]
  BY JobType DEF IInv, SettleFile, RequestInv, RequestOK
<1>2. UNCHANGED <<sessions, admission, files, started, filesCount, age, lapsed>>
  BY DEF SettleFile
<1>3. status[job[u]] = InProgress /\ pc[u] = "settle"
  BY DEF IInv, SettleFile, RequestInv, RequestOK, Claimed
<1>4. status'[job[u]] = Outcome(u) /\ \A k \in Key : k # job[u] => status'[k] = status[k]
  BY <1>1, <1>3 DEF IInv, TypeOK, SettleFile
<1>5. \A v \in Upload : v # u => pc'[v] = pc[v] /\ job'[v] = job[v]
  BY DEF IInv, TypeOK, SettleFile, Goto, Answer
<1>6. IF Outcome(u) = Pending THEN pc'[u] = "idle"
      ELSE pc'[u] = "count" /\ job'[u] = job[u]
  BY <1>3 DEF IInv, TypeOK, SettleFile, Terminal, Answer, Goto
<1>7. \A s \in Session, f \in File : <<s, f>> \in Key
  BY DEF Key
<1>8. \A v \in Upload : pc[v] = "count" => pc'[v] = "count" /\ job'[v] = job[v]
  BY <1>3, <1>5
<1>9. \A v \in Upload : pc'[v] = "count" /\ v # u => pc[v] = "count" /\ job'[v] = job[v]
  BY <1>5
<1>10. ASSUME NEW s \in Session, NEW f \in File
       PROVE  IsOpen(s, f)' <=> IsOpen(s, f)
  <2>1. CASE <<s, f>> = job[u]
    <3>1. IsOpen(s, f)
      BY <1>3, <2>1 DEF IsOpen
    <3>2. IsOpen(s, f)'
      BY <1>4, <1>6, <2>1 DEF IsOpen
    <3> QED
      BY <3>1, <3>2
  <2>2. CASE <<s, f>> # job[u]
    <3>1. status'[<<s, f>>] = status[<<s, f>>]
      BY <1>4, <1>7, <2>2
    <3>2. pc'[u] = "count" => job'[u] # <<s, f>>
      BY <1>6, <2>2
    <3> QED
      BY <1>8, <1>9, <3>1, <3>2 DEF IsOpen
  <2> QED
    BY <2>1, <2>2
<1>11. ASSUME NEW s \in Session, NEW f \in File, status'[<<s, f>>] # Pending
       PROVE  f \in files[s]
  <2>1. CASE <<s, f>> = job[u]
    <3>1. s = job[u][1] /\ f = job[u][2]
      BY <2>1
    <3> QED
      BY <1>1, <3>1
  <2>2. CASE <<s, f>> # job[u]
    BY <1>4, <1>7, <1>11, <2>2 DEF BirthInv
  <2> QED
    BY <2>1, <2>2
<1>12. \A s \in Session : OpenFiles(s)' = OpenFiles(s)
  BY <1>2, <1>10, SameOpen DEF IInv
<1> QED
  BY <1>2, <1>11, <1>12 DEF Outside

\* Answering prepare-upload, the vacuum and the first half of cancel at most take a
\* session from the map.
LEMMA OutsideManager ==
    ASSUME IInv, BirthInv,
           \/ \E s \in Session : \/ GeneratePreUploadResp(s) \/ VacuumCheck(s)
                                 \/ \E c \in Client : KillSessionForClient(c, s)
           \/ VacuumDelete
           \/ UNCHANGED vars
    PROVE  Outside
<1>1. /\ sessions' \subseteq sessions
      /\ UNCHANGED <<admission, files, started, filesCount, age, lapsed, status, pc, job>>
  BY DEF GeneratePreUploadResp, VacuumCheck, KillSessionForClient, VacuumDelete, vars
<1>2. \A s \in Session : OpenFiles(s)' = OpenFiles(s)
  BY <1>1 DEF OpenFiles
<1> QED
  BY <1>1, <1>2 DEF Outside, BirthInv

\* What is left of the manager's invariant once the types are known.
ManagerRest == BirthInv /\ CountInv /\ LapseInv /\ AdmissionInv /\ ExclusiveUnlessLapsed

\* A session that is created counts the files that were announced, and nobody is
\* active when its admission begins.
LEMMA CreateCounts ==
    ASSUME ManagerInv, NEW c \in Client, NEW s \in Session, NEW fs \in SUBSET File,
           CreateSessionIfAllowed(c, s, fs)
    PROVE  ManagerRest'
<1>1. /\ files'[s] = fs /\ \A t \in Session : t # s => files'[t] = files[t]
      /\ filesCount'[s] = Cardinality(fs)
      /\ \A t \in Session : t # s => filesCount'[t] = filesCount[t]
      /\ fs # {} /\ files[s] = {}
      /\ admission = Free /\ admission' = <<"store", s>>
  BY DEF ManagerInv, IInv, TypeOK, CreateSessionIfAllowed
<1>2. UNCHANGED <<sessions, started, age, lapsed, status, pc, job>>
  BY DEF CreateSessionIfAllowed
<1>3. ~Counted(s) /\ ~started[s]
  BY <1>1 DEF ManagerInv, BirthInv, Counted
<1>4. \A t \in Session : t # s => Counted(t)' = Counted(t) /\ Admitted(t)' = Admitted(t)
  BY <1>1, <1>2 DEF Counted, Admitted, Free
<1>5. \A f \in File : status[<<s, f>>] = Pending
  BY <1>1 DEF ManagerInv, BirthInv
<1>6. OpenFiles(s)' = fs
  BY <1>1, <1>2, <1>5 DEF OpenFiles
<1>7. \A t \in Session : t # s => OpenFiles(t)' = OpenFiles(t)
  BY <1>1, <1>2 DEF OpenFiles
<1>8. BirthInv'
  <2> SUFFICES ASSUME NEW t \in Session
               PROVE  /\ Counted(t)' => files'[t] # {}
                      /\ Admitted(t)' => ~started'[t]
                      /\ \A f \in File : status'[<<t, f>>] # Pending => f \in files'[t]
    BY DEF BirthInv
  <2>1. CASE t = s
    BY <1>1, <1>2, <1>3, <1>5, <2>1
  <2>2. CASE t # s
    BY <1>1, <1>2, <1>4, <2>2 DEF ManagerInv, BirthInv
  <2> QED
    BY <2>1, <2>2
<1>9. CountInv'
  BY <1>1, <1>4, <1>6, <1>7 DEF ManagerInv, CountInv
<1>10. LapseInv'
  BY <1>2 DEF ManagerInv, LapseInv, Timeout
<1>11. \A t \in sessions : Stopped(t)'
  <2> SUFFICES ASSUME NEW t \in sessions
               PROVE  Stopped(t)'
    OBVIOUS
  <2>1. Stopped(t) /\ t \in Session
    BY DEF CreateSessionIfAllowed, HasActiveSessions, ManagerInv, IInv, TypeOK
  <2> QED
    BY <1>1, <1>2, <1>3, <2>1 DEF Stopped, Timeout
<1>12. AdmissionInv' /\ ExclusiveUnlessLapsed'
  BY <1>2, <1>11 DEF AdmissionInv, ExclusiveUnlessLapsed
<1> QED
  BY <1>8, <1>9, <1>10, <1>12 DEF ManagerRest

\* Storing a session that is not started activates nobody.
LEMMA StoreCounts ==
    ASSUME ManagerInv, NEW s \in Session, StoreSession(s)
    PROVE  ManagerRest'
<1> USE DEF ManagerInv
<1>1. /\ admission = <<"store", s>> /\ admission' = <<"start", s>>
      /\ sessions' = sessions \cup {s}
      /\ UNCHANGED <<files, started, filesCount, age, lapsed, status, pc, job>>
  BY DEF StoreSession
<1>2. \A t \in Session : Counted(t)' = Counted(t) /\ Admitted(t)' = Admitted(t)
  BY <1>1 DEF Counted, Admitted
<1>3. \A t \in Session : OpenFiles(t)' = OpenFiles(t)
  BY <1>1 DEF OpenFiles
<1>4. BirthInv' /\ CountInv' /\ LapseInv'
  BY <1>1, <1>2, <1>3 DEF BirthInv, CountInv, LapseInv, Timeout
<1>5. \A t \in Session : Stopped(t)' = Stopped(t)
  BY <1>1 DEF Stopped, Timeout
<1>6. Stopped(s)
  BY <1>1 DEF BirthInv, Admitted, Stopped
<1>7. sessions \subseteq Session
  BY DEF IInv, TypeOK
<1>8. AdmissionInv'
  BY <1>1, <1>5, <1>6, <1>7 DEF AdmissionInv, Free
<1>9. ExclusiveUnlessLapsed'
  BY <1>1, <1>5, <1>6, <1>7 DEF ExclusiveUnlessLapsed
<1> QED
  BY <1>4, <1>8, <1>9 DEF ManagerRest

\* The session that starts is the only one that is active and never lapsed.
LEMMA StartCounts ==
    ASSUME ManagerInv, NEW s \in Session, StartSession(s)
    PROVE  ManagerRest'
<1> USE DEF ManagerInv
<1>1. /\ admission = <<"start", s>> /\ admission' = Free
      /\ UNCHANGED <<sessions, files, filesCount, age, lapsed, status, pc, job>>
  BY DEF StartSession
<1>2. started'[s] /\ \A t \in Session : t # s => started'[t] = started[t]
  BY DEF StartSession, IInv, TypeOK
<1>3. \A t \in Session : Counted(t)' => Counted(t)
  BY <1>1, <1>2 DEF Counted, Admitted, Free
<1>4. \A t \in Session : ~Admitted(t)'
  BY <1>1 DEF Admitted, Free
<1>5. \A t \in Session : OpenFiles(t)' = OpenFiles(t)
  BY <1>1 DEF OpenFiles
<1>6. BirthInv' /\ CountInv' /\ LapseInv'
  BY <1>1, <1>3, <1>4, <1>5 DEF BirthInv, CountInv, LapseInv, Timeout
<1>7. \A t \in sessions : t # s /\ ~Stopped(t)' => t \in lapsed
  <2> SUFFICES ASSUME NEW t \in sessions, t # s, ~Stopped(t)'
               PROVE  t \in lapsed
    OBVIOUS
  <2>1. t \in Session
    BY DEF IInv, TypeOK
  <2>2. ~Stopped(t)
    BY <1>1, <1>2, <2>1 DEF Stopped, Timeout
  <2> QED
    BY <1>1, <2>2 DEF AdmissionInv, Free
<1>8. AdmissionInv' /\ ExclusiveUnlessLapsed'
  BY <1>1, <1>7 DEF AdmissionInv, ExclusiveUnlessLapsed
<1> QED
  BY <1>6, <1>8 DEF ManagerRest

\* End resets the count of a started session only, so that the session in
\* admission keeps its own.
LEMMA KillCounts ==
    ASSUME ManagerInv, NEW s \in Session, KillEnd(s)
    PROVE  ManagerRest'
<1> USE DEF ManagerInv
<1>1. UNCHANGED <<sessions, admission, files, age, lapsed, status, pc, job>>
  BY DEF KillEnd, End
<1>2. /\ ~started'[s] /\ filesCount'[s] = IF started[s] THEN 0 ELSE filesCount[s]
      /\ \A t \in Session : t # s => started'[t] = started[t] /\ filesCount'[t] = filesCount[t]
  BY DEF KillEnd, End, IInv, TypeOK
<1>3. \A t \in Session : Admitted(t)' = Admitted(t)
  BY <1>1 DEF Admitted
<1>4. \A t \in Session : OpenFiles(t)' = OpenFiles(t)
  BY <1>1 DEF OpenFiles
<1>5. \A t \in Session : Counted(t)' => Counted(t) /\ filesCount'[t] = filesCount[t]
  BY <1>2, <1>3 DEF Counted, BirthInv
<1>6. BirthInv' /\ CountInv' /\ LapseInv'
  BY <1>1, <1>2, <1>3, <1>4, <1>5 DEF BirthInv, CountInv, LapseInv, Timeout
<1>7. \A t \in Session : ~Stopped(t)' => ~Stopped(t)
  BY <1>1, <1>2 DEF Stopped, Timeout
<1> QED
  BY <1>1, <1>6, <1>7, NoRevivalKeeps DEF NoRevival, ManagerRest

\* A session that passes SessionTimeout is recorded, and time revives nobody.
LEMMA TickCounts ==
    ASSUME ManagerInv, Tick
    PROVE  ManagerRest'
<1> USE DEF ManagerInv
<1>1. UNCHANGED <<sessions, admission, files, started, filesCount, status, pc, job>>
  BY DEF Tick
<1>2. \A t \in Session : Admitted(t)' = Admitted(t) /\ Counted(t)' = Counted(t)
  BY <1>1 DEF Admitted, Counted
<1>3. \A t \in Session : OpenFiles(t)' = OpenFiles(t)
  BY <1>1 DEF OpenFiles
<1>4. lapsed \subseteq lapsed'
  BY DEF Tick
<1>5. ASSUME NEW t \in Session
      PROVE  /\ age[t] \in Int /\ age'[t] \in Int /\ age'[t] >= age[t]
             /\ age'[t] > SessionTimeout => t \in lapsed'
  <2>1. age[t] \in 0..(SessionTimeout + 1) /\ SessionTimeout \in Nat
    BY RecvAssumption DEF IInv, TypeOK
  <2>2. age[t] > SessionTimeout => t \in lapsed
    BY DEF LapseInv, Timeout
  <2> QED
    BY <2>1, <2>2 DEF Tick
<1>6. SessionTimeout \in Int
  BY RecvAssumption
<1>7. BirthInv' /\ CountInv'
  BY <1>1, <1>2, <1>3 DEF BirthInv, CountInv
<1>8. LapseInv'
  BY <1>5 DEF LapseInv, Timeout
<1>9. \A t \in Session : ~Stopped(t)' => ~Stopped(t)
  BY <1>1, <1>5, <1>6 DEF Stopped, Timeout
<1> QED
  BY <1>1, <1>4, <1>7, <1>8, <1>9, NoRevivalKeeps DEF NoRevival, ManagerRest

\* Bytes may revive a session that was inactive past SessionTimeout: it has lapsed.
LEMMA ChunkCounts ==
    ASSUME ManagerInv, NEW u \in Upload, ReceiveChunk(u)
    PROVE  ManagerRest'
<1> USE DEF ManagerInv
<1>1. UNCHANGED <<sessions, admission, files, started, filesCount, status, pc, job, lapsed>>
  BY DEF ReceiveChunk
<1>2. \A t \in Session : Admitted(t)' = Admitted(t) /\ Counted(t)' = Counted(t)
  BY <1>1 DEF Admitted, Counted
<1>3. \A t \in Session : OpenFiles(t)' = OpenFiles(t)
  BY <1>1 DEF OpenFiles
<1>4. BirthInv' /\ CountInv'
  BY <1>1, <1>2, <1>3 DEF BirthInv, CountInv
<1>5. \A t \in Session : Timeout(t)' => Timeout(t)
  <2>1. job[u][1] \in Session
    BY JobType DEF IInv, ReceiveChunk
  <2> QED
    BY <2>1, RecvAssumption DEF ReceiveChunk, Timeout, IInv, TypeOK
<1>6. LapseInv'
  BY <1>1, <1>5 DEF LapseInv
<1>7. \A t \in Session : ~Stopped(t)' => ~Stopped(t) \/ t \in lapsed
  BY <1>1 DEF Stopped, LapseInv
<1> QED
  BY <1>1, <1>4, <1>6, <1>7, NoRevivalKeeps DEF NoRevival, ManagerRest

\* finishFileAttempt counts one file down that was open and is not any more.
LEMMA CountOne ==
    ASSUME IInv, NEW u \in Upload, CountFile(u),
           NEW s \in Session, NEW f \in File, job[u] = <<s, f>>
    PROVE  /\ f \in OpenFiles(s)
           /\ OpenFiles(s)' = OpenFiles(s) \ {f}
           /\ \A t \in Session : t # s => OpenFiles(t)' = OpenFiles(t)
<1>1. f \in files[s]
  BY DEF IInv, CountFile, RequestInv, RequestOK
<1>2. pc[u] = "count" /\ status[<<s, f>>] \notin {Pending, InProgress}
  BY <1>1 DEF CountFile, IInv, RequestInv, RequestOK
<1>3. UNCHANGED <<files, status>>
  BY DEF CountFile
<1>4. /\ pc'[u] = "idle"
      /\ \A v \in Upload : v # u => pc'[v] = pc[v] /\ job'[v] = job[v]
  BY DEF CountFile, Answer, Goto, IInv, TypeOK
<1>5. \A v \in Upload : pc[v] = "count" /\ job[v] = job[u] => v = u
  BY <1>2 DEF IInv, ClaimInv
<1>6. IsOpen(s, f) /\ ~IsOpen(s, f)'
  BY <1>1, <1>2, <1>3, <1>4, <1>5 DEF IsOpen
<1>7. ASSUME NEW t \in Session, NEW g \in File, <<t, g>> # <<s, f>>
      PROVE  IsOpen(t, g)' <=> IsOpen(t, g)
  BY <1>1, <1>3, <1>4, <1>7 DEF IsOpen
<1>8. \A t \in Session : OpenFiles(t) = {g \in files[t] : IsOpen(t, g)}
  BY DEF OpenFiles, IsOpen
<1>9. \A t \in Session : OpenFiles(t)' = {g \in files[t] : IsOpen(t, g)'}
  BY <1>3 DEF OpenFiles, IsOpen
<1>10. \A t \in Session : files[t] \subseteq File
  BY DEF IInv, TypeOK
<1>11. f \in OpenFiles(s)
  BY <1>1, <1>6, <1>8
<1>12. \A g \in File : g # f => (IsOpen(s, g)' <=> IsOpen(s, g))
  BY <1>1, <1>7
<1>13. OpenFiles(s)' = OpenFiles(s) \ {f}
  BY <1>1, <1>6, <1>8, <1>9, <1>10, <1>12
<1>14. ASSUME NEW t \in Session, t # s
       PROVE  OpenFiles(t)' = OpenFiles(t)
  <2>1. \A g \in File : IsOpen(t, g)' <=> IsOpen(t, g)
    BY <1>7, <1>14
  <2> QED
    BY <1>8, <1>9, <1>10, <2>1
<1> QED
  BY <1>11, <1>13, <1>14

\* So the count stays that of the open files; a started session never counts below
\* zero, and the last file ends it.
LEMMA CountCounts ==
    ASSUME ManagerInv, NEW u \in Upload, CountFile(u)
    PROVE  ManagerRest'
<1> USE DEF ManagerInv
<1>0. PICK s \in Session, f \in File : job[u] = <<s, f>>
  BY JobType DEF IInv, CountFile
<1>1. f \in OpenFiles(s)
      /\ OpenFiles(s)' = OpenFiles(s) \ {f}
      /\ \A t \in Session : t # s => OpenFiles(t)' = OpenFiles(t)
  BY <1>0, CountOne
<1>2. UNCHANGED <<sessions, admission, files, age, lapsed, status>>
  BY DEF CountFile
<1>3. /\ started'[s] = (started[s] /\ filesCount[s] # 1) /\ filesCount'[s] = filesCount[s] - 1
      /\ \A t \in Session : t # s => started'[t] = started[t] /\ filesCount'[t] = filesCount[t]
  BY <1>0 DEF CountFile, IInv, TypeOK
<1>4. /\ Cardinality(OpenFiles(s)) \in Nat
      /\ Cardinality(OpenFiles(s) \ {f}) = Cardinality(OpenFiles(s)) - 1
      /\ Cardinality(OpenFiles(s)) # 0
  <2>1. IsFiniteSet(OpenFiles(s))
    <3>1. OpenFiles(s) \subseteq File
      BY <1>1 DEF OpenFiles, IInv, TypeOK
    <3> QED
      BY <3>1, FS_Subset, RecvAssumption
  <2> QED
    BY <1>1, <2>1, FS_CardinalityType, FS_RemoveElement, FS_EmptySet
<1>5. \A t \in Session : Admitted(t)' = Admitted(t) /\ (Counted(t)' => Counted(t))
  BY <1>2, <1>3 DEF Admitted, Counted
<1>6. CountInv'
  BY <1>1, <1>3, <1>4, <1>5 DEF CountInv
<1>7. BirthInv'
  <2>1. \A t \in Session : started'[t] => started[t]
    BY <1>3
  <2> QED
    BY <1>2, <1>5, <2>1 DEF BirthInv
<1>8. LapseInv'
  BY <1>2 DEF LapseInv, Timeout
<1>9. ASSUME NEW t \in Session, ~Stopped(t)'
      PROVE  ~Stopped(t)
  <2>1. CASE t = s
    <3>1. started[s] /\ ~Timeout(s)
      BY <1>2, <1>3, <1>9, <2>1 DEF Stopped, Timeout
    <3>2. filesCount[s] # 0
      BY <1>1, <1>4, <3>1 DEF CountInv, Counted
    <3> QED
      BY <2>1, <3>1, <3>2 DEF Stopped
  <2>2. CASE t # s
    BY <1>2, <1>3, <1>9, <2>2 DEF Stopped, Timeout
  <2> QED
    BY <2>1, <2>2
<1> QED
  BY <1>2, <1>6, <1>7, <1>8, <1>9, NoRevivalKeeps DEF NoRevival, ManagerRest

\* Every step keeps the manager's invariant.
LEMMA ManagerStep == ManagerInv /\ [Next]_vars => ManagerInv'
<1> SUFFICES ASSUME ManagerInv, [Next]_vars
             PROVE  ManagerInv'
  OBVIOUS
<1>0. IInv /\ BirthInv
  BY DEF ManagerInv
<1>1. IInv'
  BY <1>0, InvStep
<1>2. Outside => ManagerRest'
  BY OutsideKeeps DEF ManagerRest
<1>3. ASSUME NEW s \in Session, SessionStep(s)
      PROVE  ManagerRest'
  <2>1. ASSUME NEW c \in Client, NEW fs \in SUBSET File, CreateSessionIfAllowed(c, s, fs)
        PROVE  ManagerRest'
    BY <2>1, CreateCounts
  <2>2. CASE StoreSession(s)
    BY <2>2, StoreCounts
  <2>3. CASE StartSession(s)
    BY <2>3, StartCounts
  <2>4. CASE KillEnd(s)
    BY <2>4, KillCounts
  <2>5. CASE GeneratePreUploadResp(s) \/ VacuumCheck(s)
             \/ \E c \in Client : KillSessionForClient(c, s)
    BY <1>0, <1>2, <2>5, OutsideManager
  <2> QED
    BY <1>3, <2>1, <2>2, <2>3, <2>4, <2>5 DEF SessionStep
<1>4. ASSUME VacuumDelete \/ UNCHANGED vars
      PROVE  ManagerRest'
  BY <1>0, <1>2, <1>4, OutsideManager
<1>5. ASSUME Tick
      PROVE  ManagerRest'
  BY <1>5, TickCounts
<1>6. ASSUME NEW u \in Upload, NEW s \in Session, NEW f \in File, NEW c \in Client,
             UploadRequest(u, s, f, c)
      PROVE  ManagerRest'
  BY <1>0, <1>2, <1>6, OutsideSteps
<1>7. ASSUME NEW u \in Upload,
             ReceiveChunk(u) \/ BodyFails(u) \/ AbortAttempt(u) \/ HandlerStep(u)
      PROVE  ManagerRest'
  <2>1. CASE ReceiveChunk(u)
    BY <2>1, ChunkCounts
  <2>2. CASE CountFile(u)
    BY <2>2, CountCounts
  <2>3. CASE ClaimFile(u)
    BY <1>0, <1>2, <2>3, OutsideClaim
  <2>4. CASE SettleFile(u)
    BY <1>0, <1>2, <2>4, OutsideSettle
  <2>5. CASE \/ BodyFails(u) \/ AbortAttempt(u) \/ RejectUpload(u)
             \/ EnsureSaveDir(u) \/ CreateFile(u) \/ NextSuffix(u) \/ NoNameLeft(u)
             \/ ChecksumMismatch(u) \/ BodyVerified(u) \/ BodyRefused(u)
    BY <1>0, <1>2, <2>5, OutsideSteps
  <2> QED
    BY <1>7, <2>1, <2>2, <2>3, <2>4, <2>5 DEF HandlerStep
<1>8. ManagerRest'
  BY <1>3, <1>4, <1>5, <1>6, <1>7 DEF Next
<1> QED
  BY <1>1, <1>8 DEF ManagerInv, ManagerRest

\* It holds from the start.
LEMMA ManagerInvariant == Spec => []ManagerInv
<1>1. ASSUME Init
      PROVE  ManagerInv
  <2>1. BirthInv /\ CountInv
    BY <1>1 DEF Init, BirthInv, CountInv, Counted, Admitted, Free, Key
  <2>2. LapseInv
    BY <1>1, RecvAssumption DEF Init, LapseInv, Timeout
  <2>3. AdmissionInv /\ ExclusiveUnlessLapsed
    BY <1>1 DEF Init, AdmissionInv, ExclusiveUnlessLapsed
  <2> QED
    BY <1>1, <2>1, <2>2, <2>3, InitInv DEF ManagerInv
<1> QED
  BY <1>1, ManagerStep, PTL DEF Spec

\* The filesCount of a started session is the number of its files that have not reached a
\* terminal state, however the retries, failures and cancellations of its uploads
\* interleave with finishFileAttempt's decrement.
THEOREM CountRight == Spec => []CountMatchesOpenFiles
<1>1. ManagerInv => CountMatchesOpenFiles
  BY DEF ManagerInv, CountInv, Counted, CountMatchesOpenFiles
<1> QED
  BY <1>1, ManagerInvariant, PTL

\* CreateSessionIfAllowed admits a session only when no other is active; two active ones
\* need one that had been inactive past SessionTimeout.
THEOREM Exclusive == Spec => []ExclusiveUnlessLapsed
<1>1. ManagerInv => ExclusiveUnlessLapsed
  BY DEF ManagerInv
<1> QED
  BY <1>1, ManagerInvariant, PTL

-----------------------------------------------------------------------------
(* The budget of retries.                                                  *)

\* Only SaveFile's claim spends a try, and only finishFileAttempt gives a file back.
LEMMA RetryStep ==
    ASSUME IInv, RetriesBounded, [Next]_vars
    PROVE  RetriesBounded'
<1> USE RecvAssumption
<1>0. ASSUME UNCHANGED <<status, attempts>>
      PROVE  RetriesBounded'
  BY <1>0 DEF RetriesBounded
<1>1. CASE QuietNext
  BY <1>0, <1>1, QuietSteps DEF IInv, Quiet
<1>2. ASSUME NEW u \in Upload, NEW s \in Session, NEW f \in File, NEW c \in Client,
             UploadRequest(u, s, f, c)
      PROVE  RetriesBounded'
  BY <1>0, <1>2 DEF UploadRequest
<1>3. ASSUME NEW u \in Upload, BodyFails(u) \/ AbortAttempt(u)
      PROVE  RetriesBounded'
  BY <1>0, <1>3 DEF BodyFails, AbortAttempt
<1>4. ASSUME NEW u \in Upload, ClaimFile(u)
      PROVE  RetriesBounded'
  <2>1. /\ job[u] \in Key /\ status[job[u]] = Pending
        /\ status' = [status EXCEPT ![job[u]] = InProgress]
        /\ attempts' = [attempts EXCEPT ![job[u]] = @ + 1]
    BY <1>4, JobType DEF ClaimFile, IInv
  <2> QED
    BY <2>1 DEF RetriesBounded, IInv, TypeOK
<1>5. ASSUME NEW u \in Upload, SettleFile(u)
      PROVE  RetriesBounded'
  <2>1. /\ job[u] \in Key /\ attempts' = attempts
        /\ \/ status' = [status EXCEPT ![job[u]] = Outcome(u)]
           \/ status' = [status EXCEPT ![job[u]] = status[job[u]]]
    BY <1>5, JobType DEF SettleFile, IInv
  <2>2. Outcome(u) = Pending => attempts[job[u]] < MaxChecksumAttempts
    BY DEF Outcome
  <2> QED
    BY <2>1, <2>2 DEF RetriesBounded, IInv, TypeOK
<1>6. ASSUME NEW u \in Upload, HandlerStep(u), ~ClaimFile(u), ~SettleFile(u), ~NextSuffix(u)
      PROVE  RetriesBounded'
  <2>1. CASE RejectUpload(u) \/ EnsureSaveDir(u) \/ CreateFile(u) \/ NoNameLeft(u)
    BY <1>0, <2>1 DEF RejectUpload, EnsureSaveDir, CreateFile, NoNameLeft
  <2>2. CASE ChecksumMismatch(u) \/ BodyVerified(u) \/ BodyRefused(u) \/ CountFile(u)
    BY <1>0, <2>2 DEF ChecksumMismatch, BodyVerified, BodyRefused, CountFile
  <2> QED
    BY <1>6, <2>1, <2>2 DEF HandlerStep
<1> QED
  BY <1>1, <1>2, <1>3, <1>4, <1>5, <1>6 DEF Next, QuietNext

\* No file is tried more often than maxChecksumAttempts, whatever mismatches, failures and
\* races its uploads meet.
THEOREM RetriesEnd == Spec => []RetriesBounded
<1>1. Init => RetriesBounded
  BY RecvAssumption DEF Init, RetriesBounded
<1>2. IInv /\ RetriesBounded /\ [Next]_vars => RetriesBounded'
  BY RetryStep
<1> QED
  BY <1>1, <1>2, Invariant, PTL DEF Spec

=============================================================================
