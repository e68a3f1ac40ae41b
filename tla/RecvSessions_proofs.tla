------------------------ MODULE RecvSessions_proofs ------------------------
(***************************************************************************)
(* Proofs about RecvSessions, for any number of sessions, files, requests  *)
(* and names and for any timeouts.                                         *)
(*                                                                         *)
(* TypeOK is not inductive by itself: that a request names a file needs    *)
(* RequestInv.  FinishedOnDisk needs WriterInv (an open file belongs to    *)
(* the request's own upload), which needs ClaimInv (one request at a time  *)
(* works on a file).                                                       *)
(***************************************************************************)
EXTENDS RecvSessions, FiniteSetTheorems, TLAPS

USE DEF Pending, InProgress, Finished, Failed, Status, Steps
USE DEF managerVars, sessionVars, nameVars, fileVars, requestVars, diskVars

\* The inductive invariant.
IInv ==
    /\ TypeOK
    /\ RequestInv
    /\ ClaimInv
    /\ WriterInv
    /\ StoredInv
    /\ AckedInv
    /\ FinishedOnDisk

\* A request in flight names a file of a session.
LEMMA JobType ==
    ASSUME TypeOK, RequestInv, NEW u \in Upload, pc[u] # "idle"
    PROVE  /\ job[u] \in Key
           /\ job[u][1] \in Session
           /\ job[u][2] \in File
           /\ job[u] = <<job[u][1], job[u][2]>>
  BY DEF TypeOK, RequestInv, RequestOK, Key

\* The name a try to create a file uses is a path.
LEMMA CandidateType ==
    ASSUME TypeOK, RequestInv, NEW u \in Upload, pc[u] = "create",
           suffix[u] <= MaxSuffix \/ path[u] # None
    PROVE  /\ Candidate(u) \in Path
           /\ path[u] = None => Candidate(u)[3] \in Suffix
<1> USE RecvAssumption DEF TypeOK
<1>1. InFolder(job[u]) => remap[job[u][1]] \in Suffix
  BY JobType DEF RequestInv, RequestOK
<1> QED
  BY <1>1, JobType DEF Candidate, Path, Suffix

-----------------------------------------------------------------------------
(* Types.                                                                  *)

\* What SaveFile's clean-up and finishFileAttempt leave of the right type.
LEMMA SettleTypes ==
    ASSUME TypeOK, RequestInv, NEW u \in Upload, SettleFile(u)
    PROVE  /\ owner' \in [Path -> Key \cup {None, User}]
           /\ complete' \subseteq Path
           /\ status' \in [Key -> Status]
           /\ pc' \in [Upload -> Steps]
<1>1. job[u] \in Key
  BY JobType DEF SettleFile
<1>2. path[u] # None => path[u] \in Path
  BY DEF TypeOK
<1>3. owner' \in [Path -> Key \cup {None, User}] /\ complete' \subseteq Path
  BY <1>2 DEF SettleFile, RemovePartial, TypeOK
<1>4. Outcome(u) \in Status
  BY DEF Outcome
<1>5. status' \in [Key -> Status]
  BY <1>1, <1>4 DEF SettleFile, TypeOK
<1>6. pc' \in [Upload -> Steps]
  BY DEF SettleFile, Answer, Goto, TypeOK
<1> QED
  BY <1>3, <1>5, <1>6

\* A step out of a state with TypeOK and RequestInv keeps every variable's type.
LEMMA TypeStep ==
    ASSUME TypeOK, RequestInv, [Next]_vars
    PROVE  TypeOK'
<1> USE RecvAssumption DEF TypeOK
<1>1. ASSUME NEW s \in Session, NEW c \in Client, NEW fs \in SUBSET File,
             CreateSessionIfAllowed(c, s, fs)
      PROVE  TypeOK'
  <2>1. Cardinality(fs) \in Nat
    BY FS_CardinalityType, FS_Subset
  <2> QED
    BY <1>1, <2>1 DEF CreateSessionIfAllowed
<1>2. ASSUME NEW s \in Session, StoreSession(s)
      PROVE  TypeOK'
  BY <1>2 DEF StoreSession
<1>3. ASSUME NEW s \in Session, StartSession(s)
      PROVE  TypeOK'
  BY <1>3 DEF StartSession
<1>4. ASSUME NEW s \in Session, GeneratePreUploadResp(s)
      PROVE  TypeOK'
  BY <1>4 DEF GeneratePreUploadResp
<1>5. ASSUME NEW s \in Session, VacuumCheck(s)
      PROVE  TypeOK'
  BY <1>5 DEF VacuumCheck
<1>6. ASSUME VacuumDelete
      PROVE  TypeOK'
  BY <1>6 DEF VacuumDelete
<1>7. ASSUME NEW s \in Session, NEW c \in Client,
             KillSessionForClient(c, s)
      PROVE  TypeOK'
  BY <1>7 DEF KillSessionForClient
<1>8. ASSUME NEW s \in Session, KillEnd(s)
      PROVE  TypeOK'
  BY <1>8 DEF KillEnd, End
<1>9. ASSUME Tick
      PROVE  TypeOK'
  BY <1>9 DEF Tick
<1>10. ASSUME NEW u \in Upload, NEW s \in Session, NEW f \in File, NEW c \in Client,
             UploadRequest(u, s, f, c)
      PROVE  TypeOK'
  BY <1>10 DEF UploadRequest, Goto, Key
<1>11. ASSUME NEW u \in Upload, ReceiveChunk(u)
      PROVE  TypeOK'
  <2>1. job[u] \in Key /\ job[u][1] \in Session /\ job[u][2] \in File
    BY <1>11, JobType DEF ReceiveChunk
  <2> QED
    BY <1>11, <2>1 DEF ReceiveChunk, DeadlinePassed
<1>12. ASSUME NEW u \in Upload, BodyFails(u)
      PROVE  TypeOK'
  BY <1>12 DEF BodyFails, Goto
<1>13. ASSUME NEW u \in Upload, AbortAttempt(u)
      PROVE  TypeOK'
  BY <1>13 DEF AbortAttempt, Goto
<1>14. ASSUME NEW u \in Upload, ClaimFile(u)
      PROVE  TypeOK'
  <2>1. job[u] \in Key /\ job[u][1] \in Session /\ job[u][2] \in File
    BY <1>14, JobType DEF ClaimFile
  <2> QED
    BY <1>14, <2>1 DEF ClaimFile, Goto, PrepareFolderRemap
<1>15. ASSUME NEW u \in Upload, RejectUpload(u)
      PROVE  TypeOK'
  BY <1>15 DEF RejectUpload, Goto
<1>16. ASSUME NEW u \in Upload, EnsureSaveDir(u)
      PROVE  TypeOK'
  <2>1. job[u] \in Key /\ job[u][1] \in Session /\ job[u][2] \in File
    BY <1>16, JobType DEF EnsureSaveDir
  <2>2. InFolder(job[u]) => remap[job[u][1]] \in Suffix
    BY <1>16, <2>1 DEF EnsureSaveDir, RequestInv, RequestOK
  <2>3. hint[<<job[u][1], DestOf[job[u][2]]>>] \in 0..(MaxSuffix + 1)
    BY <2>1
  <2> QED
    BY <1>16, <2>1, <2>2, <2>3 DEF EnsureSaveDir, Goto
<1>17. ASSUME NEW u \in Upload, CreateFile(u)
      PROVE  TypeOK'
  <2>1. job[u] \in Key /\ job[u][1] \in Session /\ job[u][2] \in File
    BY <1>17, JobType DEF CreateFile
  <2>2. Candidate(u) \in Path /\ (path[u] = None => Candidate(u)[3] \in
     Suffix)
    BY <1>17, CandidateType DEF CreateFile
  <2>3. path[u] = None => NextHint(job[u], Candidate(u)) \in 0..(MaxSuffix +
     1)
    BY <2>1, <2>2 DEF NextHint, Suffix
  <2> QED
    BY <1>17, <2>1, <2>2, <2>3 DEF CreateFile, Goto
<1>18. ASSUME NEW u \in Upload, NextSuffix(u)
      PROVE  TypeOK'
  BY <1>18 DEF NextSuffix
<1>19. ASSUME NEW u \in Upload, NoNameLeft(u)
      PROVE  TypeOK'
  BY <1>19 DEF NoNameLeft, Goto
<1>20. ASSUME NEW u \in Upload, ChecksumMismatch(u)
      PROVE  TypeOK'
  BY <1>20 DEF ChecksumMismatch, Goto
<1>21. ASSUME NEW u \in Upload, BodyVerified(u)
      PROVE  TypeOK'
  <2>1. path[u] \in Path
    BY <1>21 DEF BodyVerified, RequestInv, RequestOK
  <2> QED
    BY <1>21, <2>1 DEF BodyVerified, Goto
<1>22. ASSUME NEW u \in Upload, BodyRefused(u)
      PROVE  TypeOK'
  BY <1>22 DEF BodyRefused, Goto
<1>23. ASSUME NEW u \in Upload, SettleFile(u)
      PROVE  TypeOK'
  <2>1. UNCHANGED <<job, path, suffix, written, idle, result, acked>> \/
     Answer(u)
    BY <1>23 DEF SettleFile
  <2>2. /\ job' \in [Upload -> Key \cup {None}]
        /\ path' \in [Upload -> Path \cup {None}]
        /\ suffix' \in [Upload -> 0..(MaxSuffix + 1)]
        /\ written' \in [Upload -> 0..(FileSize + 1)]
    BY <2>1 DEF Answer
  <2>3. /\ idle' \in [Upload -> 0..(UploadIdleTimeout + 1)]
        /\ result' \in [Upload -> {Pending, Finished, Failed}]
    BY <2>1 DEF Answer
  <2>4. acked' \subseteq Key
    BY <1>23, <2>1, JobType DEF SettleFile, Answer
  <2> QED
    BY <1>23, <2>2, <2>3, <2>4, SettleTypes DEF SettleFile
<1>24. ASSUME NEW u \in Upload, CountFile(u)
      PROVE  TypeOK'
  <2>1. job[u] \in Key /\ job[u][1] \in Session /\ job[u][2] \in File
    BY <1>24, JobType DEF CountFile
  <2> QED
    BY <1>24, <2>1 DEF CountFile, Goto, Answer
<1>25. CASE UNCHANGED vars
  BY <1>25 DEF vars
<1> QED
  BY <1>1, <1>2, <1>3, <1>4, <1>5, <1>6, <1>7, <1>8, <1>9, <1>10, <1>11,
     <1>12, <1>13, <1>14, <1>15, <1>16, <1>17, <1>18, <1>19, <1>20, <1>21,
     <1>22, <1>23, <1>24, <1>25 DEF Next, SessionStep, HandlerStep

-----------------------------------------------------------------------------
(* The rest of the invariant.                                              *)

\* The manager, the vacuum, the clock, the arrival of bytes and the search for a
\* free suffix leave what the invariant speaks about alone; sessions only gain
\* files.
Quiet ==
    /\ \A s \in Session : files[s] \subseteq files'[s]
    /\ UNCHANGED <<status, attempts, targetPath, pc, job, path, result, remap, owner,
                   complete, acked>>

QuietNext ==
    \/ \E s \in Session : SessionStep(s)
    \/ VacuumDelete
    \/ Tick
    \/ \E u \in Upload : ReceiveChunk(u) \/ NextSuffix(u)
    \/ UNCHANGED vars

\* Such a step keeps every part of the invariant.
LEMMA QuietKeeps ==
    ASSUME IInv, Quiet
    PROVE  /\ RequestInv'
           /\ ClaimInv'
           /\ WriterInv'
           /\ StoredInv'
           /\ AckedInv'
           /\ FinishedOnDisk'
<1>1. RequestInv'
  <2> SUFFICES ASSUME NEW u \in Upload
               PROVE  RequestOK(u)'
    BY DEF RequestInv
  <2>1. pc[u] # "idle" => job[u] \in Key /\ job[u][2] \in files'[job[u][1]]
    BY JobType DEF IInv, RequestInv, RequestOK, Quiet
  <2> QED
    BY <2>1 DEF IInv, RequestInv, RequestOK, Quiet, InFolder
<1>2. ClaimInv'
  BY DEF IInv, ClaimInv, Quiet
<1>3. WriterInv'
  BY DEF IInv, WriterInv, Opened, Quiet
<1>4. StoredInv'
  BY DEF IInv, StoredInv, Opened, Quiet
<1>5. AckedInv' /\ FinishedOnDisk'
  BY DEF IInv, AckedInv, FinishedOnDisk, Quiet
<1> QED
  BY <1>1, <1>2, <1>3, <1>4, <1>5

\* They are quiet indeed.
LEMMA QuietSteps ==
    ASSUME TypeOK, QuietNext
    PROVE  Quiet
<1>1. ASSUME NEW s \in Session, NEW c \in Client, NEW fs \in SUBSET File,
             CreateSessionIfAllowed(c, s, fs)
      PROVE  Quiet
  BY <1>1 DEF CreateSessionIfAllowed, Quiet, TypeOK
<1>2. ASSUME NEW s \in Session, StoreSession(s)
      PROVE  Quiet
  BY <1>2 DEF StoreSession, Quiet, TypeOK
<1>3. ASSUME NEW s \in Session, StartSession(s)
      PROVE  Quiet
  BY <1>3 DEF StartSession, Quiet, TypeOK
<1>4. ASSUME NEW s \in Session, GeneratePreUploadResp(s)
      PROVE  Quiet
  BY <1>4 DEF GeneratePreUploadResp, Quiet, TypeOK
<1>5. ASSUME NEW s \in Session, VacuumCheck(s)
      PROVE  Quiet
  BY <1>5 DEF VacuumCheck, Quiet, TypeOK
<1>6. ASSUME VacuumDelete
      PROVE  Quiet
  BY <1>6 DEF VacuumDelete, Quiet, TypeOK
<1>7. ASSUME NEW s \in Session, NEW c \in Client,
             KillSessionForClient(c, s)
      PROVE  Quiet
  BY <1>7 DEF KillSessionForClient, Quiet, TypeOK
<1>8. ASSUME NEW s \in Session, KillEnd(s)
      PROVE  Quiet
  BY <1>8 DEF KillEnd, Quiet, TypeOK, End
<1>9. ASSUME Tick
      PROVE  Quiet
  BY <1>9 DEF Tick, Quiet, TypeOK
<1>10. ASSUME NEW u \in Upload, ReceiveChunk(u)
      PROVE  Quiet
  BY <1>10 DEF ReceiveChunk, Quiet, TypeOK
<1>11. ASSUME NEW u \in Upload, NextSuffix(u)
      PROVE  Quiet
  BY <1>11 DEF NextSuffix, Quiet, TypeOK
<1>12. CASE UNCHANGED vars
  BY <1>12 DEF vars, Quiet
<1> QED
  BY <1>1, <1>2, <1>3, <1>4, <1>5, <1>6, <1>7, <1>8, <1>9, <1>10, <1>11, <1>12
     DEF QuietNext, SessionStep

\* One lemma for each action of an upload request that is not quiet.
\* A new request names a file of its session.
LEMMA UploadRequestKeeps ==
    ASSUME IInv, NEW u \in Upload, NEW s \in Session, NEW f \in File, NEW c \in Client,
           UploadRequest(u, s, f, c)
    PROVE  /\ RequestInv'
           /\ ClaimInv'
           /\ WriterInv'
           /\ StoredInv'
           /\ AckedInv'
           /\ FinishedOnDisk'
<1> USE RecvAssumption DEF IInv, TypeOK
<1>1. RequestInv'
  BY JobType DEF UploadRequest, Goto, RequestInv, RequestOK, Claimed, InFolder, Key
<1>2. ClaimInv'
  BY JobType DEF UploadRequest, Goto, ClaimInv, RequestInv, RequestOK, Claimed
<1>3. WriterInv'
  BY JobType DEF UploadRequest, Goto, WriterInv, Opened, RequestInv,
     RequestOK, ClaimInv, Claimed
<1>4. StoredInv'
  BY JobType DEF UploadRequest, Goto, StoredInv, Opened, RequestInv,
     RequestOK, WriterInv, Claimed, ClaimInv
<1>5. AckedInv'
  BY JobType DEF UploadRequest, Goto, AckedInv, RequestInv, RequestOK, Claimed
<1>6. FinishedOnDisk'
  BY JobType DEF UploadRequest, Goto, FinishedOnDisk, RequestInv, RequestOK,
     Opened, Claimed, AckedInv, WriterInv
<1> QED
  BY <1>1, <1>2, <1>3, <1>4, <1>5, <1>6

\* A request that finds its file taken or settled gives it up.
LEMMA RejectUploadKeeps ==
    ASSUME IInv, NEW u \in Upload,
           RejectUpload(u)
    PROVE  /\ RequestInv'
           /\ ClaimInv'
           /\ WriterInv'
           /\ StoredInv'
           /\ AckedInv'
           /\ FinishedOnDisk'
<1> USE RecvAssumption DEF IInv, TypeOK
<1>1. RequestInv'
  BY JobType DEF RejectUpload, Goto, RequestInv, RequestOK, Claimed, InFolder
<1>2. ClaimInv'
  BY JobType DEF RejectUpload, Goto, ClaimInv, RequestInv, RequestOK, Claimed
<1>3. WriterInv'
  BY JobType DEF RejectUpload, Goto, WriterInv, Opened, RequestInv, RequestOK,
     ClaimInv, Claimed
<1>4. StoredInv'
  BY JobType DEF RejectUpload, Goto, StoredInv, Opened, RequestInv, RequestOK,
     WriterInv, Claimed, ClaimInv
<1>5. AckedInv'
  BY JobType DEF RejectUpload, Goto, AckedInv, RequestInv, RequestOK, Claimed
<1>6. FinishedOnDisk'
  BY JobType DEF RejectUpload, Goto, FinishedOnDisk, RequestInv, RequestOK,
     Opened, Claimed, AckedInv, WriterInv
<1> QED
  BY <1>1, <1>2, <1>3, <1>4, <1>5, <1>6

\* The claim is exclusive: the file was pending, so nobody else works on it.
LEMMA ClaimFileKeeps ==
    ASSUME IInv, NEW u \in Upload,
           ClaimFile(u)
    PROVE  /\ RequestInv'
           /\ ClaimInv'
           /\ WriterInv'
           /\ StoredInv'
           /\ AckedInv'
           /\ FinishedOnDisk'
<1> USE RecvAssumption DEF IInv, TypeOK
<1>1. RequestInv'
  BY JobType DEF ClaimFile, Goto, PrepareFolderRemap, RemapDone, FolderNeeded,
     RequestInv, RequestOK, Claimed, InFolder
<1>2. ClaimInv'
  <2>1. \A v \in Upload : pc[v] \in Claimed \cup {"count"} => job[v] # job[u]
    BY DEF ClaimFile, RequestInv, RequestOK, Claimed
  <2>2. \A v \in Upload : v # u => pc'[v] = pc[v]
    BY DEF ClaimFile, Goto
  <2> QED
    BY <2>1, <2>2 DEF ClaimFile, ClaimInv
<1>3. WriterInv'
  BY JobType DEF ClaimFile, Goto, PrepareFolderRemap, RemapDone, FolderNeeded,
     WriterInv, Opened, RequestInv, RequestOK, ClaimInv, Claimed
<1>4. StoredInv'
  <2>1. \A v \in Upload : Opened(v) => Opened(v)' /\ path'[v] = path[v]
    BY DEF ClaimFile, Goto, Opened
  <2>2. \A k \in Key : status[k] = Finished => status'[k] = Finished
    BY JobType DEF ClaimFile
  <2> QED
    BY <2>1, <2>2 DEF ClaimFile, StoredInv
<1>5. AckedInv'
  BY JobType DEF ClaimFile, Goto, PrepareFolderRemap, RemapDone, FolderNeeded,
     AckedInv, RequestInv, RequestOK, Claimed
<1>6. FinishedOnDisk'
  BY JobType DEF ClaimFile, Goto, PrepareFolderRemap, RemapDone, FolderNeeded,
     FinishedOnDisk, RequestInv, RequestOK, Opened, Claimed, AckedInv,
     WriterInv
<1> QED
  BY <1>1, <1>2, <1>3, <1>4, <1>5, <1>6

\* Making the directory touches no file.
LEMMA EnsureSaveDirKeeps ==
    ASSUME IInv, NEW u \in Upload,
           EnsureSaveDir(u)
    PROVE  /\ RequestInv'
           /\ ClaimInv'
           /\ WriterInv'
           /\ StoredInv'
           /\ AckedInv'
           /\ FinishedOnDisk'
<1> USE RecvAssumption DEF IInv, TypeOK
<1>1. RequestInv'
  BY JobType DEF EnsureSaveDir, Goto, RequestInv, RequestOK, Claimed, InFolder
<1>2. ClaimInv'
  BY JobType DEF EnsureSaveDir, Goto, ClaimInv, RequestInv, RequestOK, Claimed
<1>3. WriterInv'
  BY JobType DEF EnsureSaveDir, Goto, WriterInv, Opened, RequestInv,
     RequestOK, ClaimInv, Claimed
<1>4. StoredInv'
  BY JobType DEF EnsureSaveDir, Goto, StoredInv, Opened, RequestInv,
     RequestOK, WriterInv, Claimed, ClaimInv
<1>5. AckedInv'
  BY JobType DEF EnsureSaveDir, Goto, AckedInv, RequestInv, RequestOK, Claimed
<1>6. FinishedOnDisk'
  BY JobType DEF EnsureSaveDir, Goto, FinishedOnDisk, RequestInv, RequestOK,
     Opened, Claimed, AckedInv, WriterInv
<1> QED
  BY <1>1, <1>2, <1>3, <1>4, <1>5, <1>6

\* O_EXCL: the path was free, so it is no finished file's path.
LEMMA CreateFileKeeps ==
    ASSUME IInv, NEW u \in Upload,
           CreateFile(u)
    PROVE  /\ RequestInv'
           /\ ClaimInv'
           /\ WriterInv'
           /\ StoredInv'
           /\ AckedInv'
           /\ FinishedOnDisk'
<1> USE RecvAssumption DEF IInv, TypeOK
<1>a. Candidate(u) \in Path
  BY CandidateType DEF CreateFile
<1>b. owner[Candidate(u)] = None /\ Candidate(u) \notin complete
  BY <1>a DEF CreateFile, CanOpen, StoredInv
<1>c. Candidate(u) # None
  BY <1>a
<1>d. job[u] \in Key /\ status[job[u]] = InProgress /\ pc[u] = "create"
  BY JobType DEF CreateFile, RequestInv, RequestOK, Claimed
<1>1. RequestInv'
  <2> SUFFICES ASSUME NEW v \in Upload
               PROVE  RequestOK(v)'
    BY DEF RequestInv
  <2>1. pc'[v] = IF v = u THEN "copy" ELSE pc[v]
    BY DEF CreateFile, Goto
  <2>2. path'[v] = IF v = u THEN Candidate(u) ELSE path[v]
    BY DEF CreateFile
  <2> QED
    BY <1>c, <1>d, <2>1, <2>2
       DEF CreateFile, RequestInv, RequestOK, Claimed, InFolder
<1>2. ClaimInv'
  BY JobType DEF CreateFile, Goto, Candidate, CanOpen, ClaimInv, RequestInv,
     RequestOK, Claimed
<1>3. WriterInv'
  <2> SUFFICES ASSUME NEW v \in Upload, Opened(v)'
               PROVE  /\ owner'[path'[v]] = job'[v]
                      /\ targetPath'[job'[v]] = path'[v]
                      /\ path'[v] \in complete' <=> result'[v] = Finished
    BY DEF WriterInv
  <2>1. CASE v = u
    BY <1>a, <1>b, <1>d, <2>1 DEF CreateFile, RequestInv, RequestOK
  <2>2. CASE v # u
    <3>1. Opened(v) /\ path'[v] = path[v] /\ job'[v] = job[v]
      BY <2>2 DEF CreateFile, Goto, Opened
    <3>2. job[v] \in Key /\ job[v] # job[u]
      BY <1>d, <2>2, <3>1, JobType DEF Opened, ClaimInv, Claimed
    <3>3. path[v] \in Path /\ path[v] # Candidate(u)
      BY <1>b, <3>1, <3>2 DEF WriterInv, Opened, RequestInv, RequestOK
    <3> QED
      BY <1>a, <1>d, <3>1, <3>2, <3>3 DEF CreateFile, WriterInv
  <2> QED
    BY <2>1, <2>2
<1>4. StoredInv'
  <2>1. complete' = complete
    BY <1>b DEF CreateFile
  <2>2. \A p \in complete : owner'[p] = owner[p]
    BY <1>a, <1>b DEF CreateFile
  <2>3. \A v \in Upload : Opened(v) => Opened(v)' /\ path'[v] = path[v]
    BY <1>d DEF CreateFile, Goto, Opened
  <2> QED
    BY <2>1, <2>2, <2>3 DEF CreateFile, StoredInv
<1>5. AckedInv'
  BY JobType DEF CreateFile, Goto, Candidate, CanOpen, AckedInv, RequestInv,
     RequestOK, Claimed
<1>6. FinishedOnDisk'
  <2> SUFFICES ASSUME NEW k \in Key, status'[k] = Finished \/ k \in acked'
               PROVE  /\ targetPath'[k] \in complete'
                      /\ owner'[targetPath'[k]] = k
    BY DEF FinishedOnDisk
  <2>1. status[k] = Finished /\ k # job[u]
    BY <1>d DEF CreateFile, AckedInv
  <2>2. targetPath[k] \in complete /\ owner[targetPath[k]] = k
    BY <2>1 DEF FinishedOnDisk
  <2>3. targetPath[k] # Candidate(u)
    BY <1>b, <2>2
  <2> QED
    BY <1>a, <1>d, <2>1, <2>2, <2>3 DEF CreateFile
<1> QED
  BY <1>1, <1>2, <1>3, <1>4, <1>5, <1>6

\* An attempt that fails before a file is open leaves the files alone.
LEMMA AbortAttemptKeeps ==
    ASSUME IInv, NEW u \in Upload,
           AbortAttempt(u)
    PROVE  /\ RequestInv'
           /\ ClaimInv'
           /\ WriterInv'
           /\ StoredInv'
           /\ AckedInv'
           /\ FinishedOnDisk'
<1> USE RecvAssumption DEF IInv, TypeOK
<1>1. RequestInv'
  BY JobType DEF AbortAttempt, Goto, RequestInv, RequestOK, Claimed, InFolder
<1>2. ClaimInv'
  BY JobType DEF AbortAttempt, Goto, ClaimInv, RequestInv, RequestOK, Claimed
<1>3. WriterInv'
  BY JobType DEF AbortAttempt, Goto, WriterInv, Opened, RequestInv, RequestOK,
     ClaimInv, Claimed
<1>4. StoredInv'
  BY JobType DEF AbortAttempt, Goto, StoredInv, Opened, RequestInv, RequestOK,
     WriterInv, Claimed, ClaimInv
<1>5. AckedInv'
  BY JobType DEF AbortAttempt, Goto, AckedInv, RequestInv, RequestOK, Claimed
<1>6. FinishedOnDisk'
  BY JobType DEF AbortAttempt, Goto, FinishedOnDisk, RequestInv, RequestOK,
     Opened, Claimed, AckedInv, WriterInv
<1> QED
  BY <1>1, <1>2, <1>3, <1>4, <1>5, <1>6

\* So does an attempt that found no name.
LEMMA NoNameLeftKeeps ==
    ASSUME IInv, NEW u \in Upload,
           NoNameLeft(u)
    PROVE  /\ RequestInv'
           /\ ClaimInv'
           /\ WriterInv'
           /\ StoredInv'
           /\ AckedInv'
           /\ FinishedOnDisk'
<1> USE RecvAssumption DEF IInv, TypeOK
<1>1. RequestInv'
  BY JobType DEF NoNameLeft, Goto, CanOpen, RequestInv, RequestOK, Claimed,
     InFolder
<1>2. ClaimInv'
  BY JobType DEF NoNameLeft, Goto, CanOpen, ClaimInv, RequestInv, RequestOK,
     Claimed
<1>3. WriterInv'
  BY JobType DEF NoNameLeft, Goto, CanOpen, WriterInv, Opened, RequestInv,
     RequestOK, ClaimInv, Claimed
<1>4. StoredInv'
  BY JobType DEF NoNameLeft, Goto, CanOpen, StoredInv, Opened, RequestInv,
     RequestOK, WriterInv, Claimed, ClaimInv
<1>5. AckedInv'
  BY JobType DEF NoNameLeft, Goto, CanOpen, AckedInv, RequestInv, RequestOK,
     Claimed
<1>6. FinishedOnDisk'
  BY JobType DEF NoNameLeft, Goto, CanOpen, FinishedOnDisk, RequestInv,
     RequestOK, Opened, Claimed, AckedInv, WriterInv
<1> QED
  BY <1>1, <1>2, <1>3, <1>4, <1>5, <1>6

\* A mismatch leaves the file incomplete.
LEMMA ChecksumMismatchKeeps ==
    ASSUME IInv, NEW u \in Upload,
           ChecksumMismatch(u)
    PROVE  /\ RequestInv'
           /\ ClaimInv'
           /\ WriterInv'
           /\ StoredInv'
           /\ AckedInv'
           /\ FinishedOnDisk'
<1> USE RecvAssumption DEF IInv, TypeOK
<1>1. RequestInv'
  BY JobType DEF ChecksumMismatch, Goto, RequestInv, RequestOK, Claimed,
     InFolder
<1>2. ClaimInv'
  BY JobType DEF ChecksumMismatch, Goto, ClaimInv, RequestInv, RequestOK,
     Claimed
<1>3. WriterInv'
  BY JobType DEF ChecksumMismatch, Goto, WriterInv, Opened, RequestInv,
     RequestOK, ClaimInv, Claimed
<1>4. StoredInv'
  BY JobType DEF ChecksumMismatch, Goto, StoredInv, Opened, RequestInv,
     RequestOK, WriterInv, Claimed, ClaimInv
<1>5. AckedInv'
  BY JobType DEF ChecksumMismatch, Goto, AckedInv, RequestInv, RequestOK,
     Claimed
<1>6. FinishedOnDisk'
  BY JobType DEF ChecksumMismatch, Goto, FinishedOnDisk, RequestInv,
     RequestOK, Opened, Claimed, AckedInv, WriterInv
<1> QED
  BY <1>1, <1>2, <1>3, <1>4, <1>5, <1>6

\* The verified file belongs to this request.
LEMMA BodyVerifiedKeeps ==
    ASSUME IInv, NEW u \in Upload,
           BodyVerified(u)
    PROVE  /\ RequestInv'
           /\ ClaimInv'
           /\ WriterInv'
           /\ StoredInv'
           /\ AckedInv'
           /\ FinishedOnDisk'
<1> USE RecvAssumption DEF IInv, TypeOK
<1>1. RequestInv'
  BY JobType DEF BodyVerified, Goto, BodyComplete, RequestInv, RequestOK,
     Claimed, InFolder
<1>2. ClaimInv'
  BY JobType DEF BodyVerified, Goto, BodyComplete, ClaimInv, RequestInv,
     RequestOK, Claimed
<1>3. WriterInv'
  BY JobType DEF BodyVerified, Goto, BodyComplete, WriterInv, Opened,
     RequestInv, RequestOK, ClaimInv, Claimed
<1>4. StoredInv'
  BY JobType DEF BodyVerified, Goto, BodyComplete, StoredInv, Opened,
     RequestInv, RequestOK, WriterInv, Claimed, ClaimInv
<1>5. AckedInv'
  BY JobType DEF BodyVerified, Goto, BodyComplete, AckedInv, RequestInv,
     RequestOK, Claimed
<1>6. FinishedOnDisk'
  BY JobType DEF BodyVerified, Goto, BodyComplete, FinishedOnDisk, RequestInv,
     RequestOK, Opened, Claimed, AckedInv, WriterInv
<1> QED
  BY <1>1, <1>2, <1>3, <1>4, <1>5, <1>6

\* A refused body leaves the file incomplete.
LEMMA BodyRefusedKeeps ==
    ASSUME IInv, NEW u \in Upload,
           BodyRefused(u)
    PROVE  /\ RequestInv'
           /\ ClaimInv'
           /\ WriterInv'
           /\ StoredInv'
           /\ AckedInv'
           /\ FinishedOnDisk'
<1> USE RecvAssumption DEF IInv, TypeOK
<1>1. RequestInv'
  BY JobType DEF BodyRefused, Goto, RequestInv, RequestOK, Claimed, InFolder
<1>2. ClaimInv'
  BY JobType DEF BodyRefused, Goto, ClaimInv, RequestInv, RequestOK, Claimed
<1>3. WriterInv'
  BY JobType DEF BodyRefused, Goto, WriterInv, Opened, RequestInv, RequestOK,
     ClaimInv, Claimed
<1>4. StoredInv'
  BY JobType DEF BodyRefused, Goto, StoredInv, Opened, RequestInv, RequestOK,
     WriterInv, Claimed, ClaimInv
<1>5. AckedInv'
  BY JobType DEF BodyRefused, Goto, AckedInv, RequestInv, RequestOK, Claimed
<1>6. FinishedOnDisk'
  BY JobType DEF BodyRefused, Goto, FinishedOnDisk, RequestInv, RequestOK,
     Opened, Claimed, AckedInv, WriterInv
<1> QED
  BY <1>1, <1>2, <1>3, <1>4, <1>5, <1>6

\* So does a broken one.
LEMMA BodyFailsKeeps ==
    ASSUME IInv, NEW u \in Upload,
           BodyFails(u)
    PROVE  /\ RequestInv'
           /\ ClaimInv'
           /\ WriterInv'
           /\ StoredInv'
           /\ AckedInv'
           /\ FinishedOnDisk'
<1> USE RecvAssumption DEF IInv, TypeOK
<1>1. RequestInv'
  BY JobType DEF BodyFails, Goto, RequestInv, RequestOK, Claimed, InFolder
<1>2. ClaimInv'
  BY JobType DEF BodyFails, Goto, ClaimInv, RequestInv, RequestOK, Claimed
<1>3. WriterInv'
  BY JobType DEF BodyFails, Goto, WriterInv, Opened, RequestInv, RequestOK,
     ClaimInv, Claimed
<1>4. StoredInv'
  BY JobType DEF BodyFails, Goto, StoredInv, Opened, RequestInv, RequestOK,
     WriterInv, Claimed, ClaimInv
<1>5. AckedInv'
  BY JobType DEF BodyFails, Goto, AckedInv, RequestInv, RequestOK, Claimed
<1>6. FinishedOnDisk'
  BY JobType DEF BodyFails, Goto, FinishedOnDisk, RequestInv, RequestOK,
     Opened, Claimed, AckedInv, WriterInv
<1> QED
  BY <1>1, <1>2, <1>3, <1>4, <1>5, <1>6

\* The clean-up removes only this request's own, incomplete file.
LEMMA SettleFileKeeps ==
    ASSUME IInv, NEW u \in Upload,
           SettleFile(u)
    PROVE  /\ RequestInv'
           /\ ClaimInv'
           /\ WriterInv'
           /\ StoredInv'
           /\ AckedInv'
           /\ FinishedOnDisk'
<1> USE RecvAssumption DEF IInv, TypeOK
<1>a. /\ job[u] \in Key /\ status[job[u]] = InProgress /\ pc[u] = "settle"
      /\ result[u] # Failed => path[u] # None
  BY JobType DEF SettleFile, RequestInv, RequestOK, Claimed
<1>b. /\ Terminal(u) <=> Outcome(u) # Pending
      /\ status' = [status EXCEPT ![job[u]] = Outcome(u)]
      /\ Outcome(u) = Finished <=> result[u] = Finished
      /\ Outcome(u) \in {Pending, Finished, Failed}
  BY <1>a DEF SettleFile, Terminal, Outcome
<1>c. \/ /\ Terminal(u)
         /\ pc' = [pc EXCEPT ![u] = "count"]
         /\ UNCHANGED <<job, path, result>>
      \/ /\ ~Terminal(u)
         /\ pc' = [pc EXCEPT ![u] = "idle"]
         /\ job' = [job EXCEPT ![u] = None]
         /\ path' = [path EXCEPT ![u] = None]
         /\ result' = [result EXCEPT ![u] = Failed]
  BY DEF SettleFile, Answer, Goto
<1>d. \A v \in Upload : v # u /\ pc[v] \in Claimed \cup {"count"} => job[v] # job[u]
  BY <1>a DEF ClaimInv, Claimed
<1>1. RequestInv'
  <2> SUFFICES ASSUME NEW v \in Upload
               PROVE  RequestOK(v)'
    BY DEF RequestInv
  <2>1. RequestOK(v)
    BY DEF RequestInv
  <2>2. CASE v # u
    <3>1. /\ pc'[v] = pc[v] /\ job'[v] = job[v]
          /\ path'[v] = path[v] /\ result'[v] = result[v]
      BY <1>c, <2>2
    <3>2. pc[v] \in Claimed \cup {"count"} => status'[job[v]] = status[job[v]]
      BY <1>a, <1>b, <1>d, <2>2
    <3> QED
      BY <2>1, <3>1, <3>2 DEF RequestOK, SettleFile, Claimed, InFolder
  <2>3. CASE v = u
    <3>1. CASE Terminal(u)
      BY <1>a, <1>b, <1>c, <2>1, <2>3, <3>1 DEF RequestOK, SettleFile, Claimed, InFolder
    <3>2. CASE ~Terminal(u)
      BY <1>c, <2>3, <3>2 DEF RequestOK, Claimed
    <3> QED
      BY <3>1, <3>2
  <2> QED
    BY <2>2, <2>3
<1>2. ClaimInv'
  BY JobType DEF SettleFile, Goto, Answer, Answered200, RemovePartial,
     Outcome, Terminal, ClaimInv, RequestInv, RequestOK, Claimed
<1>3. WriterInv'
  BY JobType DEF SettleFile, Goto, Answer, Answered200, RemovePartial,
     Outcome, Terminal, WriterInv, Opened, RequestInv, RequestOK, ClaimInv,
     Claimed
<1>4. StoredInv'
  <2> SUFFICES ASSUME NEW p \in complete'
               PROVE  \/ owner'[p] = User
                      \/ /\ owner'[p] \in Key
                         /\ \/ status'[owner'[p]] = Finished
                            \/ \E v \in Upload : /\ Opened(v)' /\ path'[v] = p
                                                 /\ job'[v] = owner'[p]
                                                 /\ result'[v] = Finished
    BY DEF StoredInv
  <2>1. p \in complete /\ owner'[p] = owner[p]
    BY <1>a DEF SettleFile, RemovePartial
  <2>2. CASE owner[p] = User
    BY <2>1, <2>2
  <2>3. CASE owner[p] \in Key /\ status[owner[p]] = Finished
    BY <1>a, <1>b, <2>1, <2>3
  <2>4. ASSUME NEW v \in Upload, Opened(v), path[v] = p, job[v] = owner[p],
               result[v] = Finished, owner[p] \in Key
        PROVE  \/ status'[owner'[p]] = Finished
               \/ /\ Opened(v)' /\ path'[v] = p
                  /\ job'[v] = owner'[p]
                  /\ result'[v] = Finished
    <3>1. CASE v = u
      BY <1>a, <1>b, <2>1, <2>4, <3>1
    <3>2. CASE v # u
      BY <1>c, <2>1, <2>4, <3>2 DEF Opened
    <3> QED
      BY <3>1, <3>2
  <2> QED
    BY <2>1, <2>2, <2>3, <2>4 DEF StoredInv
<1>5. AckedInv'
  BY JobType DEF SettleFile, Goto, Answer, Answered200, RemovePartial,
     Outcome, Terminal, AckedInv, RequestInv, RequestOK, Claimed
<1>6. FinishedOnDisk'
  BY JobType DEF SettleFile, Goto, Answer, Answered200, RemovePartial,
     Outcome, Terminal, FinishedOnDisk, RequestInv, RequestOK, Opened,
     Claimed, AckedInv, WriterInv
<1> QED
  BY <1>1, <1>2, <1>3, <1>4, <1>5, <1>6

\* The answer is 200 only for a finished file.
LEMMA CountFileKeeps ==
    ASSUME IInv, NEW u \in Upload,
           CountFile(u)
    PROVE  /\ RequestInv'
           /\ ClaimInv'
           /\ WriterInv'
           /\ StoredInv'
           /\ AckedInv'
           /\ FinishedOnDisk'
<1> USE RecvAssumption DEF IInv, TypeOK
<1>1. RequestInv'
  BY JobType DEF CountFile, Goto, Answer, Answered200, RequestInv, RequestOK,
     Claimed, InFolder
<1>2. ClaimInv'
  BY JobType DEF CountFile, Goto, Answer, Answered200, ClaimInv, RequestInv,
     RequestOK, Claimed
<1>3. WriterInv'
  BY JobType DEF CountFile, Goto, Answer, Answered200, WriterInv, Opened,
     RequestInv, RequestOK, ClaimInv, Claimed
<1>4. StoredInv'
  BY JobType DEF CountFile, Goto, Answer, Answered200, StoredInv, Opened,
     RequestInv, RequestOK, WriterInv, Claimed, ClaimInv
<1>5. AckedInv'
  BY JobType DEF CountFile, Goto, Answer, Answered200, AckedInv, RequestInv,
     RequestOK, Claimed
<1>6. FinishedOnDisk'
  BY JobType DEF CountFile, Goto, Answer, Answered200, FinishedOnDisk,
     RequestInv, RequestOK, Opened, Claimed, AckedInv, WriterInv
<1> QED
  BY <1>1, <1>2, <1>3, <1>4, <1>5, <1>6

-----------------------------------------------------------------------------
(* The theorems.                                                           *)

\* The invariant holds at the start: no request, no session.
LEMMA InitInv == Init => IInv
<1> SUFFICES ASSUME Init
             PROVE  IInv
  OBVIOUS
<1> USE RecvAssumption DEF Init
<1>1. complete \subseteq Path
  BY DEF Path, Suffix
<1>2. TypeOK
  BY <1>1 DEF TypeOK, Free, Suffix
<1>3. RequestInv /\ ClaimInv /\ WriterInv
  BY DEF RequestInv, RequestOK, ClaimInv, WriterInv, Opened, Claimed
<1>4. StoredInv
  BY <1>1 DEF StoredInv
<1>5. AckedInv /\ FinishedOnDisk
  BY DEF AckedInv, FinishedOnDisk
<1> QED
  BY <1>2, <1>3, <1>4, <1>5 DEF IInv

\* Every step keeps the invariant.
LEMMA InvStep == IInv /\ [Next]_vars => IInv'
<1> SUFFICES ASSUME IInv, [Next]_vars
             PROVE  IInv'
  OBVIOUS
<1> DEFINE Rest == /\ RequestInv
                   /\ ClaimInv
                   /\ WriterInv
                   /\ StoredInv
                   /\ AckedInv
                   /\ FinishedOnDisk
<1>1. TypeOK'
  BY TypeStep DEF IInv
<1>2. ASSUME QuietNext
      PROVE  Rest'
  BY <1>2, QuietSteps, QuietKeeps DEF IInv
<1>3. ASSUME NEW u \in Upload, NEW s \in Session, NEW f \in File, NEW c \in Client,
             UploadRequest(u, s, f, c)
      PROVE  Rest'
  BY <1>3, UploadRequestKeeps
<1>4. ASSUME NEW u \in Upload, BodyFails(u) \/ AbortAttempt(u)
      PROVE  Rest'
  BY <1>4, BodyFailsKeeps, AbortAttemptKeeps
<1>5. ASSUME NEW u \in Upload, HandlerStep(u), ~NextSuffix(u)
      PROVE  Rest'
  BY <1>5, ClaimFileKeeps, RejectUploadKeeps, EnsureSaveDirKeeps, CreateFileKeeps,
     NoNameLeftKeeps, ChecksumMismatchKeeps, BodyVerifiedKeeps, BodyRefusedKeeps,
     SettleFileKeeps, CountFileKeeps
     DEF HandlerStep
<1>6. Rest'
  <2> HIDE DEF Rest
  <2> QED
    BY <1>2, <1>3, <1>4, <1>5 DEF Next, QuietNext
<1> QED
  BY <1>1, <1>6 DEF IInv

\* So it always holds.
LEMMA Invariant == Spec => []IInv
  BY InitInv, InvStep, PTL DEF Spec

\* Every variable of the receive path keeps its type: in particular a suffix hint
\* never runs past the names the allocator may try, and a request in flight
\* always names a file of a session.
THEOREM TypeCorrect == Spec => []TypeOK
<1>1. IInv => TypeOK
  BY DEF IInv
<1> QED
  BY <1>1, Invariant, PTL

\* What SaveFile reported finished, or the handler acknowledged with 200, lies on
\* disk in full under the recorded name, whatever the other requests do.
THEOREM Delivered == Spec => []FinishedOnDisk
<1>1. IInv => FinishedOnDisk
  BY DEF IInv
<1> QED
  BY <1>1, Invariant, PTL

-----------------------------------------------------------------------------
(* Complete files stay, and the receive path implements Delivery.          *)

\* A step that leaves the complete files alone.
DiskQuiet ==
    /\ complete' = complete
    /\ \A p \in complete : owner'[p] = owner[p]

\* CreateFile opens a path nobody owns, so no complete one.
LEMMA CreateDisk ==
    ASSUME IInv, NEW u \in Upload, CreateFile(u)
    PROVE  DiskQuiet
<1>1. Candidate(u) \in Path
  BY CandidateType DEF CreateFile, IInv
<1>2. Candidate(u) \notin complete
  BY <1>1, RecvAssumption DEF CreateFile, CanOpen, IInv, TypeOK, StoredInv
<1> QED
  BY <1>1, <1>2 DEF CreateFile, DiskQuiet, IInv, TypeOK

\* The clean-up removes no complete file.
LEMMA SettleDisk ==
    ASSUME IInv, NEW u \in Upload, SettleFile(u)
    PROVE  DiskQuiet
<1>1. result[u] # Finished /\ path[u] # None => path[u] \notin complete
  BY DEF SettleFile, IInv, WriterInv, Opened
<1>2. CASE UNCHANGED <<owner, complete>>
  BY <1>2 DEF DiskQuiet
<1>3. CASE /\ result[u] # Finished /\ path[u] # None
           /\ owner' = [owner EXCEPT ![path[u]] = None]
           /\ complete' = complete \ {path[u]}
  BY <1>1, <1>3 DEF DiskQuiet, IInv, TypeOK
<1> QED
  BY <1>2, <1>3 DEF SettleFile, RemovePartial

\* Only BodyVerified adds a complete file, and it completes the file its request
\* has open.
LEMMA DiskSteps ==
    ASSUME IInv, [Next]_vars
    PROVE  DiskQuiet \/ \E u \in Upload : BodyVerified(u)
<1>1. CASE QuietNext
  BY <1>1, QuietSteps DEF IInv, Quiet, DiskQuiet
<1>2. ASSUME NEW u \in Upload, NEW s \in Session, NEW f \in File, NEW c \in Client,
             UploadRequest(u, s, f, c)
      PROVE  DiskQuiet
  BY <1>2 DEF UploadRequest, DiskQuiet
<1>3. ASSUME NEW u \in Upload, BodyFails(u) \/ AbortAttempt(u)
      PROVE  DiskQuiet
  BY <1>3 DEF BodyFails, AbortAttempt, DiskQuiet
<1>4. ASSUME NEW u \in Upload, HandlerStep(u), ~BodyVerified(u), ~NextSuffix(u)
      PROVE  DiskQuiet
  <2>1. CASE CreateFile(u) \/ SettleFile(u)
    BY <2>1, CreateDisk, SettleDisk
  <2>2. CASE ClaimFile(u) \/ RejectUpload(u) \/ EnsureSaveDir(u) \/ NoNameLeft(u)
    BY <2>2 DEF ClaimFile, RejectUpload, EnsureSaveDir, NoNameLeft, DiskQuiet
  <2>3. CASE ChecksumMismatch(u) \/ BodyRefused(u) \/ CountFile(u)
    BY <2>3 DEF ChecksumMismatch, BodyRefused, CountFile, DiskQuiet
  <2> QED
    BY <1>4, <2>1, <2>2, <2>3 DEF HandlerStep
<1> QED
  BY <1>1, <1>2, <1>3, <1>4 DEF Next, QuietNext

\* No step of the receive path overwrites, truncates or removes a file that is
\* complete, whether this session, another one or the user put it there.
THEOREM CompleteStays == Spec => CompleteIsFinal
<1>1. IInv /\ [Next]_vars =>
          [\A p \in complete : p \in complete' /\ owner'[p] = owner[p]]_<<complete, owner>>
  <2> SUFFICES ASSUME IInv, [Next]_vars
               PROVE  \A p \in complete : p \in complete' /\ owner'[p] = owner[p]
    OBVIOUS
  <2>1. CASE DiskQuiet
    BY <2>1 DEF DiskQuiet
  <2>2. ASSUME NEW u \in Upload, BodyVerified(u)
        PROVE  \A p \in complete : p \in complete' /\ owner'[p] = owner[p]
    BY <2>2 DEF BodyVerified
  <2> QED
    BY <2>1, <2>2, DiskSteps
<1> QED
  BY <1>1, Invariant, PTL DEF Spec, CompleteIsFinal

\* A file whose upload is not verified yet is neither stored nor given up.
LEMMA OpenNotStored ==
    ASSUME IInv, NEW u \in Upload, pc[u] \in Claimed, result[u] # Finished
    PROVE  job[u] \in Key /\ job[u] \notin Stored \cup GivenUp
<1>1. job[u] \in Key /\ status[job[u]] = InProgress
  BY JobType DEF IInv, RequestInv, RequestOK, Claimed
<1>2. ASSUME NEW p \in complete, owner[p] = job[u]
      PROVE  FALSE
  <2>1. PICK v \in Upload : Opened(v) /\ job[v] = job[u] /\ result[v] = Finished
    BY <1>1, <1>2, RecvAssumption DEF IInv, StoredInv
  <2>2. v = u
    BY <2>1 DEF IInv, ClaimInv, Opened, Claimed
  <2> QED
    BY <2>1, <2>2
<1> QED
  BY <1>1, <1>2 DEF Stored, GivenUp

\* Stored reads the complete files only.
LEMMA StoredQuiet ==
    ASSUME DiskQuiet
    PROVE  Stored' = Stored
  BY DEF DiskQuiet, Stored

\* The last step of SaveFile's happy path stores the file.
LEMMA VerifiedStores ==
    ASSUME IInv, NEW u \in Upload, BodyVerified(u)
    PROVE  D!Store(job[u]) /\ job[u] \in Key
<1>1. job[u] \in Key /\ job[u] \notin Stored \cup GivenUp
  BY OpenNotStored DEF BodyVerified, IInv, RequestInv, RequestOK, Claimed
<1>2. owner[path[u]] = job[u]
  BY DEF BodyVerified, IInv, WriterInv, Opened
<1>3. Stored' = Stored \cup {job[u]}
  BY <1>1, <1>2 DEF BodyVerified, Stored
<1>4. GivenUp' = GivenUp /\ acked' = acked
  BY DEF BodyVerified, GivenUp
<1> QED
  BY <1>1, <1>3, <1>4 DEF D!Store

\* finishFileAttempt gives a file up, or leaves it open, or finds it stored.
LEMMA SettleFails ==
    ASSUME IInv, NEW u \in Upload, SettleFile(u)
    PROVE  \/ D!Fail(job[u]) /\ job[u] \in Key
           \/ UNCHANGED <<Stored, GivenUp, acked>>
<1>1. Stored' = Stored
  BY SettleDisk, StoredQuiet
<1>2. job[u] \in Key /\ status[job[u]] = InProgress
  BY JobType DEF SettleFile, IInv, RequestInv, RequestOK, Claimed
<1>3. status' = [status EXCEPT ![job[u]] = Outcome(u)]
  BY <1>2 DEF SettleFile
<1>4. acked' = acked
  BY <1>2 DEF SettleFile, Answer, Terminal, Outcome, Answered200
<1>5. CASE Outcome(u) = Failed
  <2>1. job[u] \notin Stored \cup GivenUp
    BY <1>5, OpenNotStored DEF SettleFile, Outcome, Claimed
  <2>2. GivenUp' = GivenUp \cup {job[u]}
    BY <1>2, <1>3, <1>5 DEF GivenUp, IInv, TypeOK
  <2> QED
    BY <1>1, <1>2, <1>4, <2>1, <2>2 DEF D!Fail
<1>6. CASE Outcome(u) # Failed
  BY <1>1, <1>2, <1>3, <1>4, <1>6 DEF GivenUp, IInv, TypeOK
<1> QED
  BY <1>5, <1>6

\* The answer acknowledges a stored file or none.
LEMMA CountAcks ==
    ASSUME IInv, NEW u \in Upload, CountFile(u)
    PROVE  \/ D!Ack(job[u]) /\ job[u] \in Key
           \/ UNCHANGED <<Stored, GivenUp, acked>>
<1>1. Stored' = Stored /\ GivenUp' = GivenUp
  BY DEF CountFile, Stored, GivenUp
<1>2. CASE result[u] = Finished
  <2>1. job[u] \in Key /\ status[job[u]] = Finished
    BY <1>2, JobType DEF CountFile, IInv, RequestInv, RequestOK
  <2>2. job[u] \in Stored
    BY <2>1 DEF IInv, FinishedOnDisk, Stored
  <2> QED
    BY <1>1, <1>2, <2>1, <2>2 DEF D!Ack, CountFile, Answer, Answered200
<1>3. CASE result[u] # Finished
  BY <1>1, <1>3 DEF CountFile, Answer, Answered200
<1> QED
  BY <1>2, <1>3

\* The other steps are stuttering steps of Delivery.
LEMMA OtherStutters ==
    ASSUME IInv, [Next]_vars,
           \A u \in Upload : ~BodyVerified(u) /\ ~SettleFile(u) /\ ~CountFile(u)
    PROVE  UNCHANGED <<Stored, GivenUp, acked>>
<1>1. Stored' = Stored
  BY DiskSteps, StoredQuiet
<1>2. ASSUME QuietNext
      PROVE  GivenUp' = GivenUp /\ acked' = acked
  BY <1>2, QuietSteps DEF IInv, Quiet, GivenUp
<1>3. ASSUME NEW u \in Upload, NEW s \in Session, NEW f \in File, NEW c \in Client,
             UploadRequest(u, s, f, c)
      PROVE  GivenUp' = GivenUp /\ acked' = acked
  BY <1>3 DEF UploadRequest, GivenUp
<1>4. ASSUME NEW u \in Upload, BodyFails(u) \/ AbortAttempt(u)
      PROVE  GivenUp' = GivenUp /\ acked' = acked
  BY <1>4 DEF BodyFails, AbortAttempt, GivenUp
<1>5. ASSUME NEW u \in Upload, HandlerStep(u), ~NextSuffix(u)
      PROVE  GivenUp' = GivenUp /\ acked' = acked
  <2>1. CASE ClaimFile(u)
    <3>1. job[u] \in Key
      BY <2>1, JobType DEF ClaimFile, IInv
    <3> QED
      BY <2>1, <3>1 DEF ClaimFile, GivenUp, IInv, TypeOK
  <2>2. CASE RejectUpload(u) \/ EnsureSaveDir(u) \/ CreateFile(u) \/ NoNameLeft(u)
    BY <2>2 DEF RejectUpload, EnsureSaveDir, CreateFile, NoNameLeft, GivenUp
  <2>3. CASE ChecksumMismatch(u) \/ BodyRefused(u)
    BY <2>3 DEF ChecksumMismatch, BodyRefused, GivenUp
  <2> QED
    BY <1>5, <2>1, <2>2, <2>3 DEF HandlerStep
<1> QED
  BY <1>1, <1>2, <1>3, <1>4, <1>5 DEF Next, QuietNext

\* The receive path implements Delivery: each accepted file is stored or given up
\* at most once, what is stored stays stored, and only a stored file is answered
\* with 200.
THEOREM ImplementsDelivery == Spec => DeliverySpec
<1>1. Init => D!Init
  <2> SUFFICES ASSUME Init
               PROVE  Stored = {} /\ GivenUp = {} /\ acked = {}
    BY DEF D!Init
  <2>1. \A p \in complete : owner[p] = User
    BY RecvAssumption DEF Init, Path, Suffix
  <2> QED
    BY <2>1, RecvAssumption DEF Init, Stored, GivenUp
<1>2. IInv /\ [Next]_vars => [D!Next]_(D!deliveryVars)
  <2> SUFFICES ASSUME IInv, [Next]_vars
               PROVE  D!Next \/ UNCHANGED D!deliveryVars
    OBVIOUS
  <2>1. ASSUME NEW u \in Upload, BodyVerified(u)
        PROVE  D!Next
    BY <2>1, VerifiedStores DEF D!Next
  <2>2. ASSUME NEW u \in Upload, SettleFile(u)
        PROVE  D!Next \/ UNCHANGED D!deliveryVars
    BY <2>2, SettleFails DEF D!Next, D!deliveryVars
  <2>3. ASSUME NEW u \in Upload, CountFile(u)
        PROVE  D!Next \/ UNCHANGED D!deliveryVars
    BY <2>3, CountAcks DEF D!Next, D!deliveryVars
  <2> QED
    BY <2>1, <2>2, <2>3, OtherStutters DEF D!deliveryVars
<1> QED
  BY <1>1, <1>2, Invariant, PTL DEF Spec, DeliverySpec, D!Spec

=============================================================================
