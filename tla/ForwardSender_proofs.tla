------------------------ MODULE ForwardSender_proofs ------------------------
(***************************************************************************)
(* Proofs about ForwardSender, for any files, any number of upload workers  *)
(* and attempts and any timeouts.                                           *)
(*                                                                         *)
(* A file that the receiver accepted is at every time in one place: still    *)
(* to be handed out, with one worker, failed or saved (JobInv, SentInv).     *)
(* CancelStopsUploads needs that a snapshot of the connections misses none   *)
(* and that none is tracked after abort (CancelInv).                        *)
(***************************************************************************)
EXTENDS ForwardSender, TLAPS

USE DEF Canceller

\* A worker has a file while it works, and that file is saved at the receiver only if
\* the answer that says so is on its way to this worker.
JobInv ==
    /\ \A w \in Worker :
          /\ job[w] = None <=> pc[w] \in {"idle", "exit"}
          /\ reply[w] # None => pc[w] = "awaiting"
          /\ job[w] \in stored <=> reply[w] = "ok"
    /\ \A v, w \in Worker : job[v] = job[w] /\ job[v] # None => v = w
    /\ \A f \in todo : f \notin stored /\ \A w \in Worker : job[w] # f

\* What the phase of Start says about the rest.
PhaseInv ==
    /\ phase = "prepare" =>
          ~session /\ todo = {} /\ errs = {} /\ stored = {} /\ \A w \in Worker : pc[w] = "idle"
    /\ phase \in {"wait", "cancel"} => todo = {}
    /\ answer # "accept" => tokens = {}
    /\ result # None => phase = "returned"

\* An accepted file is to be handed out, with a worker, failed or saved.
SentInv ==
    ~abort /\ phase \in {"feed", "wait"} =>
        \A f \in tokens : f \in todo \cup errs \cup stored \/ \E w \in Worker : job[w] = f

\* Start's own Cancel runs at its end, and it is done when the receiver was told.
ReleaseInv ==
    /\ cancel["main"] # "none" => phase \in {"cancel", "returned"}
    /\ cancel["main"] = "done" /\ session => remote = "ended" \/ lost

\* A cancellation that has set abort closes every connection that is open.
CancelInv ==
    \A p \in Canceller :
        /\ cancel[p] \notin {"none", "begin"} => abort
        /\ cancel[p] = "close" => \A w \in Worker : conn[w] = "open" => w \in snapshot[p]
        /\ cancel[p] \in {"ask", "asked", "done"} => \A w \in Worker : conn[w] # "open"

\* The deadline of a connection is at most DeadlineRefresh behind its last I/O.
AgeInv == \A w \in Worker : age[w] < quiet[w] + DeadlineRefresh

\* The inductive invariant.
FInv == /\ TypeOK /\ JobInv /\ PhaseInv /\ SentInv /\ ReleaseInv /\ CancelInv /\ AgeInv
        /\ NilMeansSent /\ FailureReleasesRemote

-----------------------------------------------------------------------------
(* Types.                                                                  *)

\* Every step of the command, of a worker and of a cancellation keeps the types.
LEMMA TypeStep ==
    ASSUME TypeOK, JobInv, [Next]_vars
    PROVE  TypeOK'
<1> USE ForwardAssumption DEF TypeOK, commandVars, workerVars, cancelVars, remoteVars
<1>1. CASE PreUploadServed
  BY <1>1 DEF PreUploadServed, Added
<1>2. CASE PreUploadAccepted
  BY <1>2 DEF PreUploadAccepted
<1>3. CASE PreUploadFinished
  BY <1>3 DEF PreUploadFinished, Return
<1>4. CASE PreUploadFails
  BY <1>4 DEF PreUploadFails, Return
<1>5. CASE CloseJobs
  BY <1>5 DEF CloseJobs
<1>6. CASE StartSucceeds
  BY <1>6 DEF StartSucceeds, Return
<1>7. CASE StartFails
  BY <1>7 DEF StartFails, ReleaseRemote
<1>8. CASE StartCancelled
  BY <1>8 DEF StartCancelled, Return
<1>9. CASE RemoteEnds
  BY <1>9 DEF RemoteEnds
<1>10. CASE Signal
  BY <1>10 DEF Signal, CancelAt
<1>11. CASE Tick
  BY <1>11 DEF Tick
<1>12. ASSUME NEW w \in Worker, TakeJob(w)
      PROVE  TypeOK'
  BY <1>12 DEF TakeJob, JobInv
<1>13. ASSUME NEW w \in Worker, ExitWorker(w)
      PROVE  TypeOK'
  BY <1>13 DEF ExitWorker, JobInv
<1>14. ASSUME NEW w \in Worker, SkipAborted(w)
      PROVE  TypeOK'
  BY <1>14 DEF SkipAborted, JobEnds, JobInv
<1>15. ASSUME NEW w \in Worker, OpenFails(w)
      PROVE  TypeOK'
  BY <1>15 DEF OpenFails, Fail, JobEnds, JobInv
<1>16. ASSUME NEW w \in Worker, OpenFile(w)
      PROVE  TypeOK'
  BY <1>16 DEF OpenFile, JobInv
<1>17. ASSUME NEW w \in Worker, Reuse(w)
      PROVE  TypeOK'
  BY <1>17 DEF Reuse, JobInv
<1>18. ASSUME NEW w \in Worker, DialFails(w)
      PROVE  TypeOK'
  BY <1>18 DEF DialFails, Fail, JobEnds, JobInv
<1>19. ASSUME NEW w \in Worker, Dial(w)
      PROVE  TypeOK'
  BY <1>19 DEF Dial, JobInv
<1>20. ASSUME NEW w \in Worker, TrackUpload(w)
      PROVE  TypeOK'
  BY <1>20 DEF TrackUpload, JobInv
<1>21. ASSUME NEW w \in Worker, RefuseDialed(w)
      PROVE  TypeOK'
  BY <1>21 DEF RefuseDialed, Fail, JobEnds, JobInv
<1>22. ASSUME NEW w \in Worker, Write(w)
      PROVE  TypeOK'
  BY <1>22 DEF Write, RefreshedAge, JobInv
<1>23. ASSUME NEW w \in Worker, AwaitReply(w)
      PROVE  TypeOK'
  BY <1>23 DEF AwaitReply, JobInv
<1>24. ASSUME NEW w \in Worker, RemoteAnswers(w)
      PROVE  TypeOK'
  BY <1>24 DEF RemoteAnswers, JobInv
<1>25. ASSUME NEW w \in Worker, ReplyOK(w)
      PROVE  TypeOK'
  BY <1>25 DEF ReplyOK, JobEnds, JobInv
<1>26. ASSUME NEW w \in Worker, Retry(w)
      PROVE  TypeOK'
  BY <1>26 DEF Retry, RetryChecksum, JobInv
<1>27. ASSUME NEW w \in Worker, ReplyError(w)
      PROVE  TypeOK'
  BY <1>27 DEF ReplyError, GiveUp, Fail, JobEnds, JobInv
<1>28. ASSUME NEW w \in Worker, ConnBroken(w)
      PROVE  TypeOK'
  BY <1>28 DEF ConnBroken, DoFails, Fail, JobEnds, JobInv
<1>29. ASSUME NEW w \in Worker, DeadlineExpires(w)
      PROVE  TypeOK'
  BY <1>29 DEF DeadlineExpires, DoFails, Fail, JobEnds, JobInv
<1>30. ASSUME NEW p \in Canceller, SetAbort(p)
      PROVE  TypeOK'
  BY <1>30 DEF SetAbort, CancelAt
<1>31. ASSUME NEW p \in Canceller, SnapshotUploads(p)
      PROVE  TypeOK'
  BY <1>31 DEF SnapshotUploads, CancelAt
<1>32. ASSUME NEW p \in Canceller, CloseUploads(p)
      PROVE  TypeOK'
  BY <1>32 DEF CloseUploads, CancelAt
<1>33. ASSUME NEW p \in Canceller, AskRemote(p)
      PROVE  TypeOK'
  BY <1>33 DEF AskRemote, CancelAt
<1>34. ASSUME NEW p \in Canceller, RemoteCancels(p)
      PROVE  TypeOK'
  BY <1>34 DEF RemoteCancels, CancelAt
<1>35. ASSUME NEW p \in Canceller, CancelLost(p)
      PROVE  TypeOK'
  BY <1>35 DEF CancelLost, CancelAt
<1>36. CASE UNCHANGED vars
  BY <1>36 DEF vars
<1> QED
  BY <1>1, <1>2, <1>3, <1>4, <1>5, <1>6, <1>7, <1>8, <1>9, <1>10, <1>11, <1>12, <1>13,
     <1>14, <1>15, <1>16, <1>17, <1>18, <1>19, <1>20, <1>21, <1>22, <1>23, <1>24, <1>25,
     <1>26, <1>27, <1>28, <1>29, <1>30, <1>31, <1>32, <1>33, <1>34, <1>35, <1>36
     DEF Next, CommandStep, WorkerStep, CancelStep

-----------------------------------------------------------------------------
(* The other parts.                                                        *)

\* A file is with one worker at most, and nobody takes a saved one.
LEMMA JobStep ==
    ASSUME FInv, Next
    PROVE  JobInv'
<1> USE ForwardAssumption DEF FInv, commandVars, workerVars, cancelVars, remoteVars
<1>1. ASSUME UNCHANGED <<job, pc, reply, stored, todo>>
      PROVE  JobInv'
  BY <1>1 DEF JobInv
<1>2. CASE \/ PreUploadServed \/ PreUploadFinished \/ PreUploadFails \/ CloseJobs
           \/ StartSucceeds \/ StartFails \/ StartCancelled \/ RemoteEnds \/ Signal
           \/ Tick
  BY <1>1, <1>2 DEF CloseJobs, PreUploadFails, PreUploadFinished, PreUploadServed,
         RemoteEnds, Signal, StartCancelled, StartFails, StartSucceeds, Tick, Added,
         CancelAt, JobsHandedOut, ReleaseRemote, Return, WorkersDone
<1>3. ASSUME NEW w \in Worker, Write(w)
      PROVE  JobInv'
  BY <1>1, <1>3 DEF Write, RefreshedAge
<1>4. ASSUME NEW p \in Canceller,
             \/ SetAbort(p) \/ SnapshotUploads(p) \/ CloseUploads(p) \/ AskRemote(p)
             \/ RemoteCancels(p) \/ CancelLost(p)
      PROVE  JobInv'
  BY <1>1, <1>4 DEF AskRemote, CancelLost, CloseUploads, RemoteCancels, SetAbort,
         SnapshotUploads, CancelAt
<1>5. CASE PreUploadAccepted
  BY <1>5 DEF PreUploadAccepted, JobInv, TypeOK, PhaseInv
<1>6. ASSUME NEW w \in Worker, TakeJob(w)
      PROVE  JobInv'
  BY <1>6 DEF TakeJob, JobInv, TypeOK, PhaseInv
<1>7. ASSUME NEW w \in Worker, ExitWorker(w)
      PROVE  JobInv'
  BY <1>7 DEF ExitWorker, JobInv, TypeOK, PhaseInv
<1>8. ASSUME NEW w \in Worker, SkipAborted(w)
      PROVE  JobInv'
  BY <1>8 DEF SkipAborted, JobEnds, JobInv, TypeOK, PhaseInv
<1>9. ASSUME NEW w \in Worker, OpenFails(w)
      PROVE  JobInv'
  BY <1>9 DEF OpenFails, Fail, JobEnds, JobInv, TypeOK, PhaseInv
<1>10. ASSUME NEW w \in Worker, OpenFile(w)
      PROVE  JobInv'
  BY <1>10 DEF OpenFile, JobInv, TypeOK, PhaseInv
<1>11. ASSUME NEW w \in Worker, Reuse(w)
      PROVE  JobInv'
  BY <1>11 DEF Reuse, JobInv, TypeOK, PhaseInv
<1>12. ASSUME NEW w \in Worker, DialFails(w)
      PROVE  JobInv'
  BY <1>12 DEF DialFails, Fail, JobEnds, JobInv, TypeOK, PhaseInv
<1>13. ASSUME NEW w \in Worker, Dial(w)
      PROVE  JobInv'
  BY <1>13 DEF Dial, JobInv, TypeOK, PhaseInv
<1>14. ASSUME NEW w \in Worker, TrackUpload(w)
      PROVE  JobInv'
  BY <1>14 DEF TrackUpload, MayTrack, JobInv, TypeOK, PhaseInv
<1>15. ASSUME NEW w \in Worker, RefuseDialed(w)
      PROVE  JobInv'
  BY <1>15 DEF RefuseDialed, Fail, JobEnds, JobInv, TypeOK, PhaseInv
<1>16. ASSUME NEW w \in Worker, AwaitReply(w)
      PROVE  JobInv'
  BY <1>16 DEF AwaitReply, JobInv, TypeOK, PhaseInv
<1>17. ASSUME NEW w \in Worker, RemoteAnswers(w)
      PROVE  JobInv'
  BY <1>17 DEF RemoteAnswers, JobInv, TypeOK, PhaseInv
<1>18. ASSUME NEW w \in Worker, ReplyOK(w)
      PROVE  JobInv'
  BY <1>18 DEF ReplyOK, JobEnds, JobInv, TypeOK, PhaseInv
<1>19. ASSUME NEW w \in Worker, Retry(w)
      PROVE  JobInv'
  BY <1>19 DEF Retry, RetryChecksum, JobInv, TypeOK, PhaseInv
<1>20. ASSUME NEW w \in Worker, ReplyError(w)
      PROVE  JobInv'
  BY <1>20 DEF ReplyError, GiveUp, Fail, JobEnds, JobInv, TypeOK, PhaseInv
<1>21. ASSUME NEW w \in Worker, ConnBroken(w)
      PROVE  JobInv'
  BY <1>21 DEF ConnBroken, DoFails, Fail, JobEnds, JobInv, TypeOK, PhaseInv
<1>22. ASSUME NEW w \in Worker, DeadlineExpires(w)
      PROVE  JobInv'
  BY <1>22 DEF DeadlineExpires, DoFails, Fail, JobEnds, JobInv, TypeOK, PhaseInv
<1> QED
  BY <1>2, <1>3, <1>4, <1>5, <1>6, <1>7, <1>8, <1>9, <1>10, <1>11, <1>12, <1>13, <1>14,
     <1>15, <1>16, <1>17, <1>18, <1>19, <1>20, <1>21, <1>22
     DEF Next, CommandStep, WorkerStep, CancelStep

\* The phases of Start come in their order.
LEMMA PhaseStep ==
    ASSUME FInv, Next
    PROVE  PhaseInv'
<1> USE ForwardAssumption DEF FInv, commandVars, workerVars, cancelVars, remoteVars
<1>1. ASSUME UNCHANGED <<phase, session, todo, errs, stored, pc, answer, tokens, result>>
      PROVE  PhaseInv'
  BY <1>1 DEF PhaseInv
<1>2. CASE \/ RemoteEnds \/ Signal \/ Tick
  BY <1>1, <1>2 DEF RemoteEnds, Signal, Tick, CancelAt
<1>3. ASSUME NEW w \in Worker, Write(w)
      PROVE  PhaseInv'
  BY <1>1, <1>3 DEF Write, RefreshedAge
<1>4. ASSUME NEW p \in Canceller,
             \/ SetAbort(p) \/ SnapshotUploads(p) \/ CloseUploads(p) \/ AskRemote(p)
             \/ RemoteCancels(p) \/ CancelLost(p)
      PROVE  PhaseInv'
  BY <1>1, <1>4 DEF AskRemote, CancelLost, CloseUploads, RemoteCancels, SetAbort,
         SnapshotUploads, CancelAt
<1>5. CASE PreUploadServed
  BY <1>5 DEF PreUploadServed, Added, PhaseInv, TypeOK, Running
<1>6. CASE PreUploadAccepted
  BY <1>6 DEF PreUploadAccepted, PhaseInv, TypeOK, Running
<1>7. CASE PreUploadFinished
  BY <1>7 DEF PreUploadFinished, Return, PhaseInv, TypeOK, Running
<1>8. CASE PreUploadFails
  BY <1>8 DEF PreUploadFails, Return, PhaseInv, TypeOK, Running
<1>9. CASE CloseJobs
  BY <1>9 DEF CloseJobs, JobsHandedOut, PhaseInv, TypeOK, Running
<1>10. CASE StartSucceeds
  BY <1>10 DEF StartSucceeds, Return, WorkersDone, PhaseInv, TypeOK, Running
<1>11. CASE StartFails
  BY <1>11 DEF StartFails, ReleaseRemote, WorkersDone, PhaseInv, TypeOK, Running
<1>12. CASE StartCancelled
  BY <1>12 DEF StartCancelled, Return, PhaseInv, TypeOK, Running
<1>13. ASSUME NEW w \in Worker, TakeJob(w)
      PROVE  PhaseInv'
  BY <1>13 DEF TakeJob, PhaseInv, TypeOK, Running
<1>14. ASSUME NEW w \in Worker, ExitWorker(w)
      PROVE  PhaseInv'
  BY <1>14 DEF ExitWorker, PhaseInv, TypeOK, Running
<1>15. ASSUME NEW w \in Worker, SkipAborted(w)
      PROVE  PhaseInv'
  BY <1>15 DEF SkipAborted, JobEnds, PhaseInv, TypeOK, Running
<1>16. ASSUME NEW w \in Worker, OpenFails(w)
      PROVE  PhaseInv'
  BY <1>16 DEF OpenFails, Fail, JobEnds, PhaseInv, TypeOK, Running
<1>17. ASSUME NEW w \in Worker, OpenFile(w)
      PROVE  PhaseInv'
  BY <1>17 DEF OpenFile, PhaseInv, TypeOK, Running
<1>18. ASSUME NEW w \in Worker, Reuse(w)
      PROVE  PhaseInv'
  BY <1>18 DEF Reuse, PhaseInv, TypeOK, Running
<1>19. ASSUME NEW w \in Worker, DialFails(w)
      PROVE  PhaseInv'
  BY <1>19 DEF DialFails, Fail, JobEnds, PhaseInv, TypeOK, Running
<1>20. ASSUME NEW w \in Worker, Dial(w)
      PROVE  PhaseInv'
  BY <1>20 DEF Dial, PhaseInv, TypeOK, Running
<1>21. ASSUME NEW w \in Worker, TrackUpload(w)
      PROVE  PhaseInv'
  BY <1>21 DEF TrackUpload, MayTrack, PhaseInv, TypeOK, Running
<1>22. ASSUME NEW w \in Worker, RefuseDialed(w)
      PROVE  PhaseInv'
  BY <1>22 DEF RefuseDialed, Fail, JobEnds, PhaseInv, TypeOK, Running
<1>23. ASSUME NEW w \in Worker, AwaitReply(w)
      PROVE  PhaseInv'
  BY <1>23 DEF AwaitReply, PhaseInv, TypeOK, Running
<1>24. ASSUME NEW w \in Worker, RemoteAnswers(w)
      PROVE  PhaseInv'
  BY <1>24 DEF RemoteAnswers, PhaseInv, TypeOK, Running
<1>25. ASSUME NEW w \in Worker, ReplyOK(w)
      PROVE  PhaseInv'
  BY <1>25 DEF ReplyOK, JobEnds, PhaseInv, TypeOK, Running
<1>26. ASSUME NEW w \in Worker, Retry(w)
      PROVE  PhaseInv'
  BY <1>26 DEF Retry, RetryChecksum, PhaseInv, TypeOK, Running
<1>27. ASSUME NEW w \in Worker, ReplyError(w)
      PROVE  PhaseInv'
  BY <1>27 DEF ReplyError, GiveUp, Fail, JobEnds, PhaseInv, TypeOK, Running
<1>28. ASSUME NEW w \in Worker, ConnBroken(w)
      PROVE  PhaseInv'
  BY <1>28 DEF ConnBroken, DoFails, Fail, JobEnds, PhaseInv, TypeOK, Running
<1>29. ASSUME NEW w \in Worker, DeadlineExpires(w)
      PROVE  PhaseInv'
  BY <1>29 DEF DeadlineExpires, DoFails, Fail, JobEnds, PhaseInv, TypeOK, Running
<1> QED
  BY <1>2, <1>3, <1>4, <1>5, <1>6, <1>7, <1>8, <1>9, <1>10, <1>11, <1>12, <1>13, <1>14,
     <1>15, <1>16, <1>17, <1>18, <1>19, <1>20, <1>21, <1>22, <1>23, <1>24, <1>25, <1>26,
     <1>27, <1>28, <1>29
     DEF Next, CommandStep, WorkerStep, CancelStep

\* No step loses an accepted file.
LEMMA SentStep ==
    ASSUME FInv, Next
    PROVE  SentInv'
<1> USE ForwardAssumption DEF FInv, commandVars, workerVars, cancelVars, remoteVars
<1>1. ASSUME UNCHANGED <<abort, phase, tokens, todo, errs, stored, job>>
      PROVE  SentInv'
  BY <1>1 DEF SentInv
<1>2. CASE \/ RemoteEnds \/ Signal \/ Tick
  BY <1>1, <1>2 DEF RemoteEnds, Signal, Tick, CancelAt
<1>3. ASSUME NEW w \in Worker,
             \/ ExitWorker(w) \/ OpenFile(w) \/ Reuse(w) \/ Dial(w) \/ TrackUpload(w)
             \/ Write(w) \/ AwaitReply(w) \/ Retry(w)
      PROVE  SentInv'
  BY <1>1, <1>3 DEF AwaitReply, Dial, ExitWorker, OpenFile, Retry, Reuse, TrackUpload,
         Write, MayTrack, RefreshedAge, RetryChecksum
<1>4. ASSUME NEW p \in Canceller,
             \/ SnapshotUploads(p) \/ CloseUploads(p) \/ AskRemote(p)
             \/ RemoteCancels(p) \/ CancelLost(p)
      PROVE  SentInv'
  BY <1>1, <1>4 DEF AskRemote, CancelLost, CloseUploads, RemoteCancels, SnapshotUploads,
         CancelAt
<1>5. CASE PreUploadServed
  BY <1>5 DEF PreUploadServed, Added, SentInv, TypeOK, JobInv, PhaseInv
<1>6. CASE PreUploadAccepted
  BY <1>6 DEF PreUploadAccepted, SentInv, TypeOK, JobInv, PhaseInv
<1>7. CASE PreUploadFinished
  BY <1>7 DEF PreUploadFinished, Return, SentInv, TypeOK, JobInv, PhaseInv
<1>8. CASE PreUploadFails
  BY <1>8 DEF PreUploadFails, Return, SentInv, TypeOK, JobInv, PhaseInv
<1>9. CASE CloseJobs
  BY <1>9 DEF CloseJobs, JobsHandedOut, SentInv, TypeOK, JobInv, PhaseInv
<1>10. CASE StartSucceeds
  BY <1>10 DEF StartSucceeds, Return, WorkersDone, SentInv, TypeOK, JobInv, PhaseInv
<1>11. CASE StartFails
  BY <1>11 DEF StartFails, ReleaseRemote, WorkersDone, SentInv, TypeOK, JobInv, PhaseInv
<1>12. CASE StartCancelled
  BY <1>12 DEF StartCancelled, Return, SentInv, TypeOK, JobInv, PhaseInv
<1>13. ASSUME NEW w \in Worker, TakeJob(w)
      PROVE  SentInv'
  BY <1>13 DEF TakeJob, SentInv, TypeOK, JobInv, PhaseInv
<1>14. ASSUME NEW w \in Worker, SkipAborted(w)
      PROVE  SentInv'
  BY <1>14 DEF SkipAborted, JobEnds, SentInv, TypeOK, JobInv, PhaseInv
<1>15. ASSUME NEW w \in Worker, OpenFails(w)
      PROVE  SentInv'
  BY <1>15 DEF OpenFails, Fail, JobEnds, SentInv, TypeOK, JobInv, PhaseInv
<1>16. ASSUME NEW w \in Worker, DialFails(w)
      PROVE  SentInv'
  BY <1>16 DEF DialFails, Fail, JobEnds, SentInv, TypeOK, JobInv, PhaseInv
<1>17. ASSUME NEW w \in Worker, RefuseDialed(w)
      PROVE  SentInv'
  BY <1>17 DEF RefuseDialed, Fail, JobEnds, SentInv, TypeOK, JobInv, PhaseInv
<1>18. ASSUME NEW w \in Worker, RemoteAnswers(w)
      PROVE  SentInv'
  BY <1>18 DEF RemoteAnswers, SentInv, TypeOK, JobInv, PhaseInv
<1>19. ASSUME NEW w \in Worker, ReplyOK(w)
      PROVE  SentInv'
  BY <1>19 DEF ReplyOK, JobEnds, SentInv, TypeOK, JobInv, PhaseInv
<1>20. ASSUME NEW w \in Worker, ReplyError(w)
      PROVE  SentInv'
  BY <1>20 DEF ReplyError, GiveUp, Fail, JobEnds, SentInv, TypeOK, JobInv, PhaseInv
<1>21. ASSUME NEW w \in Worker, ConnBroken(w)
      PROVE  SentInv'
  BY <1>21 DEF ConnBroken, DoFails, Fail, JobEnds, SentInv, TypeOK, JobInv, PhaseInv
<1>22. ASSUME NEW w \in Worker, DeadlineExpires(w)
      PROVE  SentInv'
  BY <1>22 DEF DeadlineExpires, DoFails, Fail, JobEnds, SentInv, TypeOK, JobInv, PhaseInv
<1>23. ASSUME NEW p \in Canceller, SetAbort(p)
      PROVE  SentInv'
  BY <1>23 DEF SetAbort, CancelAt, SentInv, TypeOK, JobInv, PhaseInv
<1> QED
  BY <1>2, <1>3, <1>4, <1>5, <1>6, <1>7, <1>8, <1>9, <1>10, <1>11, <1>12, <1>13, <1>14,
     <1>15, <1>16, <1>17, <1>18, <1>19, <1>20, <1>21, <1>22, <1>23
     DEF Next, CommandStep, WorkerStep, CancelStep

\* Start's own Cancel is not over before the receiver was asked.
LEMMA ReleaseStep ==
    ASSUME FInv, Next
    PROVE  ReleaseInv'
<1> USE ForwardAssumption DEF FInv, commandVars, workerVars, cancelVars, remoteVars
<1>1. ASSUME UNCHANGED <<cancel, phase, session, remote, lost>>
      PROVE  ReleaseInv'
  BY <1>1 DEF ReleaseInv
<1>2. CASE Tick
  BY <1>1, <1>2 DEF Tick
<1>3. ASSUME NEW w \in Worker,
             \/ TakeJob(w) \/ ExitWorker(w) \/ SkipAborted(w) \/ OpenFails(w)
             \/ OpenFile(w) \/ Reuse(w) \/ DialFails(w) \/ Dial(w) \/ TrackUpload(w)
             \/ RefuseDialed(w) \/ Write(w) \/ AwaitReply(w) \/ RemoteAnswers(w)
             \/ ReplyOK(w) \/ Retry(w) \/ ReplyError(w) \/ ConnBroken(w)
             \/ DeadlineExpires(w)
      PROVE  ReleaseInv'
  BY <1>1, <1>3 DEF AwaitReply, ConnBroken, DeadlineExpires, Dial, DialFails, ExitWorker,
         OpenFails, OpenFile, RefuseDialed, RemoteAnswers, ReplyError, ReplyOK, Retry,
         Reuse, SkipAborted, TakeJob, TrackUpload, Write, DoFails, Fail, GiveUp, JobEnds,
         MayTrack, RefreshedAge, RetryChecksum
<1>4. CASE PreUploadServed
  BY <1>4 DEF PreUploadServed, Added, ReleaseInv, TypeOK, PhaseInv, Running
<1>5. CASE PreUploadAccepted
  BY <1>5 DEF PreUploadAccepted, ReleaseInv, TypeOK, PhaseInv, Running
<1>6. CASE PreUploadFinished
  BY <1>6 DEF PreUploadFinished, Return, ReleaseInv, TypeOK, PhaseInv, Running
<1>7. CASE PreUploadFails
  BY <1>7 DEF PreUploadFails, Return, ReleaseInv, TypeOK, PhaseInv, Running
<1>8. CASE CloseJobs
  BY <1>8 DEF CloseJobs, JobsHandedOut, ReleaseInv, TypeOK, PhaseInv, Running
<1>9. CASE StartSucceeds
  BY <1>9 DEF StartSucceeds, Return, WorkersDone, ReleaseInv, TypeOK, PhaseInv, Running
<1>10. CASE StartFails
  BY <1>10 DEF StartFails, ReleaseRemote, WorkersDone, ReleaseInv, TypeOK, PhaseInv, Running
<1>11. CASE StartCancelled
  BY <1>11 DEF StartCancelled, Return, ReleaseInv, TypeOK, PhaseInv, Running
<1>12. CASE RemoteEnds
  BY <1>12 DEF RemoteEnds, ReleaseInv, TypeOK, PhaseInv, Running
<1>13. CASE Signal
  BY <1>13 DEF Signal, CancelAt, ReleaseInv, TypeOK, PhaseInv, Running
<1>14. ASSUME NEW p \in Canceller, SetAbort(p)
      PROVE  ReleaseInv'
  BY <1>14 DEF SetAbort, CancelAt, ReleaseInv, TypeOK, PhaseInv, Running
<1>15. ASSUME NEW p \in Canceller, SnapshotUploads(p)
      PROVE  ReleaseInv'
  BY <1>15 DEF SnapshotUploads, CancelAt, ReleaseInv, TypeOK, PhaseInv, Running
<1>16. ASSUME NEW p \in Canceller, CloseUploads(p)
      PROVE  ReleaseInv'
  BY <1>16 DEF CloseUploads, CancelAt, ReleaseInv, TypeOK, PhaseInv, Running
<1>17. ASSUME NEW p \in Canceller, AskRemote(p)
      PROVE  ReleaseInv'
  BY <1>17 DEF AskRemote, CancelAt, ReleaseInv, TypeOK, PhaseInv, Running
<1>18. ASSUME NEW p \in Canceller, RemoteCancels(p)
      PROVE  ReleaseInv'
  BY <1>18 DEF RemoteCancels, CancelAt, ReleaseInv, TypeOK, PhaseInv, Running
<1>19. ASSUME NEW p \in Canceller, CancelLost(p)
      PROVE  ReleaseInv'
  BY <1>19 DEF CancelLost, CancelAt, ReleaseInv, TypeOK, PhaseInv, Running
<1> QED
  BY <1>2, <1>3, <1>4, <1>5, <1>6, <1>7, <1>8, <1>9, <1>10, <1>11, <1>12, <1>13, <1>14,
     <1>15, <1>16, <1>17, <1>18, <1>19
     DEF Next, CommandStep, WorkerStep, CancelStep

\* No connection is opened or missed after abort.
LEMMA CancelKept ==
    ASSUME FInv, Next
    PROVE  CancelInv'
<1> USE ForwardAssumption DEF FInv, commandVars, workerVars, cancelVars, remoteVars
<1>1. ASSUME UNCHANGED <<cancel, abort, conn, snapshot>>
      PROVE  CancelInv'
  BY <1>1 DEF CancelInv
<1>2. CASE \/ PreUploadServed \/ PreUploadAccepted \/ PreUploadFinished
           \/ PreUploadFails \/ CloseJobs \/ StartSucceeds \/ StartCancelled
           \/ RemoteEnds \/ Tick
  BY <1>1, <1>2 DEF CloseJobs, PreUploadAccepted, PreUploadFails, PreUploadFinished,
         PreUploadServed, RemoteEnds, StartCancelled, StartSucceeds, Tick, Added,
         JobsHandedOut, Return, WorkersDone
<1>3. ASSUME NEW w \in Worker,
             \/ TakeJob(w) \/ ExitWorker(w) \/ SkipAborted(w) \/ OpenFails(w)
             \/ OpenFile(w) \/ Reuse(w) \/ DialFails(w) \/ Dial(w) \/ RefuseDialed(w)
             \/ Write(w) \/ AwaitReply(w) \/ RemoteAnswers(w) \/ ReplyOK(w) \/ Retry(w)
             \/ ReplyError(w)
      PROVE  CancelInv'
  BY <1>1, <1>3 DEF AwaitReply, Dial, DialFails, ExitWorker, OpenFails, OpenFile,
         RefuseDialed, RemoteAnswers, ReplyError, ReplyOK, Retry, Reuse, SkipAborted,
         TakeJob, Write, Fail, GiveUp, JobEnds, RefreshedAge, RetryChecksum
<1>4. CASE StartFails
  BY <1>4 DEF StartFails, ReleaseRemote, WorkersDone, CancelInv, TypeOK
<1>5. CASE Signal
  BY <1>5 DEF Signal, CancelAt, CancelInv, TypeOK
<1>6. ASSUME NEW w \in Worker, TrackUpload(w)
      PROVE  CancelInv'
  BY <1>6 DEF TrackUpload, MayTrack, CancelInv, TypeOK
<1>7. ASSUME NEW w \in Worker, ConnBroken(w)
      PROVE  CancelInv'
  BY <1>7 DEF ConnBroken, DoFails, Fail, JobEnds, CancelInv, TypeOK
<1>8. ASSUME NEW w \in Worker, DeadlineExpires(w)
      PROVE  CancelInv'
  BY <1>8 DEF DeadlineExpires, DoFails, Fail, JobEnds, CancelInv, TypeOK
<1>9. ASSUME NEW p \in Canceller, SetAbort(p)
      PROVE  CancelInv'
  BY <1>9 DEF SetAbort, CancelAt, CancelInv, TypeOK
<1>10. ASSUME NEW p \in Canceller, SnapshotUploads(p)
      PROVE  CancelInv'
  BY <1>10 DEF SnapshotUploads, CancelAt, CancelInv, TypeOK
<1>11. ASSUME NEW p \in Canceller, CloseUploads(p)
      PROVE  CancelInv'
  BY <1>11 DEF CloseUploads, CancelAt, CancelInv, TypeOK
<1>12. ASSUME NEW p \in Canceller, AskRemote(p)
      PROVE  CancelInv'
  BY <1>12 DEF AskRemote, CancelAt, CancelInv, TypeOK
<1>13. ASSUME NEW p \in Canceller, RemoteCancels(p)
      PROVE  CancelInv'
  BY <1>13 DEF RemoteCancels, CancelAt, CancelInv, TypeOK
<1>14. ASSUME NEW p \in Canceller, CancelLost(p)
      PROVE  CancelInv'
  BY <1>14 DEF CancelLost, CancelAt, CancelInv, TypeOK
<1> QED
  BY <1>2, <1>3, <1>4, <1>5, <1>6, <1>7, <1>8, <1>9, <1>10, <1>11, <1>12, <1>13, <1>14
     DEF Next, CommandStep, WorkerStep, CancelStep

\* Every write moves a deadline that is DeadlineRefresh old.
LEMMA AgeStep ==
    ASSUME FInv, Next
    PROVE  AgeInv'
<1> USE ForwardAssumption DEF FInv, commandVars, workerVars, cancelVars, remoteVars
<1>1. ASSUME UNCHANGED <<age, quiet>>
      PROVE  AgeInv'
  BY <1>1 DEF AgeInv
<1>2. CASE \/ PreUploadServed \/ PreUploadAccepted \/ PreUploadFinished
           \/ PreUploadFails \/ CloseJobs \/ StartSucceeds \/ StartFails
           \/ StartCancelled \/ RemoteEnds \/ Signal
  BY <1>1, <1>2 DEF CloseJobs, PreUploadAccepted, PreUploadFails, PreUploadFinished,
         PreUploadServed, RemoteEnds, Signal, StartCancelled, StartFails, StartSucceeds,
         Added, CancelAt, JobsHandedOut, ReleaseRemote, Return, WorkersDone
<1>3. ASSUME NEW w \in Worker,
             \/ TakeJob(w) \/ ExitWorker(w) \/ SkipAborted(w) \/ OpenFails(w)
             \/ OpenFile(w) \/ DialFails(w) \/ Dial(w) \/ RefuseDialed(w)
             \/ RemoteAnswers(w) \/ ReplyOK(w) \/ Retry(w) \/ ReplyError(w)
             \/ ConnBroken(w) \/ DeadlineExpires(w)
      PROVE  AgeInv'
  BY <1>1, <1>3 DEF ConnBroken, DeadlineExpires, Dial, DialFails, ExitWorker, OpenFails,
         OpenFile, RefuseDialed, RemoteAnswers, ReplyError, ReplyOK, Retry, SkipAborted,
         TakeJob, DoFails, Fail, GiveUp, JobEnds, RetryChecksum
<1>4. ASSUME NEW p \in Canceller,
             \/ SetAbort(p) \/ SnapshotUploads(p) \/ CloseUploads(p) \/ AskRemote(p)
             \/ RemoteCancels(p) \/ CancelLost(p)
      PROVE  AgeInv'
  BY <1>1, <1>4 DEF AskRemote, CancelLost, CloseUploads, RemoteCancels, SetAbort,
         SnapshotUploads, CancelAt
<1>5. CASE Tick
  BY <1>5 DEF Tick, AgeInv, TypeOK
<1>6. ASSUME NEW w \in Worker, Reuse(w)
      PROVE  AgeInv'
  BY <1>6 DEF Reuse, AgeInv, TypeOK
<1>7. ASSUME NEW w \in Worker, TrackUpload(w)
      PROVE  AgeInv'
  BY <1>7 DEF TrackUpload, MayTrack, AgeInv, TypeOK
<1>8. ASSUME NEW w \in Worker, Write(w)
      PROVE  AgeInv'
  BY <1>8 DEF Write, RefreshedAge, AgeInv, TypeOK
<1>9. ASSUME NEW w \in Worker, AwaitReply(w)
      PROVE  AgeInv'
  BY <1>9 DEF AwaitReply, AgeInv, TypeOK
<1> QED
  BY <1>2, <1>3, <1>4, <1>5, <1>6, <1>7, <1>8, <1>9
     DEF Next, CommandStep, WorkerStep, CancelStep

\* Start returns nil only when every accepted file is saved.
LEMMA NilStep ==
    ASSUME FInv, Next
    PROVE  NilMeansSent'
<1> USE ForwardAssumption DEF FInv, commandVars, workerVars, cancelVars, remoteVars
<1>1. ASSUME UNCHANGED <<result, abort, tokens, stored>>
      PROVE  NilMeansSent'
  BY <1>1 DEF NilMeansSent
<1>2. CASE \/ PreUploadAccepted \/ CloseJobs \/ StartFails \/ RemoteEnds \/ Signal \/ Tick
  BY <1>1, <1>2 DEF CloseJobs, PreUploadAccepted, RemoteEnds, Signal, StartFails, Tick,
         CancelAt, JobsHandedOut, ReleaseRemote, WorkersDone
<1>3. ASSUME NEW w \in Worker,
             \/ TakeJob(w) \/ ExitWorker(w) \/ SkipAborted(w) \/ OpenFails(w)
             \/ OpenFile(w) \/ Reuse(w) \/ DialFails(w) \/ Dial(w) \/ TrackUpload(w)
             \/ RefuseDialed(w) \/ Write(w) \/ AwaitReply(w) \/ ReplyOK(w) \/ Retry(w)
             \/ ReplyError(w) \/ ConnBroken(w) \/ DeadlineExpires(w)
      PROVE  NilMeansSent'
  BY <1>1, <1>3 DEF AwaitReply, ConnBroken, DeadlineExpires, Dial, DialFails, ExitWorker,
         OpenFails, OpenFile, RefuseDialed, ReplyError, ReplyOK, Retry, Reuse,
         SkipAborted, TakeJob, TrackUpload, Write, DoFails, Fail, GiveUp, JobEnds,
         MayTrack, RefreshedAge, RetryChecksum
<1>4. ASSUME NEW p \in Canceller,
             \/ SnapshotUploads(p) \/ CloseUploads(p) \/ AskRemote(p)
             \/ RemoteCancels(p) \/ CancelLost(p)
      PROVE  NilMeansSent'
  BY <1>1, <1>4 DEF AskRemote, CancelLost, CloseUploads, RemoteCancels, SnapshotUploads,
         CancelAt
<1>5. CASE PreUploadServed
  BY <1>5 DEF PreUploadServed, Added, NilMeansSent, TypeOK, PhaseInv, SentInv, JobInv,
     WorkersDone, Running
<1>6. CASE PreUploadFinished
  BY <1>6 DEF PreUploadFinished, Return, NilMeansSent, TypeOK, PhaseInv, SentInv, JobInv,
     WorkersDone, Running
<1>7. CASE PreUploadFails
  BY <1>7 DEF PreUploadFails, Return, NilMeansSent, TypeOK, PhaseInv, SentInv, JobInv,
     WorkersDone, Running
<1>8. CASE StartSucceeds
  BY <1>8 DEF StartSucceeds, Return, WorkersDone, NilMeansSent, TypeOK, PhaseInv, SentInv,
     JobInv, WorkersDone, Running
<1>9. CASE StartCancelled
  BY <1>9 DEF StartCancelled, Return, NilMeansSent, TypeOK, PhaseInv, SentInv, JobInv,
     WorkersDone, Running
<1>10. ASSUME NEW w \in Worker, RemoteAnswers(w)
      PROVE  NilMeansSent'
  BY <1>10 DEF RemoteAnswers, NilMeansSent, TypeOK, PhaseInv, SentInv, JobInv,
     WorkersDone, Running
<1>11. ASSUME NEW p \in Canceller, SetAbort(p)
      PROVE  NilMeansSent'
  BY <1>11 DEF SetAbort, CancelAt, NilMeansSent, TypeOK, PhaseInv, SentInv, JobInv,
     WorkersDone, Running
<1> QED
  BY <1>2, <1>3, <1>4, <1>5, <1>6, <1>7, <1>8, <1>9, <1>10, <1>11
     DEF Next, CommandStep, WorkerStep, CancelStep

\* Start returns an error only after the receiver was told.
LEMMA FailureStep ==
    ASSUME FInv, Next
    PROVE  FailureReleasesRemote'
<1> USE ForwardAssumption DEF FInv, commandVars, workerVars, cancelVars, remoteVars
<1>1. ASSUME UNCHANGED <<result, session, remote, lost>>
      PROVE  FailureReleasesRemote'
  BY <1>1 DEF FailureReleasesRemote
<1>2. CASE \/ CloseJobs \/ StartFails \/ Signal \/ Tick
  BY <1>1, <1>2 DEF CloseJobs, Signal, StartFails, Tick, CancelAt, JobsHandedOut,
         ReleaseRemote, WorkersDone
<1>3. ASSUME NEW w \in Worker,
             \/ TakeJob(w) \/ ExitWorker(w) \/ SkipAborted(w) \/ OpenFails(w)
             \/ OpenFile(w) \/ Reuse(w) \/ DialFails(w) \/ Dial(w) \/ TrackUpload(w)
             \/ RefuseDialed(w) \/ Write(w) \/ AwaitReply(w) \/ RemoteAnswers(w)
             \/ ReplyOK(w) \/ Retry(w) \/ ReplyError(w) \/ ConnBroken(w)
             \/ DeadlineExpires(w)
      PROVE  FailureReleasesRemote'
  BY <1>1, <1>3 DEF AwaitReply, ConnBroken, DeadlineExpires, Dial, DialFails, ExitWorker,
         OpenFails, OpenFile, RefuseDialed, RemoteAnswers, ReplyError, ReplyOK, Retry,
         Reuse, SkipAborted, TakeJob, TrackUpload, Write, DoFails, Fail, GiveUp, JobEnds,
         MayTrack, RefreshedAge, RetryChecksum
<1>4. ASSUME NEW p \in Canceller,
             \/ SetAbort(p) \/ SnapshotUploads(p) \/ CloseUploads(p) \/ AskRemote(p)
      PROVE  FailureReleasesRemote'
  BY <1>1, <1>4 DEF AskRemote, CloseUploads, SetAbort, SnapshotUploads, CancelAt
<1>5. CASE PreUploadServed
  BY <1>5 DEF PreUploadServed, Added, FailureReleasesRemote, TypeOK, PhaseInv, ReleaseInv,
     Running
<1>6. CASE PreUploadAccepted
  BY <1>6 DEF PreUploadAccepted, FailureReleasesRemote, TypeOK, PhaseInv, ReleaseInv,
     Running
<1>7. CASE PreUploadFinished
  BY <1>7 DEF PreUploadFinished, Return, FailureReleasesRemote, TypeOK, PhaseInv,
     ReleaseInv, Running
<1>8. CASE PreUploadFails
  BY <1>8 DEF PreUploadFails, Return, FailureReleasesRemote, TypeOK, PhaseInv, ReleaseInv,
     Running
<1>9. CASE StartSucceeds
  BY <1>9 DEF StartSucceeds, Return, WorkersDone, FailureReleasesRemote, TypeOK, PhaseInv,
     ReleaseInv, Running
<1>10. CASE StartCancelled
  BY <1>10 DEF StartCancelled, Return, FailureReleasesRemote, TypeOK, PhaseInv,
     ReleaseInv, Running
<1>11. CASE RemoteEnds
  BY <1>11 DEF RemoteEnds, FailureReleasesRemote, TypeOK, PhaseInv, ReleaseInv, Running
<1>12. ASSUME NEW p \in Canceller, RemoteCancels(p)
      PROVE  FailureReleasesRemote'
  BY <1>12 DEF RemoteCancels, CancelAt, FailureReleasesRemote, TypeOK, PhaseInv,
     ReleaseInv, Running
<1>13. ASSUME NEW p \in Canceller, CancelLost(p)
      PROVE  FailureReleasesRemote'
  BY <1>13 DEF CancelLost, CancelAt, FailureReleasesRemote, TypeOK, PhaseInv, ReleaseInv,
     Running
<1> QED
  BY <1>2, <1>3, <1>4, <1>5, <1>6, <1>7, <1>8, <1>9, <1>10, <1>11, <1>12, <1>13
     DEF Next, CommandStep, WorkerStep, CancelStep

-----------------------------------------------------------------------------
(* The theorems.                                                           *)

\* The parts together.
LEMMA ForwardInvariant == Spec => []FInv
<1>1. ASSUME Init
      PROVE  FInv
  <2>1. TypeOK
    <3>1. 0 \in 0 .. MaxUploadAttempts /\ 0 \in 0 .. IdleTimeout
      BY ForwardAssumption
    <3>2. /\ attempt \in [Worker -> 0 .. MaxUploadAttempts]
          /\ age \in [Worker -> 0 .. IdleTimeout] /\ quiet \in [Worker -> 0 .. IdleTimeout]
      BY <1>1, <3>1 DEF Init
    <3> QED
      BY <1>1, <3>2 DEF Init, TypeOK
  <2>2. JobInv /\ PhaseInv /\ SentInv
    BY <1>1, ForwardAssumption DEF Init, JobInv, PhaseInv, SentInv
  <2>3. ReleaseInv /\ CancelInv /\ NilMeansSent /\ FailureReleasesRemote
    BY <1>1, ForwardAssumption
    DEF Init, ReleaseInv, CancelInv, NilMeansSent, FailureReleasesRemote
  <2>4. AgeInv
    BY <1>1, ForwardAssumption DEF Init, AgeInv
  <2> QED
    BY <2>1, <2>2, <2>3, <2>4 DEF FInv
<1>2. ASSUME FInv, [Next]_vars
      PROVE  FInv'
  <2>1. CASE Next
    <3>1. TypeOK'
      BY <1>2, TypeStep DEF FInv
    <3> QED
      BY <1>2, <2>1, <3>1, JobStep, PhaseStep, SentStep, ReleaseStep, CancelKept, AgeStep,
         NilStep, FailureStep
      DEF FInv
  <2>2. CASE UNCHANGED vars
    <3>1. TypeOK'
      BY <1>2, TypeStep DEF FInv
    <3> QED
      BY <1>2, <2>2, <3>1 DEF FInv, vars, commandVars, workerVars, cancelVars, remoteVars,
         JobInv, PhaseInv, SentInv, ReleaseInv, CancelInv, AgeInv, NilMeansSent,
         FailureReleasesRemote
  <2> QED
    BY <1>2, <2>1, <2>2
<1> QED
  BY <1>1, <1>2, PTL DEF Spec

\* The sender's state keeps its types: attempts never pass maxUploadAttempts and no
\* deadline is overrun.
THEOREM ForwardTypes == Spec => []TypeOK
<1>1. FInv => TypeOK
  BY DEF FInv
<1> QED
  BY <1>1, ForwardInvariant, PTL

\* When Start returns nil and nobody cancelled, every file that the receiver accepted is
\* saved there.
THEOREM NilIsSent == Spec => []NilMeansSent
<1>1. FInv => NilMeansSent
  BY DEF FInv
<1> QED
  BY <1>1, ForwardInvariant, PTL

\* After closeActiveUploads no upload connection is open, and trackUpload admits none.
THEOREM CancelIsFinal == Spec => []CancelStopsUploads
<1>1. FInv => CancelStopsUploads
  BY DEF FInv, CancelInv, CancelStopsUploads
<1> QED
  BY <1>1, ForwardInvariant, PTL

\* A Start that fails with a session has asked the receiver to end it, or the request got
\* lost.
THEOREM FailureIsTold == Spec => []FailureReleasesRemote
<1>1. FInv => FailureReleasesRemote
  BY DEF FInv
<1> QED
  BY <1>1, ForwardInvariant, PTL

\* No file is offered again once the receiver has saved it, and no two workers send one.
THEOREM NeverResent == Spec => []NoResend
<1>1. FInv => NoResend
  <2> SUFFICES ASSUME FInv
               PROVE  NoResend
    OBVIOUS
  <2>1. \A w \in Worker : reply[w] = "ok" => pc[w] = "awaiting"
    BY ForwardAssumption DEF FInv, JobInv
  <2> QED
    BY <2>1 DEF FInv, JobInv, NoResend
<1> QED
  BY <1>1, ForwardInvariant, PTL

\* uploadConn's sliding deadline ends an upload only when nothing has moved for longer
\* than uploadIdleTimeout less uploadDeadlineRefresh.
THEOREM SlowIsSpared == Spec => SlowUploadsSurvive
<1>1. ASSUME FInv
      PROVE  \A w \in Worker : DeadlineExpires(w) => quiet[w] + DeadlineRefresh > IdleTimeout
  BY <1>1, ForwardAssumption DEF FInv, AgeInv, TypeOK, DeadlineExpires
<1> QED
  BY <1>1, ForwardInvariant, PTL DEF Spec, SlowUploadsSurvive

=============================================================================
