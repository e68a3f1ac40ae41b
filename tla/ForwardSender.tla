---------------------------- MODULE ForwardSender ----------------------------
(***************************************************************************)
(* The HTTP sender, localsend/send/fwdsend.go, as cmd/send runs it: one     *)
(* command that prepares an upload, hands the accepted files to upload      *)
(* workers and returns, and a goroutine that cancels it on a signal.        *)
(*                                                                         *)
(* The other device is any LocalSend receiver: it may refuse, accept some   *)
(* of the files, lose its session, answer wrongly, stop reading or vanish.  *)
(* Each worker has the connection that it dialed last; fasthttp keeps it    *)
(* for the worker's next file.                                              *)
(***************************************************************************)
EXTENDS Naturals, FiniteSets

CONSTANTS
    File,                \* files added to the sender
    Worker,              \* upload workers (uploadConcurrency of them)
    None,
    MaxUploadAttempts,   \* maxUploadAttempts
    IdleTimeout,         \* uploadIdleTimeout, in ticks
    DeadlineRefresh      \* uploadDeadlineRefresh, in ticks

ASSUME ForwardAssumption ==
    /\ IsFiniteSet(File) /\ IsFiniteSet(Worker)
    /\ File # {}         \* send without a file or a text is refused
    /\ None \notin File \cup {"ok", "checksum", "error", "accept"}
    /\ MaxUploadAttempts \in Nat \ {0}
    /\ DeadlineRefresh \in Nat \ {0}
    /\ IdleTimeout \in Nat /\ IdleTimeout > DeadlineRefresh

Canceller == {"main", "signal"}

VARIABLES
    phase,      \* where Start is
    result,     \* what Start has returned
    message,    \* the one file is a text message
    session,    \* the sender knows the session: fsp.session # ""
    abort,      \* fsp.abort
    errs,       \* files whose upload has failed
    todo        \* accepted files not yet handed to a worker

VARIABLES
    pc, job, attempt,    \* per worker: sendFileWithRetry
    conn,                \* per worker: its connection, "open" while tracked
    reply,               \* per worker: the answer under way to it
    age, quiet           \* per worker: ticks since the deadline was set, since the last I/O

VARIABLES
    cancel, snapshot     \* per canceller: where Cancel is, connections it closes

VARIABLES
    answer,     \* the receiver's answer to prepare-upload
    remote,     \* the receiver's session
    tokens,     \* files that the receiver accepted
    stored,     \* files that the receiver has answered or will answer 200
    lost        \* a cancel request got lost

commandVars == <<phase, result, message, session, abort, errs, todo>>
workerVars  == <<pc, job, attempt, conn, reply, age, quiet>>
cancelVars  == <<cancel, snapshot>>
remoteVars  == <<answer, remote, tokens, stored, lost>>
vars == <<commandVars, workerVars, cancelVars, remoteVars>>

TypeOK ==
    /\ phase \in {"prepare", "feed", "wait", "cancel", "returned"}
    /\ result \in {None, "ok", "error"}
    /\ message \in BOOLEAN /\ session \in BOOLEAN /\ abort \in BOOLEAN
    /\ lost \in BOOLEAN
    /\ errs \subseteq File /\ todo \subseteq File
    /\ tokens \subseteq File /\ stored \subseteq File
    /\ pc \in [Worker -> {"idle", "check", "acquire", "dialed", "sending", "awaiting", "exit"}]
    /\ job \in [Worker -> File \cup {None}]
    /\ attempt \in [Worker -> 0 .. MaxUploadAttempts]
    /\ conn \in [Worker -> {"none", "open", "closed"}]
    /\ reply \in [Worker -> {None, "ok", "checksum", "error"}]
    /\ age \in [Worker -> 0 .. IdleTimeout] /\ quiet \in [Worker -> 0 .. IdleTimeout]
    /\ cancel \in [Canceller -> {"none", "begin", "abort", "close", "ask", "asked", "done"}]
    /\ snapshot \in [Canceller -> SUBSET Worker]
    /\ answer \in {None, "accept", "finished", "refuse"}
    /\ remote \in {"none", "open", "ended"}

Init ==
    /\ phase = "prepare" /\ result = None
    /\ message \in BOOLEAN
    /\ session = FALSE /\ abort = FALSE /\ errs = {} /\ todo = {}
    /\ pc = [w \in Worker |-> "idle"]
    /\ job = [w \in Worker |-> None]
    /\ attempt = [w \in Worker |-> 0]
    /\ conn = [w \in Worker |-> "none"]
    /\ reply = [w \in Worker |-> None]
    /\ age = [w \in Worker |-> 0] /\ quiet = [w \in Worker |-> 0]
    /\ cancel = [p \in Canceller |-> "none"]
    /\ snapshot = [p \in Canceller |-> {}]
    /\ answer = None /\ remote = "none" /\ tokens = {} /\ stored = {} /\ lost = FALSE

Running == phase # "returned"

\* A message is a transfer of one text.
Added == IF message THEN {CHOOSE f \in File : TRUE} ELSE File

-----------------------------------------------------------------------------
(* Start: prepare-upload, the job queue, the end.                          *)

Return(r) == phase' = "returned" /\ result' = r

\* The receiver handles prepare-upload: it opens a session for some of the files or none,
\* says that nothing is to be sent (204), or refuses.
PreUploadServed ==
    /\ phase = "prepare" /\ answer = None
    /\ \/ \E T \in SUBSET Added :
             answer' = "accept" /\ remote' = "open" /\ tokens' = T
       \/ \E a \in {"finished", "refuse"} :
             answer' = a /\ UNCHANGED <<remote, tokens>>
    /\ UNCHANGED <<commandVars, workerVars, cancelVars, stored, lost>>

\* The answer has arrived and names a session.
PreUploadAccepted ==
    /\ phase = "prepare" /\ answer = "accept"
    /\ session' = TRUE /\ todo' = tokens /\ phase' = "feed"
    /\ UNCHANGED <<result, message, abort, errs, workerVars, cancelVars, remoteVars>>

\* 204 is success for a message and an error for files.
PreUploadFinished ==
    /\ phase = "prepare" /\ answer = "finished"
    /\ Return(IF message THEN "ok" ELSE "error")
    /\ UNCHANGED <<message, session, abort, errs, todo, workerVars, cancelVars, remoteVars>>

\* A refusal, a timeout, or an answer that does not arrive or cannot be decoded.
PreUploadFails ==
    /\ phase = "prepare"
    /\ Return("error")
    /\ UNCHANGED <<message, session, abort, errs, todo, workerVars, cancelVars, remoteVars>>

\* An idle worker receives a job from the unbuffered channel.
TakeJob(w) ==
    /\ phase = "feed" /\ pc[w] = "idle"
    /\ \E f \in todo :
          /\ todo' = todo \ {f}
          /\ job' = [job EXCEPT ![w] = f]
    /\ attempt' = [attempt EXCEPT ![w] = 1]
    /\ pc' = [pc EXCEPT ![w] = "check"]
    /\ UNCHANGED <<phase, result, message, session, abort, errs, conn, reply, age, quiet,
                   cancelVars, remoteVars>>

NeverClosed == FALSE                                                 \* mutant

JobsHandedOut == todo = {}

CloseJobs ==
    /\ phase = "feed" /\ JobsHandedOut
    /\ phase' = "wait"
    /\ UNCHANGED <<result, message, session, abort, errs, todo, workerVars, cancelVars,
                   remoteVars>>

ExitWorker(w) ==
    /\ phase = "wait" /\ pc[w] = "idle"
    /\ pc' = [pc EXCEPT ![w] = "exit"]
    /\ UNCHANGED <<commandVars, job, attempt, conn, reply, age, quiet, cancelVars, remoteVars>>

WorkersDone == phase = "wait" /\ \A w \in Worker : pc[w] = "exit"

StartSucceeds ==
    /\ WorkersDone /\ errs = {}
    /\ Return("ok")
    /\ UNCHANGED <<message, session, abort, errs, todo, workerVars, cancelVars, remoteVars>>

ReturnAtOnce ==                                                      \* mutant
    /\ Return("error")
    /\ UNCHANGED <<message, session, abort, errs, todo, workerVars, cancelVars, remoteVars>>

\* Some file failed: Start cancels, which releases the receiver's session.
ReleaseRemote ==
    /\ phase' = "cancel"
    /\ cancel' = [cancel EXCEPT !["main"] = "begin"]
    /\ UNCHANGED <<result, message, session, abort, errs, todo, workerVars, snapshot, remoteVars>>

StartFails == WorkersDone /\ errs # {} /\ ReleaseRemote

StartCancelled ==
    /\ phase = "cancel" /\ cancel["main"] = "done"
    /\ Return("error")
    /\ UNCHANGED <<message, session, abort, errs, todo, workerVars, cancelVars, remoteVars>>

-----------------------------------------------------------------------------
(* A worker: sendFileWithRetry and sendFile.                               *)

\* sendFileWithRetry has returned; the worker waits for the next job.
JobEnds(w) ==
    /\ pc' = [pc EXCEPT ![w] = "idle"]
    /\ job' = [job EXCEPT ![w] = None]
    /\ attempt' = [attempt EXCEPT ![w] = 0]

Fail(w) == JobEnds(w) /\ errs' = errs \cup {job[w]}

\* A file that is skipped because of a cancellation counts as sent without error.
SkipAborted(w) ==
    /\ pc[w] = "check" /\ abort
    /\ JobEnds(w)
    /\ UNCHANGED <<commandVars, conn, reply, age, quiet, cancelVars, remoteVars>>

\* The file is gone, unreadable or too large for this system.
OpenFails(w) ==
    /\ pc[w] = "check" /\ ~abort
    /\ Fail(w)
    /\ UNCHANGED <<phase, result, message, session, abort, todo, conn, reply, age, quiet,
                   cancelVars, remoteVars>>

OpenFile(w) ==
    /\ pc[w] = "check" /\ ~abort
    /\ pc' = [pc EXCEPT ![w] = "acquire"]
    /\ UNCHANGED <<commandVars, job, attempt, conn, reply, age, quiet, cancelVars, remoteVars>>

\* The idle connection is used again; the deadlines are cleared and set anew by the
\* first write.
Reuse(w) ==
    /\ pc[w] = "acquire" /\ conn[w] # "none"
    /\ pc' = [pc EXCEPT ![w] = "sending"]
    /\ age' = [age EXCEPT ![w] = 0] /\ quiet' = [quiet EXCEPT ![w] = 0]
    /\ UNCHANGED <<commandVars, job, attempt, conn, reply, cancelVars, remoteVars>>

DialFails(w) ==
    /\ pc[w] = "acquire" /\ conn[w] = "none"
    /\ Fail(w)
    /\ UNCHANGED <<phase, result, message, session, abort, todo, conn, reply, age, quiet,
                   cancelVars, remoteVars>>

Dial(w) ==
    /\ pc[w] = "acquire" /\ conn[w] = "none"
    /\ pc' = [pc EXCEPT ![w] = "dialed"]
    /\ UNCHANGED <<commandVars, job, attempt, conn, reply, age, quiet, cancelVars, remoteVars>>

MayAlwaysTrack == TRUE                                               \* mutant

MayTrack == ~abort

\* Under activeUploadMu a dialed connection is tracked, or closed after a
\* cancellation.
TrackUpload(w) ==
    /\ pc[w] = "dialed" /\ MayTrack
    /\ conn' = [conn EXCEPT ![w] = "open"]
    /\ pc' = [pc EXCEPT ![w] = "sending"]
    /\ age' = [age EXCEPT ![w] = 0] /\ quiet' = [quiet EXCEPT ![w] = 0]
    /\ UNCHANGED <<commandVars, job, attempt, reply, cancelVars, remoteVars>>

RefuseDialed(w) ==
    /\ pc[w] = "dialed" /\ ~MayTrack
    /\ Fail(w)
    /\ UNCHANGED <<phase, result, message, session, abort, todo, conn, reply, age, quiet,
                   cancelVars, remoteVars>>

NeverRefreshed(w) == age[w]                                          \* mutant

\* I/O moves the deadline, but not more often than every uploadDeadlineRefresh.
RefreshedAge(w) == IF age[w] >= DeadlineRefresh THEN 0 ELSE age[w]

\* Another part of the body has been written.
Write(w) ==
    /\ pc[w] = "sending" /\ conn[w] = "open"
    /\ age' = [age EXCEPT ![w] = RefreshedAge(w)]
    /\ quiet' = [quiet EXCEPT ![w] = 0]
    /\ UNCHANGED <<commandVars, pc, job, attempt, conn, reply, cancelVars, remoteVars>>

\* The body is written; the first read sets the read deadline.
AwaitReply(w) ==
    /\ pc[w] = "sending" /\ conn[w] = "open"
    /\ pc' = [pc EXCEPT ![w] = "awaiting"]
    /\ age' = [age EXCEPT ![w] = 0] /\ quiet' = [quiet EXCEPT ![w] = 0]
    /\ UNCHANGED <<commandVars, job, attempt, conn, reply, cancelVars, remoteVars>>

\* The receiver settles the upload: saved, rejected for its checksum, or any error.
RemoteAnswers(w) ==
    /\ pc[w] = "awaiting" /\ conn[w] = "open" /\ reply[w] = None
    /\ \E verdict \in {"ok", "checksum", "error"} :
          /\ verdict # "error" => remote = "open" /\ job[w] \notin stored
          /\ reply' = [reply EXCEPT ![w] = verdict]
          /\ stored' = IF verdict = "ok" THEN stored \cup {job[w]} ELSE stored
    /\ UNCHANGED <<commandVars, pc, job, attempt, conn, age, quiet, cancelVars,
                   answer, remote, tokens, lost>>

ReplyOK(w) ==
    /\ pc[w] = "awaiting" /\ conn[w] = "open" /\ reply[w] = "ok"
    /\ JobEnds(w)
    /\ reply' = [reply EXCEPT ![w] = None]
    /\ UNCHANGED <<commandVars, conn, age, quiet, cancelVars, remoteVars>>

\* Only a checksum error is tried again.
RetryChecksum(w) == reply[w] = "checksum" /\ attempt[w] < MaxUploadAttempts

GiveUpSilently(w) == JobEnds(w) /\ errs' = errs                      \* mutant

GiveUp(w) == Fail(w)

Retry(w) ==
    /\ pc[w] = "awaiting" /\ conn[w] = "open" /\ reply[w] \in {"checksum", "error"}
    /\ RetryChecksum(w)
    /\ pc' = [pc EXCEPT ![w] = "check"]
    /\ attempt' = [attempt EXCEPT ![w] = @ + 1]
    /\ reply' = [reply EXCEPT ![w] = None]
    /\ UNCHANGED <<commandVars, job, conn, age, quiet, cancelVars, remoteVars>>

ReplyError(w) ==
    /\ pc[w] = "awaiting" /\ conn[w] = "open" /\ reply[w] \in {"checksum", "error"}
    /\ ~RetryChecksum(w)
    /\ GiveUp(w)
    /\ reply' = [reply EXCEPT ![w] = None]
    /\ UNCHANGED <<phase, result, message, session, abort, todo, conn, age, quiet,
                   cancelVars, remoteVars>>

RetryBroken(w) ==                                                    \* mutant
    /\ pc' = [pc EXCEPT ![w] = "check"]
    /\ conn' = [conn EXCEPT ![w] = "none"]
    /\ reply' = [reply EXCEPT ![w] = None]
    /\ UNCHANGED <<commandVars, job, attempt, age, quiet, cancelVars, remoteVars>>

\* client.Do fails and the connection is discarded; the file is not tried again.
DoFails(w) ==
    /\ Fail(w)
    /\ conn' = [conn EXCEPT ![w] = "none"]
    /\ reply' = [reply EXCEPT ![w] = None]
    /\ UNCHANGED <<phase, result, message, session, abort, todo, age, quiet, cancelVars,
                   remoteVars>>

\* The network or the receiver ends the connection, or Cancel has closed it.
ConnBroken(w) == pc[w] \in {"sending", "awaiting"} /\ DoFails(w)

DeadlineExpires(w) ==
    /\ pc[w] \in {"sending", "awaiting"} /\ conn[w] = "open" /\ age[w] = IdleTimeout
    /\ DoFails(w)

\* Time passes for connections in use; a deadline that is due comes first.
Tick ==
    LET waiting == {w \in Worker : pc[w] \in {"sending", "awaiting"} /\ conn[w] = "open"}
    IN  /\ waiting # {} /\ \A w \in waiting : age[w] < IdleTimeout
        /\ age' = [w \in Worker |-> IF w \in waiting THEN age[w] + 1 ELSE age[w]]
        /\ quiet' = [w \in Worker |-> IF w \in waiting /\ quiet[w] < IdleTimeout
                                      THEN quiet[w] + 1 ELSE quiet[w]]
        /\ UNCHANGED <<commandVars, pc, job, attempt, conn, reply, cancelVars, remoteVars>>

-----------------------------------------------------------------------------
(* Cancel, called by the signal goroutine and by Start itself.             *)

CancelAt(p, step) == cancel' = [cancel EXCEPT ![p] = step]

Signal ==
    /\ cancel["signal"] = "none"
    /\ CancelAt("signal", "begin")
    /\ UNCHANGED <<commandVars, workerVars, snapshot, remoteVars>>

SetAbort(p) ==
    /\ cancel[p] = "begin"
    /\ abort' = TRUE
    /\ CancelAt(p, "abort")
    /\ UNCHANGED <<phase, result, message, session, errs, todo, workerVars, snapshot, remoteVars>>

\* closeActiveUploads copies the tracked connections under the mutex and closes
\* them without it.
SnapshotUploads(p) ==
    /\ cancel[p] = "abort"
    /\ snapshot' = [snapshot EXCEPT ![p] = {w \in Worker : conn[w] = "open"}]
    /\ CancelAt(p, "close")
    /\ UNCHANGED <<commandVars, workerVars, remoteVars>>

CloseUploads(p) ==
    /\ cancel[p] = "close"
    /\ conn' = [w \in Worker |-> IF w \in snapshot[p] /\ conn[w] = "open"
                                 THEN "closed" ELSE conn[w]]
    /\ CancelAt(p, "ask")
    /\ snapshot' = [snapshot EXCEPT ![p] = {}]
    /\ UNCHANGED <<commandVars, pc, job, attempt, reply, age, quiet, remoteVars>>

\* Without a session there is nobody to tell.
AskRemote(p) ==
    /\ cancel[p] = "ask"
    /\ CancelAt(p, IF session THEN "asked" ELSE "done")
    /\ UNCHANGED <<commandVars, workerVars, snapshot, remoteVars>>

RemoteCancels(p) ==
    /\ cancel[p] = "asked"
    /\ remote' = "ended"
    /\ CancelAt(p, "done")
    /\ UNCHANGED <<commandVars, workerVars, snapshot, answer, tokens, stored, lost>>

CancelLost(p) ==
    /\ cancel[p] = "asked"
    /\ lost' = TRUE
    /\ CancelAt(p, "done")
    /\ UNCHANGED <<commandVars, workerVars, snapshot, answer, remote, tokens, stored>>

\* The receiver's session ends by itself: its timeout, its user.
RemoteEnds ==
    /\ remote = "open"
    /\ remote' = "ended"
    /\ UNCHANGED <<commandVars, workerVars, cancelVars, answer, tokens, stored, lost>>

-----------------------------------------------------------------------------
CommandStep ==
    \/ PreUploadAccepted \/ PreUploadFinished \/ PreUploadFails
    \/ CloseJobs \/ StartSucceeds \/ StartFails \/ StartCancelled

WorkerStep(w) ==
    \/ TakeJob(w) \/ ExitWorker(w)
    \/ SkipAborted(w) \/ OpenFails(w) \/ OpenFile(w)
    \/ Reuse(w) \/ DialFails(w) \/ Dial(w) \/ TrackUpload(w) \/ RefuseDialed(w)
    \/ ReplyOK(w) \/ Retry(w) \/ ReplyError(w)
    \/ conn[w] = "closed" /\ ConnBroken(w)
    \/ DeadlineExpires(w)

CancelStep(p) ==
    \/ SetAbort(p) \/ SnapshotUploads(p) \/ CloseUploads(p) \/ AskRemote(p)
    \/ RemoteCancels(p) \/ CancelLost(p)

\* When Start returns the process ends, with all its goroutines.
Next ==
    /\ Running
    /\ \/ CommandStep
       \/ \E w \in Worker : WorkerStep(w) \/ Write(w) \/ AwaitReply(w)
                            \/ RemoteAnswers(w) \/ ConnBroken(w)
       \/ \E p \in Canceller : CancelStep(p)
       \/ PreUploadServed \/ RemoteEnds \/ Signal \/ Tick

Spec == Init /\ [][Next]_vars

(* The goroutines run, requests other than uploads have a timeout, and     *)
(* time passes.  Nothing is assumed of the receiver; a body is finite, so  *)
(* one that keeps being written comes to its end.                          *)
FairSpec ==
    /\ Spec
    /\ WF_vars(Running /\ CommandStep)
    /\ \A w \in Worker : WF_vars(Running /\ WorkerStep(w))
                         /\ SF_vars(Running /\ AwaitReply(w))
    /\ \A p \in Canceller : WF_vars(Running /\ CancelStep(p))
    /\ WF_vars(Running /\ Tick)

-----------------------------------------------------------------------------
\* What Start's nil means when nobody cancelled: every file the receiver accepted
\* is saved there, however the retries and the two workers shared the work.
NilMeansSent ==
    result = "ok" /\ ~abort => tokens \subseteq stored

\* Once Cancel has closed the tracked connections none is open and none comes
\* after: not even one that was being dialed when the snapshot was taken.
CancelStopsUploads ==
    (\E p \in Canceller : cancel[p] \in {"ask", "asked", "done"})
        => \A w \in Worker : conn[w] # "open"

\* A command that fails after the receiver opened a session for it does not leave
\* the receiver blocked: it asked for the session's end, unless that got lost.
FailureReleasesRemote ==
    result = "error" /\ session => remote = "ended" \/ lost

\* The sliding deadline never ends an upload that is slow but alive: when it
\* expires nothing has moved for almost uploadIdleTimeout.
SlowUploadsSurvive ==
    [][\A w \in Worker : DeadlineExpires(w) => quiet[w] + DeadlineRefresh > IdleTimeout]_vars

\* No file is offered to the receiver again once it is saved there, also when the
\* answer that says so was lost with its connection; no two workers send one file.
NoResend ==
    /\ \A w \in Worker :
          pc[w] \in {"check", "acquire", "dialed", "sending"} => job[w] \notin stored
    /\ \A v, w \in Worker : job[v] = job[w] /\ job[v] # None => v = w

\* Start returns, whatever the receiver does: it may fall silent in the middle of
\* a body or of an answer.
StartReturns == <>(phase = "returned")
=============================================================================
