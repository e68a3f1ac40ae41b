---------------------------- MODULE PluginServer ----------------------------
(***************************************************************************)
(* The KOReader plugin's care for the receiver process:                     *)
(* localsend_server.lua, and of main.lua the handlers of widgets, power and *)
(* network events, with the receiver poll of localsend_transfers.lua.       *)
(*                                                                         *)
(* Everything runs in KOReader's event loop.  A handler, a task or a         *)
(* callback runs to its end, so each is one step, written as a function     *)
(* from the state before to the state after: p is the state, w the widget   *)
(* on whose behalf the code runs, the current one or one that was closed.   *)
(* ServerState and the files outlive the widget, and the poll and the        *)
(* callbacks of a closed widget may still run.                              *)
(*                                                                         *)
(* The backend is a process that may die at any time.  Scans and sends are  *)
(* seen only where they keep the receiver from starting.                    *)
(***************************************************************************)
EXTENDS Naturals, FiniteSets

CONSTANTS
    Proc,          \* process identifiers
    None,
    Autostart,     \* the setting: start with KOReader
    TmpMayFill,    \* the file system of the PID file may be full
    MaxAttempts    \* SERVER_RESTART_MAX_ATTEMPTS

ASSUME PluginAssumption ==
    /\ Autostart \in BOOLEAN /\ TmpMayFill \in BOOLEAN
    /\ IsFiniteSet(Proc) /\ Proc # {} /\ None \notin Proc
    /\ MaxAttempts \in Nat

VARIABLES
    st,          \* ServerState, the tasks of the event loop, and what they act upon
    mode,        \* KOReader runs, sleeps in suspend or standby, or is gone
    notice       \* the network event that KOReader has still to broadcast

vars == <<st, mode, notice>>

Widget == {"current", "closed"}

\* Asynchronous operations: a start that waits for its process, a stop that waits for an
\* exit, a stop that waits for its SIGKILL.
Op == [kind : {"ready", "term", "kill"}, w : Widget, silent : BOOLEAN,
       then : {"nothing", "start"}, pid : Proc]

State ==
    [registered : BOOLEAN, poll : SUBSET Widget, restart : BOOLEAN, resume : BOOLEAN,
     whenConnected : SUBSET Widget, nilTask : BOOLEAN, ops : SUBSET Op,
     userStopped : BOOLEAN, intended : BOOLEAN, stopping : BOOLEAN, pending : BOOLEAN,
     attempts : 0 .. MaxAttempts, exhausted : BOOLEAN, recovering : BOOLEAN,
     startedAt : {"never", "recently", "long ago"},
     beforeSuspend : BOOLEAN, beforeDisconnect : BOOLEAN, scanning : BOOLEAN,
     alive : SUBSET Proc, pidFile : Proc \cup {None}, unnamed : SUBSET Proc,
     firewall : BOOLEAN, connected : BOOLEAN, failed : BOOLEAN]

Running(p) == p.pidFile \in p.alive

\* Identifiers for a new process: no process has them and no wait remembers them.
Unused(p) == (Proc \ p.alive) \ {op.pid : op \in p.ops}

TypeOK ==
    /\ st \in State /\ mode \in {"awake", "asleep", "gone"}
    /\ notice \in {None, "connected", "disconnected"}

\* A KOReader that has just started, with whatever an earlier one has left behind: alive
\* are the receivers and pidFile is the one that the PID file names; unnamed is history,
\* those of which the PID could not be written.
Fresh(alive, pidFile, unnamed, firewall, connected) ==
    [registered |-> FALSE, poll |-> {}, restart |-> FALSE, resume |-> FALSE,
     whenConnected |-> {}, nilTask |-> FALSE, ops |-> {}, userStopped |-> FALSE,
     intended |-> FALSE, stopping |-> FALSE, pending |-> FALSE, attempts |-> 0,
     exhausted |-> FALSE, recovering |-> FALSE, startedAt |-> "never",
     beforeSuspend |-> FALSE, beforeDisconnect |-> FALSE, scanning |-> FALSE,
     alive |-> alive, pidFile |-> pidFile, unnamed |-> unnamed, firewall |-> firewall,
     connected |-> connected, failed |-> FALSE]

-----------------------------------------------------------------------------
(* Helpers of localsend_server.lua.                                        *)

\* registerEvents: the handlers of power and network events are set only while needed.
RegisterEvents(p, w) ==
    IF w = "closed" THEN p
    ELSE [p EXCEPT !.registered = \/ Running(p) \/ (Autostart /\ ~p.userStopped)
                                  \/ p.scanning \/ p.intended
                                  \/ p.beforeSuspend \/ p.beforeDisconnect]

ReconcileServerState(p, w) ==
    RegisterEvents([p EXCEPT !.stopping = @ /\ Running(p)], w)

StopsStay(p) == [p EXCEPT !.ops = {op \in @ : op.kind # "ready"}]      \* mutant

\* nextServerOpID: callbacks of earlier operations find another ID and return at once
\* (isCurrentServerOp), so those operations are forgotten.
NextServerOpID(p) == [p EXCEPT !.ops = {}]

CanRecover(p) ==
    /\ p.intended /\ ~p.userStopped /\ ~p.stopping
    /\ ~p.beforeSuspend /\ ~p.beforeDisconnect /\ p.connected

RecoveryAllowed(p) == CanRecover(p) /\ ~p.exhausted

\* A closed widget has no restart task any more: it schedules nil.
ArmRestart(p, w) ==
    IF w = "current" THEN [p EXCEPT !.pending = TRUE, !.restart = TRUE]
    ELSE [p EXCEPT !.pending = TRUE, !.nilTask = TRUE]

RestartOnceMore(p, w) ==                                             \* mutant
    LET spent == IF p.startedAt = "long ago" THEN 0 ELSE p.attempts
        q     == [p EXCEPT !.startedAt = "never", !.attempts = spent]
    IN  IF ~RecoveryAllowed(p) \/ p.pending THEN p
        ELSE IF spent > MaxAttempts THEN [q EXCEPT !.exhausted = TRUE]
        ELSE ArmRestart([q EXCEPT !.attempts = spent + 1], w)

ScheduleUnexpectedRestart(p, w) ==
    LET spent == IF p.startedAt = "long ago" THEN 0 ELSE p.attempts
        q     == [p EXCEPT !.startedAt = "never", !.attempts = spent]
    IN  IF ~RecoveryAllowed(p) \/ p.pending THEN p
        ELSE IF spent >= MaxAttempts THEN [q EXCEPT !.exhausted = TRUE]
        ELSE ArmRestart([q EXCEPT !.attempts = spent + 1], w)

CancelUnexpectedRestart(p, w, clear) ==
    LET q == [p EXCEPT !.restart = @ /\ w = "closed", !.pending = FALSE,
                       !.recovering = FALSE]
    IN  IF clear THEN [q EXCEPT !.intended = FALSE, !.attempts = 0, !.exhausted = FALSE,
                                !.startedAt = "never"]
        ELSE q

SchedulePolling(p, w) == [p EXCEPT !.poll = @ \cup {w}]

-----------------------------------------------------------------------------
(* Starting.  o says how the launch goes: the directory is rejected, the    *)
(* launcher fails, the PID cannot be written to a full /tmp, the process    *)
(* dies at once, or all is well.                                            *)

Outcome ==
    {"rejected", "fails", "dies", "ok"} \cup (IF TmpMayFill THEN {"unnamed"} ELSE {})

OnServerStarted(p, w) ==
    SchedulePolling(ReconcileServerState(
        [p EXCEPT !.stopping = FALSE, !.intended = TRUE, !.pending = FALSE,
                  !.recovering = FALSE, !.startedAt = "recently"], w), w)

\* A start that nobody watches is tried again; a user has been told.
RetryAfterFailure(p, w, silent) ==
    LET q == [p EXCEPT !.recovering = FALSE]
    IN  IF p.recovering \/ (silent /\ p.intended) THEN ScheduleUnexpectedRestart(q, w)
        ELSE [q EXCEPT !.failed = TRUE]

OnServerStartFailed(p, w, silent) ==
    RetryAfterFailure(
        ReconcileServerState([p EXCEPT !.startedAt = "never", !.firewall = FALSE,
                                       !.stopping = FALSE], w), w, silent)

LauncherFailed(p, w, silent) ==
    RetryAfterFailure(ReconcileServerState([p EXCEPT !.firewall = FALSE], w), w, silent)

\* The shell forks the receiver and then writes its PID; the status is that of the
\* writing.  If only that fails, the launch counts as failed although the receiver runs,
\* and the PID file is empty.  A receiver that finds another one holding the lock of the
\* control socket exits: at once if nobody looks at it, else as any other may.
Launch(p, w, silent, o) ==
    LET x     == CHOOSE y \in Unused(p) : TRUE
        q     == [p EXCEPT !.firewall = TRUE, !.pidFile = x]
        stray == IF p.alive = {} THEN {x} ELSE {}
    IN  CASE o = "fails" \/ Unused(p) = {} -> LauncherFailed(p, w, silent)
          [] o = "unnamed" /\ Unused(p) # {} ->
                LauncherFailed([p EXCEPT !.pidFile = None, !.alive = @ \cup stray,
                                         !.unnamed = @ \cup stray], w, silent)
          [] o = "dies" /\ Unused(p) # {} ->
                [q EXCEPT !.ops = @ \cup {[kind |-> "ready", w |-> w, silent |-> silent,
                                           then |-> "nothing", pid |-> x]}]
          [] o = "ok" /\ Unused(p) # {} -> OnServerStarted([q EXCEPT !.alive = @ \cup {x}], w)

\* The receiver is already there: only its poll changes hands.
TakeOver(p, w) ==
    LET q == ReconcileServerState(p, w)
    IN  SchedulePolling([q EXCEPT !.intended = TRUE, !.recovering = FALSE,
                            !.startedAt = IF @ = "never" THEN "recently" ELSE @], w)

AcceptStart(p, w, recovery) ==
    IF recovery THEN [p EXCEPT !.recovering = TRUE]
    ELSE [CancelUnexpectedRestart(p, w, FALSE) EXCEPT
             !.intended = TRUE, !.attempts = 0, !.exhausted = FALSE, !.startedAt = "never"]

Start(p, w, silent, recovery, o) ==
    LET q == NextServerOpID(AcceptStart([p EXCEPT !.failed = FALSE], w, recovery))
    IN  CASE p.stopping -> p
          [] ~p.stopping /\ p.scanning /\ ~Running(p) ->
                IF recovery THEN ScheduleUnexpectedRestart([p EXCEPT !.recovering = FALSE], w)
                ELSE [p EXCEPT !.failed = TRUE]
          [] ~p.stopping /\ Running(p) -> TakeOver(q, w)
          [] ~p.stopping /\ ~p.scanning /\ ~Running(p) ->
                IF o # "rejected" THEN Launch(q, w, silent, o)
                ELSE IF recovery THEN ScheduleUnexpectedRestart([q EXCEPT !.recovering = FALSE], w)
                ELSE [q EXCEPT !.failed = TRUE]

StartWhenConnected(p, w, silent, o) ==
    IF p.connected THEN Start(p, w, silent, FALSE, o)
    ELSE IF silent THEN p
    ELSE [p EXCEPT !.whenConnected = @ \cup {w}]

RestartThoughStopped(p, o) ==                                        \* mutant
    IF ~(p.beforeSuspend \/ p.beforeDisconnect) \/ ~p.connected THEN p
    ELSE IF p.stopping THEN [p EXCEPT !.resume = TRUE]
    ELSE Start([p EXCEPT !.beforeSuspend = FALSE, !.beforeDisconnect = FALSE],
               "current", TRUE, FALSE, o)

RestartWhenReady(p, o) ==
    IF ~(p.beforeSuspend \/ p.beforeDisconnect) \/ p.userStopped \/ ~p.connected THEN p
    ELSE IF p.stopping THEN [p EXCEPT !.resume = TRUE]
    ELSE Start([p EXCEPT !.beforeSuspend = FALSE, !.beforeDisconnect = FALSE],
               "current", TRUE, FALSE, o)

-----------------------------------------------------------------------------
(* Stopping.                                                               *)

Finish(p, w, success, then, o) ==
    LET q == ReconcileServerState([p EXCEPT !.stopping = FALSE, !.failed = ~success], w)
    IN  IF success /\ then = "start" THEN Start(q, w, FALSE, FALSE, o) ELSE q

FinalizeStopped(p, w, then, o) ==
    Finish([p EXCEPT !.pidFile = None, !.firewall = FALSE], w, TRUE, then, o)

BeginStop(p, w) ==
    LET q == NextServerOpID(p)
    IN  ReconcileServerState([q EXCEPT !.poll = @ \ {w}, !.stopping = TRUE], w)

WaitFor(p, w, then) ==
    [p EXCEPT !.ops = @ \cup {[kind |-> "term", w |-> w, silent |-> FALSE, then |-> then,
                               pid |-> p.pidFile]}]

\* SIGTERM and a wait; without a process there is nothing to wait for.
StopServer(p, w, then, o) ==
    LET q == BeginStop(p, w)
    IN  IF Running(q) THEN WaitFor(q, w, then) ELSE FinalizeStopped(q, w, then, o)

\* SIGTERM, then SIGKILL, sleeping in between; killed says whether that was enough.
StopServerSync(p, w, killed) ==
    LET q == BeginStop(p, w)
    IN  IF ~Running(q) THEN FinalizeStopped(q, w, "nothing", "ok")
        ELSE IF killed THEN FinalizeStopped([q EXCEPT !.alive = @ \ {q.pidFile}], w,
                                            "nothing", "ok")
        ELSE Finish(q, w, FALSE, "nothing", "ok")

-----------------------------------------------------------------------------
(* Tasks and callbacks of the event loop.                                  *)

Awake == mode = "awake"

\* A step of the event loop that leaves KOReader running.
Loop(q) == Awake /\ st' = q /\ UNCHANGED <<mode, notice>>

\* waitForServerReady gives up: the process never was there.
ReadyWaitEnds(op) ==
    LET q == [st EXCEPT !.ops = @ \ {op}]
    IN  /\ op.kind = "ready"
        /\ Loop(OnServerStartFailed(q, op.w, op.silent))

\* waitForProcessExit: the process is gone, or it is sent SIGKILL and given a last chance.
StopWaitEnds(op, o) ==
    LET q == [st EXCEPT !.ops = @ \ {op}]
    IN  /\ op.kind = "term"
        /\ Loop(IF op.pid \notin st.alive THEN FinalizeStopped(q, op.w, op.then, o)
                ELSE [q EXCEPT !.ops = @ \cup {[op EXCEPT !.kind = "kill"]}])

KillWaitEnds(op, o) ==
    LET q == [st EXCEPT !.ops = @ \ {op}]
    IN  /\ op.kind = "kill"
        /\ Loop(IF op.pid \notin st.alive THEN FinalizeStopped(q, op.w, op.then, o)
                ELSE Finish(q, op.w, FALSE, op.then, o))

\* pollReceiver goes on while the receiver runs.
Poll(w) ==
    LET r == ReconcileServerState([st EXCEPT !.poll = @ \ {w}], w)
        q == [r EXCEPT !.firewall = FALSE]
    IN  /\ w \in st.poll /\ ~Running(st)
        /\ Loop(IF CanRecover(st) THEN ScheduleUnexpectedRestart(q, w) ELSE q)

RunUnexpectedRestart(o) ==
    LET q == [st EXCEPT !.restart = FALSE, !.pending = FALSE]
    IN  /\ st.restart
        /\ Loop(IF st.pending /\ RecoveryAllowed(q)
                THEN Start([q EXCEPT !.recovering = TRUE], "current", TRUE, TRUE, o)
                ELSE q)

ResumeTask(o) ==
    st.resume /\ Loop(RestartWhenReady([st EXCEPT !.resume = FALSE], o))

\* runWhenConnected: the network came, or the user would not turn it on.
WhenConnected(w, o) ==
    LET q == [st EXCEPT !.whenConnected = @ \ {w}]
    IN  /\ w \in st.whenConnected /\ st.connected
        /\ Loop(IF st.userStopped THEN q ELSE Start(q, w, FALSE, FALSE, o))

PromptDeclined(w) ==
    w \in st.whenConnected /\ Loop([st EXCEPT !.whenConnected = @ \ {w}])

-----------------------------------------------------------------------------
(* The user.                                                               *)

\* onToggleLocalSend refuses while a stop is under way; one prompt for the network at a time.
Stop ==
    /\ ~st.stopping /\ Running(st)
    /\ LET q == CancelUnexpectedRestart([st EXCEPT !.userStopped = TRUE], "current", TRUE)
       IN  Loop(StopServer(q, "current", "nothing", "ok"))

ToggleOn(o) ==
    /\ ~st.stopping /\ ~Running(st) /\ ~st.scanning /\ st.whenConnected = {}
    /\ Loop(StartWhenConnected([st EXCEPT !.userStopped = FALSE], "current", FALSE, o))

Restart(o) ==
    LET c == CancelUnexpectedRestart([st EXCEPT !.userStopped = FALSE], "current", TRUE)
        q == [c EXCEPT !.intended = TRUE]
    IN  /\ ~st.scanning
        /\ Loop(IF Running(q) \/ q.stopping THEN StopServer(q, "current", "start", o)
                ELSE Start(q, "current", FALSE, FALSE, o))

\* Discovery holds the port of the receiver; its beginning and its end register events.
FinishScan(p) ==
    IF p.scanning THEN RegisterEvents([p EXCEPT !.scanning = FALSE], "current") ELSE p

ScanBegins == /\ ~st.scanning /\ st.connected
              /\ Loop(RegisterEvents([st EXCEPT !.scanning = TRUE], "current"))
ScanEnds   == st.scanning /\ Loop(FinishScan(st))

-----------------------------------------------------------------------------
(* Widgets.                                                                *)

\* The tasks are unscheduled; what still refers to the widget refers to a closed one.
OnCloseWidget(p) ==
    [p EXCEPT !.poll = @ \ {"current"}, !.restart = FALSE, !.resume = FALSE,
              !.whenConnected = IF @ = {} THEN {} ELSE {"closed"},
              !.ops = {[op EXCEPT !.w = "closed"] : op \in @}]

RemovePIDFileOnly(p) ==                                              \* mutant
    IF p.pidFile = None \/ Running(p) THEN p ELSE [p EXCEPT !.pidFile = None]

CleanupOrphanedResources(p) ==
    IF p.pidFile = None \/ Running(p) THEN p
    ELSE [p EXCEPT !.pidFile = None, !.firewall = FALSE]

TrustPending(p) == IF p.pending THEN p ELSE ScheduleUnexpectedRestart(p, "current")  \* mutant

ResumeUnexpectedRestart(p) ==
    IF p.pending THEN ArmRestart(p, "current") ELSE ScheduleUnexpectedRestart(p, "current")

\* init chooses one way to bring the receiver back.
InitStarts(p, o) ==
    LET recovers == p.intended /\ ~Running(p) /\ RecoveryAllowed(p)
        q        == IF recovers THEN ResumeUnexpectedRestart(p) ELSE p
    IN  IF recovers /\ q.pending THEN q
        ELSE IF q.beforeSuspend /\ ~q.userStopped THEN RestartWhenReady(q, o)
        ELSE IF Autostart /\ ~q.userStopped /\ ~q.intended
             THEN StartWhenConnected(q, "current", TRUE, o)
        ELSE q

WidgetInit(p, o) ==
    LET a == CleanupOrphanedResources(p)
        b == IF Running(a) THEN [a EXCEPT !.intended = TRUE, !.firewall = TRUE] ELSE a
        c == InitStarts(b, o)
    IN  RegisterEvents(IF Running(c) THEN SchedulePolling(c, "current") ELSE c, "current")

\* A document is opened or closed: the widget goes and another one comes.
SwitchWidget(o) == Loop(WidgetInit([OnCloseWidget(st) EXCEPT !.registered = FALSE], o))

-----------------------------------------------------------------------------
(* Power and network.                                                      *)

StopForSleep(p, kind, killed) ==
    LET w == "current"
        a == [p EXCEPT !.poll = @ \ {w}, !.resume = @ /\ kind = "standby"]
        b == FinishScan(CancelUnexpectedRestart(a, w, FALSE))
    IN  IF Running(b) THEN StopServerSync([b EXCEPT !.beforeSuspend = TRUE], w, killed)
        ELSE [b EXCEPT !.beforeSuspend = b.intended /\ ~b.userStopped]

Sleep(kind, killed) ==
    /\ Awake /\ mode' = "asleep" /\ UNCHANGED notice
    /\ st' = IF st.registered THEN StopForSleep(st, kind, killed) ELSE st

Wake(o) ==
    /\ mode = "asleep" /\ mode' = "awake" /\ UNCHANGED notice
    /\ st' = IF st.registered /\ st.beforeSuspend /\ ~st.userStopped
             THEN RestartWhenReady(st, o) ELSE st

StopForDisconnect(p, killed) ==
    LET q == FinishScan(CancelUnexpectedRestart(p, "current", FALSE))
    IN  IF Running(q) THEN StopServerSync([q EXCEPT !.beforeDisconnect = TRUE], "current", killed)
        ELSE [q EXCEPT !.beforeDisconnect = @ \/ (q.intended /\ ~q.userStopped)]

\* KOReader announces that it turns the network off.
NetworkDisconnecting(killed) ==
    LET q == IF st.registered THEN StopForDisconnect(st, killed) ELSE st
    IN  /\ Awake /\ st.connected /\ notice = None
        /\ st' = [q EXCEPT !.connected = FALSE] /\ notice' = "disconnected" /\ UNCHANGED mode

\* The network goes away by itself, or while KOReader sleeps.
LinkLost ==
    /\ mode # "gone" /\ st.connected /\ notice = None
    /\ st' = [st EXCEPT !.connected = FALSE] /\ notice' = "disconnected" /\ UNCHANGED mode

LinkUp ==
    /\ mode # "gone" /\ ~st.connected /\ notice = None
    /\ st' = [st EXCEPT !.connected = TRUE] /\ notice' = "connected" /\ UNCHANGED mode

NetworkDisconnected(killed) ==
    LET q == CancelUnexpectedRestart(st, "current", FALSE)
    IN  /\ Awake /\ notice = "disconnected" /\ notice' = None /\ UNCHANGED mode
        /\ st' = IF ~st.registered THEN st
                 ELSE IF Running(q)
                 THEN StopServerSync([q EXCEPT !.beforeDisconnect = TRUE], "current", killed)
                 ELSE q

NetworkConnected(o) ==
    /\ Awake /\ notice = "connected" /\ notice' = None /\ UNCHANGED mode
    /\ st' = IF st.registered THEN RestartWhenReady(st, o) ELSE st

-----------------------------------------------------------------------------
(* The end of KOReader, its next start, and the backend's process.          *)

OnExit(p, killed) ==
    LET q == FinishScan(CancelUnexpectedRestart(p, "current", TRUE))
    IN  IF Running(q) THEN StopServerSync(q, "current", killed)
        ELSE [q EXCEPT !.firewall = FALSE]

\* What a KOReader that ends takes with it.
Left(p) == Fresh(p.alive, p.pidFile, p.unnamed, p.firewall, p.connected)

Exit(killed) ==
    /\ Awake /\ mode' = "gone" /\ notice' = None
    /\ st' = Left(OnExit(st, killed))

Crash == /\ mode # "gone" /\ mode' = "gone" /\ notice' = None
         /\ st' = Left(st)

\* The event loop calls a task that is nil, which ends KOReader.
NilTaskRuns == Awake /\ st.nilTask /\ Crash

KOReaderStarts(o) ==
    /\ mode = "gone" /\ mode' = "awake" /\ UNCHANGED notice
    /\ st' = WidgetInit(st, o)

ProcessExits(x) ==
    /\ x \in st.alive
    /\ st' = [st EXCEPT !.alive = @ \ {x}, !.unnamed = @ \ {x}] /\ UNCHANGED <<mode, notice>>

TimePasses ==
    st.startedAt = "recently" /\ Loop([st EXCEPT !.startedAt = "long ago"])

-----------------------------------------------------------------------------
Init ==
    /\ mode = "gone" /\ notice = None
    /\ \E c \in BOOLEAN : st = Fresh({}, None, {}, FALSE, c)

Tasks == \/ \E op \in st.ops : ReadyWaitEnds(op)
         \/ \E op \in st.ops, o \in Outcome : StopWaitEnds(op, o) \/ KillWaitEnds(op, o)
         \/ \E w \in Widget : Poll(w)
         \/ \E o \in Outcome : RunUnexpectedRestart(o)
         \/ \E o \in Outcome : ResumeTask(o)
         \/ \E killed \in BOOLEAN : NetworkDisconnected(killed)
         \/ \E o \in Outcome : NetworkConnected(o)

Next ==
    \/ Tasks
    \/ NilTaskRuns
    \/ \E o \in Outcome :
          \/ \E w \in Widget : WhenConnected(w, o)
          \/ SwitchWidget(o) \/ ToggleOn(o) \/ Restart(o) \/ Wake(o) \/ KOReaderStarts(o)
    \/ Stop
    \/ \E w \in Widget : PromptDeclined(w)
    \/ ScanBegins \/ ScanEnds
    \/ \E killed \in BOOLEAN :
          \/ \E kind \in {"suspend", "standby"} : Sleep(kind, killed)
          \/ NetworkDisconnecting(killed) \/ Exit(killed)
    \/ LinkLost \/ LinkUp \/ Crash \/ TimePasses
    \/ \E x \in Proc : ProcessExits(x)

Spec == Init /\ [][Next]_vars

\* UIManager runs every task that is due and KOReader broadcasts what has happened.
Fairness ==
    /\ WF_vars(\E op \in st.ops : ReadyWaitEnds(op))
    /\ WF_vars(\E op \in st.ops, o \in Outcome : StopWaitEnds(op, o) \/ KillWaitEnds(op, o))
    /\ \A w \in Widget : WF_vars(Poll(w))
    /\ WF_vars(\E o \in Outcome : RunUnexpectedRestart(o))
    /\ WF_vars(\E o \in Outcome : ResumeTask(o))
    /\ WF_vars(\E killed \in BOOLEAN : NetworkDisconnected(killed))
    /\ WF_vars(\E o \in Outcome : NetworkConnected(o))
    /\ WF_vars(NilTaskRuns)

FairSpec == Spec /\ Fairness

-----------------------------------------------------------------------------
(* Properties.                                                             *)

\* The PID file names the receiver: but for one whose PID could not be written, every
\* receiver can be found and stopped, whatever start, stop and restart overlap
\* (localsend_server.lua).
OneReceiver == st.alive \subseteq st.unnamed \cup {st.pidFile}

\* After the user has stopped the receiver (user_stopped), neither a recovery, a resume, a
\* reconnection nor a callback that was under way launches another one.
UserStopRespected ==
    [][st'.alive \subseteq st.alive \/ ~st'.userStopped]_vars

Wanted == Awake /\ st.intended /\ ~st.userStopped /\ st.connected

\* What is to bring the receiver back: the poll of a receiver that died, a recovery that is
\* scheduled, or the resume or reconnection after it was stopped for a sleep.
ReturnDue ==
    \/ CanRecover(st) /\ (st.poll # {} \/ st.pending)
    \/ st.beforeSuspend /\ (st.resume \/ notice = "connected")

\* A receiver that died under watch, or was stopped for a sleep, comes back
\* while it is wanted, unless the attempts are exhausted or a failure was reported
\* (scheduleUnexpectedRestart, _restartWhenReady: "lose the only restart request").
ReceiverReturns ==
    (Wanted /\ ~Running(st) /\ ReturnDue)
    ~> (Running(st) \/ st.exhausted \/ st.failed \/ ~Wanted)

\* The firewall does not stay open for a receiver that is gone, unless it is to return
\* after a sleep or a failure was reported.
FirewallClosed ==
    (Awake /\ st.firewall /\ ~Running(st))
    ~> (~st.firewall \/ Running(st) \/ st.beforeSuspend \/ st.failed \/ ~Awake)
=============================================================================
