------------------------ MODULE PluginServer_proofs ------------------------
(***************************************************************************)
(* Proofs about PluginServer, for any set of processes, any number of       *)
(* restart attempts and both values of the autostart setting.               *)
(*                                                                         *)
(* OneReceiver is not inductive: a stop that waits removes the PID file      *)
(* when the process it waits for is gone, so that process has to be the     *)
(* only one that can be alive, but for those whose PID could not be          *)
(* written.  UserStopRespected needs that no callback which starts the       *)
(* receiver again survives the user's stop.                                 *)
(***************************************************************************)
EXTENDS PluginServer, TLAPS

\* A wait for an exit waits for the only receiver that can be named, and one that starts
\* the receiver afterwards is not left from before the user's stop.
OpsSane(p) ==
    \A op \in p.ops : /\ op.kind # "ready" => p.alive \subseteq p.unnamed \cup {op.pid}
                      /\ op.then = "start" => ~p.userStopped

Sane(p) == p \in State /\ p.alive \subseteq p.unnamed \cup {p.pidFile} /\ OpsSane(p)

PInv ==
    /\ mode \in {"awake", "asleep", "gone"}
    /\ notice \in {None, "connected", "disconnected"}
    /\ Sane(st)

\* q differs from p in what neither says which processes there are nor who waits for them.
Same(p, q) ==
    /\ q \in State
    /\ q.alive = p.alive /\ q.pidFile = p.pidFile /\ q.unnamed = p.unnamed
    /\ q.ops = p.ops /\ q.userStopped = p.userStopped

\* Sanity only depends on that.
LEMMA SameSane ==
    ASSUME NEW p, NEW q, Sane(p), Same(p, q)
    PROVE  Sane(q)
  BY DEF Same, Sane, OpsSane

\* Two such changes are one.
LEMMA SameTrans ==
    ASSUME NEW p, NEW q, NEW r, Same(p, q), Same(q, r)
    PROVE  Same(p, r)
  BY DEF Same

-----------------------------------------------------------------------------
(* Helpers that start and stop nothing.                                    *)

\* registerEvents only sets handlers.
LEMMA RegisterEventsSame ==
    ASSUME NEW p \in State, NEW w \in Widget
    PROVE  Same(p, RegisterEvents(p, w))
<1>1. CASE w = "closed"
  BY <1>1 DEF RegisterEvents, Same
<1>2. CASE w # "closed"
  <2> DEFINE b == \/ Running(p) \/ (Autostart /\ ~p.userStopped)
                  \/ p.scanning \/ p.intended \/ p.beforeSuspend \/ p.beforeDisconnect
  <2>1. b \in BOOLEAN
    OBVIOUS
  <2>2. RegisterEvents(p, w) = [p EXCEPT !.registered = b]
    BY <1>2 DEF RegisterEvents
  <2> HIDE DEF b
  <2> QED
    BY <2>1, <2>2 DEF Same, State
<1> QED
  BY <1>1, <1>2

\* reconcileServerState at most drops the stopping flag.
LEMMA ReconcileSame ==
    ASSUME NEW p \in State, NEW w \in Widget
    PROVE  Same(p, ReconcileServerState(p, w))
<1> DEFINE q == [p EXCEPT !.stopping = @ /\ Running(p)]
<1>1. Same(p, q)
  BY DEF Same, State
<1>2. ReconcileServerState(p, w) = RegisterEvents(q, w)
  BY DEF ReconcileServerState
<1>3. q \in State
  BY <1>1 DEF Same
<1> HIDE DEF q
<1> QED
  BY <1>1, <1>2, <1>3, RegisterEventsSame, SameTrans

\* Arming a restart touches its task only.
LEMMA ArmRestartSame ==
    ASSUME NEW p \in State, NEW w \in Widget
    PROVE  Same(p, ArmRestart(p, w))
  BY DEF ArmRestart, Same, State

\* scheduleUnexpectedRestart counts attempts up to the maximum.
LEMMA ScheduleSame ==
    ASSUME NEW p \in State, NEW w \in Widget
    PROVE  Same(p, ScheduleUnexpectedRestart(p, w))
<1> DEFINE spent == IF p.startedAt = "long ago" THEN 0 ELSE p.attempts
           q == [p EXCEPT !.startedAt = "never", !.attempts = spent]
           r == [q EXCEPT !.attempts = spent + 1]
<1>a. MaxAttempts \in Nat
  BY PluginAssumption
<1>b. p.attempts \in 0 .. MaxAttempts
  BY DEF State
<1>c. 0 \in 0 .. MaxAttempts
  BY <1>a
<1>d. spent = 0 \/ spent = p.attempts
  OBVIOUS
<1>1. spent \in 0 .. MaxAttempts /\ MaxAttempts \in Nat
  <2> HIDE DEF spent
  <2> QED
    BY <1>a, <1>b, <1>c, <1>d
<1>2. Same(p, [q EXCEPT !.exhausted = TRUE])
  BY <1>1 DEF Same, State
<1>3. ASSUME spent < MaxAttempts
      PROVE  Same(p, r)
  <2>1. spent + 1 \in 0 .. MaxAttempts
    <3> HIDE DEF spent
    <3> QED
      BY <1>1, <1>3
  <2>2. r = [p EXCEPT !.startedAt = "never", !.attempts = spent + 1]
    BY DEF State
  <2> HIDE DEF spent, r
  <2> QED
    BY <2>1, <2>2 DEF Same, State
<1>4. Same(p, p)
  BY DEF Same
<1>5. ASSUME spent < MaxAttempts
      PROVE  Same(p, ArmRestart(r, w))
  <2>1. r \in State
    BY <1>3, <1>5 DEF Same
  <2> HIDE DEF r
  <2> QED
    BY <1>3, <1>5, <2>1, ArmRestartSame, SameTrans
<1>6. \/ ScheduleUnexpectedRestart(p, w) = p
      \/ ScheduleUnexpectedRestart(p, w) = [q EXCEPT !.exhausted = TRUE]
      \/ spent < MaxAttempts /\ ScheduleUnexpectedRestart(p, w) = ArmRestart(r, w)
  <2>1. spent >= MaxAttempts \/ spent < MaxAttempts
    <3> HIDE DEF spent
    <3> QED
      BY <1>1
  <2> QED
    BY <2>1 DEF ScheduleUnexpectedRestart
<1> HIDE DEF q, r, spent
<1> QED
  BY <1>2, <1>4, <1>5, <1>6

\* cancelUnexpectedRestart forgets the recovery.
LEMMA CancelSame ==
    ASSUME NEW p \in State, NEW w \in Widget, NEW clear \in BOOLEAN
    PROVE  Same(p, CancelUnexpectedRestart(p, w, clear))
<1>1. 0 \in 0 .. MaxAttempts
  BY PluginAssumption
<1> DEFINE b == p.restart /\ w = "closed"
           q == [p EXCEPT !.restart = b, !.pending = FALSE, !.recovering = FALSE]
<1>2. Same(p, q)
  <2>1. b \in BOOLEAN
    OBVIOUS
  <2> HIDE DEF b
  <2> QED
    BY <2>1 DEF Same, State
<1>3. q \in State
  BY <1>2 DEF Same
<1>4. CancelUnexpectedRestart(p, w, clear) =
        IF clear THEN [q EXCEPT !.intended = FALSE, !.attempts = 0, !.exhausted = FALSE,
                                !.startedAt = "never"]
        ELSE q
  BY DEF CancelUnexpectedRestart
<1> HIDE DEF q
<1>5. Same(q, [q EXCEPT !.intended = FALSE, !.attempts = 0, !.exhausted = FALSE,
                        !.startedAt = "never"])
  BY <1>1, <1>3 DEF Same, State
<1> QED
  BY <1>2, <1>4, <1>5, SameTrans

\* A poll task is scheduled.
LEMMA PollingSame ==
    ASSUME NEW p \in State, NEW w \in Widget
    PROVE  Same(p, SchedulePolling(p, w))
  BY DEF SchedulePolling, Same, State

\* A receiver that was found running is watched.
LEMMA OnServerStartedSame ==
    ASSUME NEW p \in State, NEW w \in Widget
    PROVE  Same(p, OnServerStarted(p, w))
<1> DEFINE a == [p EXCEPT !.stopping = FALSE, !.intended = TRUE, !.pending = FALSE,
                          !.recovering = FALSE, !.startedAt = "recently"]
           b == ReconcileServerState(a, w)
<1>1. Same(p, a) /\ a \in State
  BY DEF Same, State
<1>2. OnServerStarted(p, w) = SchedulePolling(b, w)
  BY DEF OnServerStarted
<1> HIDE DEF a
<1>3. Same(a, b) /\ b \in State
  BY <1>1, ReconcileSame DEF Same
<1> HIDE DEF b
<1> QED
  BY <1>1, <1>2, <1>3, PollingSame, SameTrans

\* A failed start is tried again or reported.
LEMMA RetrySame ==
    ASSUME NEW p \in State, NEW w \in Widget, NEW silent \in BOOLEAN
    PROVE  Same(p, RetryAfterFailure(p, w, silent))
<1> DEFINE q == [p EXCEPT !.recovering = FALSE]
<1>1. Same(p, q) /\ q \in State
  BY DEF Same, State
<1>2. \/ RetryAfterFailure(p, w, silent) = ScheduleUnexpectedRestart(q, w)
      \/ RetryAfterFailure(p, w, silent) = [q EXCEPT !.failed = TRUE]
  BY DEF RetryAfterFailure
<1> HIDE DEF q
<1>3. Same(q, [q EXCEPT !.failed = TRUE])
  BY <1>1 DEF Same, State
<1>4. Same(q, ScheduleUnexpectedRestart(q, w))
  BY <1>1, ScheduleSame
<1>5. Same(q, RetryAfterFailure(p, w, silent))
  BY <1>2, <1>3, <1>4
<1> QED
  BY <1>1, <1>5, SameTrans

\* The firewall is closed after it.
LEMMA StartFailedSame ==
    ASSUME NEW p \in State, NEW w \in Widget, NEW silent \in BOOLEAN
    PROVE  Same(p, OnServerStartFailed(p, w, silent))
<1> DEFINE a == [p EXCEPT !.startedAt = "never", !.firewall = FALSE, !.stopping = FALSE]
           b == ReconcileServerState(a, w)
<1>1. Same(p, a) /\ a \in State
  BY DEF Same, State
<1>2. OnServerStartFailed(p, w, silent) = RetryAfterFailure(b, w, silent)
  BY DEF OnServerStartFailed
<1> HIDE DEF a
<1>3. Same(a, b) /\ b \in State
  BY <1>1, ReconcileSame DEF Same
<1> HIDE DEF b
<1> QED
  BY <1>1, <1>2, <1>3, RetrySame, SameTrans

\* A start that finds the receiver running takes over its poll.
LEMMA TakeOverSame ==
    ASSUME NEW p \in State, NEW w \in Widget
    PROVE  Same(p, TakeOver(p, w))
<1> DEFINE a == ReconcileServerState(p, w)
           at == IF a.startedAt = "never" THEN "recently" ELSE a.startedAt
           b == [a EXCEPT !.intended = TRUE, !.recovering = FALSE, !.startedAt = at]
<1>1. Same(p, a) /\ a \in State
  BY ReconcileSame DEF Same
<1>2. TakeOver(p, w) = SchedulePolling(b, w)
  BY DEF TakeOver
<1> HIDE DEF a
<1>3. Same(a, b) /\ b \in State
  <2>1. at = "recently" \/ at = a.startedAt
    OBVIOUS
  <2> HIDE DEF at
  <2> QED
    BY <1>1, <2>1 DEF Same, State
<1> HIDE DEF b
<1> QED
  BY <1>1, <1>2, <1>3, PollingSame, SameTrans

\* An accepted start forgets an earlier recovery.
LEMMA AcceptSame ==
    ASSUME NEW p \in State, NEW w \in Widget, NEW recovery \in BOOLEAN
    PROVE  Same(p, AcceptStart(p, w, recovery))
<1> DEFINE a == CancelUnexpectedRestart(p, w, FALSE)
           b == [a EXCEPT !.intended = TRUE, !.attempts = 0, !.exhausted = FALSE,
                          !.startedAt = "never"]
<1>1. Same(p, a) /\ a \in State
  BY CancelSame DEF Same
<1>2. AcceptStart(p, w, recovery) =
        IF recovery THEN [p EXCEPT !.recovering = TRUE] ELSE b
  BY DEF AcceptStart
<1> HIDE DEF a
<1>3. Same(a, b)
  <2>1. 0 \in 0 .. MaxAttempts
    BY PluginAssumption
  <2> QED
    BY <1>1, <2>1 DEF Same, State
<1> HIDE DEF b
<1>4. Same(p, [p EXCEPT !.recovering = TRUE])
  BY DEF Same, State
<1> QED
  BY <1>1, <1>2, <1>3, <1>4, SameTrans

\* The end of discovery.
LEMMA FinishScanSame ==
    ASSUME NEW p \in State
    PROVE  Same(p, FinishScan(p))
<1> DEFINE a == [p EXCEPT !.scanning = FALSE]
<1>1. Same(p, a) /\ a \in State
  BY DEF Same, State
<1>2. FinishScan(p) = RegisterEvents(a, "current") \/ FinishScan(p) = p
  BY DEF FinishScan
<1>3. Same(p, p)
  BY DEF Same
<1> HIDE DEF a
<1> QED
  BY <1>1, <1>2, <1>3, RegisterEventsSame, SameTrans DEF Widget

-----------------------------------------------------------------------------
(* Starting and stopping.                                                  *)

\* q is sane, and if a receiver was launched the user had not stopped it.
Fine(p, q) ==
    /\ Sane(q)
    /\ q.userStopped = p.userStopped
    /\ q.alive \subseteq p.alive \/ ~p.userStopped

\* Two such changes are one.
LEMMA FineTrans ==
    ASSUME NEW p, NEW q, NEW r, Fine(p, q), Fine(q, r)
    PROVE  Fine(p, r)
  BY DEF Fine

\* A change that starts and stops nothing is one.
LEMMA SameFine ==
    ASSUME NEW p, NEW q, Sane(p), Same(p, q)
    PROVE  Fine(p, q) /\ Sane(q) /\ q \in State
  BY SameSane DEF Fine, Same

\* The first change may touch the processes, the second does not.
LEMMA FineSame ==
    ASSUME NEW p, NEW q, NEW r, Fine(p, q), Same(q, r)
    PROVE  Fine(p, r)
  BY SameFine, FineTrans DEF Fine

\* A launcher that failed changes neither the processes nor their names.
LEMMA LauncherFailedSame ==
    ASSUME NEW p \in State, NEW w \in Widget, NEW silent \in BOOLEAN
    PROVE  Same(p, LauncherFailed(p, w, silent))
<1> DEFINE a == [p EXCEPT !.firewall = FALSE]
           b == ReconcileServerState(a, w)
<1>1. Same(p, a) /\ a \in State
  BY DEF Same, State
<1>2. LauncherFailed(p, w, silent) = RetryAfterFailure(b, w, silent)
  BY DEF LauncherFailed
<1> HIDE DEF a
<1>3. Same(a, b) /\ b \in State
  BY <1>1, ReconcileSame DEF Same
<1> HIDE DEF b
<1> QED
  BY <1>1, <1>2, <1>3, RetrySame, SameTrans

\* A launch where no process that lives could have been named: the new one is the one the
\* PID file names, or one whose PID could not be written.
LEMMA LaunchFine ==
    ASSUME NEW p, Sane(p), p.alive \subseteq p.unnamed, p.ops = {}, ~p.userStopped,
           NEW w \in Widget, NEW silent \in BOOLEAN,
           NEW o \in {"fails", "unnamed", "dies", "ok"}
    PROVE  Fine(p, Launch(p, w, silent, o))
<1> DEFINE x == CHOOSE y \in Unused(p) : TRUE
           q == [p EXCEPT !.firewall = TRUE, !.pidFile = x]
<1>0. p \in State
  BY DEF Sane
<1>1. Unused(p) # {} => x \in Proc
  BY DEF Unused
<1>2. CASE o = "fails" \/ Unused(p) = {}
  <2>1. Launch(p, w, silent, o) = LauncherFailed(p, w, silent)
    BY <1>2 DEF Launch
  <2> QED
    BY <1>0, <2>1, LauncherFailedSame, SameFine
<1>3. CASE o = "dies" /\ Unused(p) # {}
  <2> DEFINE op == [kind |-> "ready", w |-> w, silent |-> silent, then |-> "nothing", pid |-> x]
             r == [q EXCEPT !.ops = @ \cup {op}]
  <2>1. Launch(p, w, silent, o) = r
    BY <1>3 DEF Launch
  <2>2. op \in Op
    BY <1>1, <1>3 DEF Op
  <2>3. op.kind = "ready" /\ op.then = "nothing" /\ x \in Proc
    BY <1>1, <1>3
  <2> HIDE DEF x, op
  <2>4. /\ r \in State /\ r.alive = p.alive /\ r.unnamed = p.unnamed /\ r.ops = {op}
        /\ r.userStopped = p.userStopped
    BY <1>0, <2>2, <2>3 DEF State
  <2> HIDE DEF r
  <2> QED
    BY <2>1, <2>3, <2>4 DEF Fine, Sane, OpsSane
<1>4. CASE o = "ok" /\ Unused(p) # {}
  <2> DEFINE r == [q EXCEPT !.alive = @ \cup {x}]
  <2>1. Launch(p, w, silent, o) = OnServerStarted(r, w)
    BY <1>4 DEF Launch
  <2>2. x \in Proc
    BY <1>1, <1>4
  <2> HIDE DEF x
  <2>3. /\ r \in State /\ r.alive = p.alive \cup {x} /\ r.pidFile = x /\ r.ops = {}
        /\ r.unnamed = p.unnamed /\ r.userStopped = p.userStopped
    BY <1>0, <2>2 DEF State
  <2> HIDE DEF r
  <2>4. Fine(p, r)
    BY <2>3 DEF Fine, Sane, OpsSane
  <2> QED
    BY <2>1, <2>3, <2>4, OnServerStartedSame, FineSame
<1>5. CASE o = "unnamed" /\ Unused(p) # {}
  <2> DEFINE stray == IF p.alive = {} THEN {x} ELSE {}
             r == [p EXCEPT !.pidFile = None, !.alive = @ \cup stray,
                            !.unnamed = @ \cup stray]
  <2>1. Launch(p, w, silent, o) = LauncherFailed(r, w, silent)
    BY <1>5 DEF Launch
  <2>2. stray \subseteq Proc
    BY <1>1, <1>5
  <2> HIDE DEF x, stray
  <2>3. /\ r \in State /\ r.alive = p.alive \cup stray /\ r.unnamed = p.unnamed \cup stray
        /\ r.ops = {} /\ r.userStopped = p.userStopped
    BY <1>0, <2>2 DEF State
  <2> HIDE DEF r
  <2>4. Fine(p, r)
    BY <2>3 DEF Fine, Sane, OpsSane
  <2> QED
    BY <2>1, <2>3, <2>4, LauncherFailedSame, FineSame
<1> QED
  BY <1>2, <1>3, <1>4, <1>5

\* Sanity but for the operations.
Core(p) == p \in State /\ p.alive \subseteq p.unnamed \cup {p.pidFile}

\* nextServerOpID forgets the operations under way, whatever they are.
LEMMA NextOpFine ==
    ASSUME NEW p, Core(p)
    PROVE  /\ Fine(p, NextServerOpID(p))
           /\ NextServerOpID(p).alive = p.alive
           /\ NextServerOpID(p).pidFile = p.pidFile
           /\ NextServerOpID(p).unnamed = p.unnamed
           /\ NextServerOpID(p).ops = {}
           /\ NextServerOpID(p) \in State
<1> DEFINE q == NextServerOpID(p)
<1>1. /\ q \in State /\ q.alive = p.alive /\ q.pidFile = p.pidFile
      /\ q.unnamed = p.unnamed /\ q.ops = {} /\ q.userStopped = p.userStopped
  BY DEF NextServerOpID, Core, State
<1> HIDE DEF q
<1>2. Fine(p, q)
  BY <1>1 DEF Fine, Sane, OpsSane, Core
<1> QED
  BY <1>1, <1>2 DEF q

\* A start, if the user has not stopped the receiver, launches one process at most and
\* only when none lives that the PID file names.
LEMMA StartFine ==
    ASSUME NEW p, Sane(p), ~p.userStopped, NEW w \in Widget,
           NEW silent \in BOOLEAN, NEW recovery \in BOOLEAN, NEW o \in Outcome
    PROVE  Fine(p, Start(p, w, silent, recovery, o))
<1> DEFINE e == [p EXCEPT !.failed = FALSE]
           a == AcceptStart(e, w, recovery)
           q == NextServerOpID(a)
           k == [p EXCEPT !.recovering = FALSE]
           f == [p EXCEPT !.failed = TRUE]
           r == Start(p, w, silent, recovery, o)
<1>0. p \in State
  BY DEF Sane
<1>1. Same(p, e) /\ e \in State /\ Same(p, k) /\ k \in State /\ Same(p, f)
  BY <1>0 DEF Same, State
<1>2. \/ r = p
      \/ r = ScheduleUnexpectedRestart(k, w)
      \/ r = f
      \/ r = TakeOver(q, w)
      \/ /\ ~Running(p)
         /\ \/ o \in {"fails", "unnamed", "dies", "ok"} /\ r = Launch(q, w, silent, o)
            \/ r = ScheduleUnexpectedRestart([q EXCEPT !.recovering = FALSE], w)
            \/ r = [q EXCEPT !.failed = TRUE]
  <2>1. CASE p.stopping
    BY <2>1 DEF Start
  <2>2. CASE ~p.stopping /\ p.scanning /\ ~Running(p)
    BY <2>2 DEF Start
  <2>3. CASE ~p.stopping /\ Running(p)
    BY <2>3 DEF Start
  <2>4. CASE ~p.stopping /\ ~p.scanning /\ ~Running(p)
    BY <2>4 DEF Start, Outcome
  <2> QED
    BY <2>1, <2>2, <2>3, <2>4
<1> SUFFICES Fine(p, r)
  OBVIOUS
<1> HIDE DEF e, k, f, r
<1>3. Same(e, a)
  BY <1>1, AcceptSame
<1>4. Same(p, a) /\ Sane(a)
  BY <1>1, <1>3, SameTrans, SameSane
<1> HIDE DEF a
<1>5. Fine(p, a)
  BY <1>4, SameFine
<1>6. /\ Fine(a, q) /\ q.alive = p.alive /\ q.pidFile = p.pidFile
      /\ q.unnamed = p.unnamed /\ q.ops = {} /\ q \in State
  BY <1>4, NextOpFine DEF Same, Sane, Core
<1>7. Fine(p, q)
  BY <1>5, <1>6, FineTrans
<1>8. ~q.userStopped /\ Sane(q)
  BY <1>7 DEF Fine
<1> HIDE DEF q
<1>9. CASE r = p
  BY <1>9 DEF Fine
<1>10. CASE r = ScheduleUnexpectedRestart(k, w) \/ r = f
  <2>1. Same(p, r)
    BY <1>1, <1>10, ScheduleSame, SameTrans
  <2> QED
    BY <2>1, SameFine
<1>11. CASE r = TakeOver(q, w)
  BY <1>6, <1>7, <1>11, TakeOverSame, FineSame
<1>12. CASE /\ ~Running(p)
            /\ o \in {"fails", "unnamed", "dies", "ok"} /\ r = Launch(q, w, silent, o)
  <2>1. q.alive \subseteq q.unnamed
    BY <1>6, <1>12 DEF Running, Sane
  <2>2. Fine(q, r)
    BY <1>6, <1>8, <1>12, <2>1, LaunchFine
  <2> QED
    BY <1>7, <2>2, FineTrans
<1>13. CASE \/ r = ScheduleUnexpectedRestart([q EXCEPT !.recovering = FALSE], w)
            \/ r = [q EXCEPT !.failed = TRUE]
  <2> DEFINE g == [q EXCEPT !.recovering = FALSE]
             h == [q EXCEPT !.failed = TRUE]
  <2>1. Same(q, g) /\ g \in State /\ Same(q, h)
    BY <1>6 DEF Same, State
  <2> HIDE DEF g, h
  <2>2. Same(q, ScheduleUnexpectedRestart(g, w))
    BY <2>1, ScheduleSame, SameTrans
  <2>3. Same(q, r)
    BY <1>13, <2>1, <2>2 DEF g, h
  <2> QED
    BY <1>7, <2>3, FineSame
<1> QED
  BY <1>2, <1>9, <1>10, <1>11, <1>12, <1>13

\* The end of a stop, with the start that restart asked for.
LEMMA FinishFine ==
    ASSUME NEW p, Sane(p), NEW w \in Widget, NEW success \in BOOLEAN,
           NEW then \in {"nothing", "start"}, NEW o \in Outcome,
           then = "start" => ~p.userStopped
    PROVE  Fine(p, Finish(p, w, success, then, o))
<1> DEFINE fl == ~success
           e == [p EXCEPT !.stopping = FALSE, !.failed = fl]
           q == ReconcileServerState(e, w)
           r == Finish(p, w, success, then, o)
<1>1. Same(p, e) /\ e \in State
  <2>1. fl \in BOOLEAN
    OBVIOUS
  <2> HIDE DEF fl
  <2> QED
    BY <2>1 DEF Same, State, Sane
<1>2. r = q \/ (then = "start" /\ r = Start(q, w, FALSE, FALSE, o))
  BY DEF Finish
<1> SUFFICES Fine(p, r)
  OBVIOUS
<1> HIDE DEF e, r
<1>3. Same(p, q)
  BY <1>1, ReconcileSame, SameTrans
<1> HIDE DEF q
<1>4. Fine(p, q)
  BY <1>3, SameFine
<1>5. ASSUME then = "start"
      PROVE  Fine(q, Start(q, w, FALSE, FALSE, o))
  <2>1. Sane(q) /\ ~q.userStopped
    BY <1>4, <1>5 DEF Fine
  <2> QED
    BY <2>1, StartFine
<1>6. CASE r = q
  BY <1>4, <1>6
<1>7. CASE then = "start" /\ r = Start(q, w, FALSE, FALSE, o)
  <2>1. Fine(q, r)
    BY <1>5, <1>7
  <2> QED
    BY <1>4, <2>1, FineTrans
<1> QED
  BY <1>2, <1>6, <1>7

\* finalizeStopped removes the PID file of a process that is gone.
LEMMA FinalizeFine ==
    ASSUME NEW p, Sane(p), p.alive \subseteq p.unnamed, NEW w \in Widget,
           NEW then \in {"nothing", "start"}, NEW o \in Outcome,
           then = "start" => ~p.userStopped
    PROVE  Fine(p, FinalizeStopped(p, w, then, o))
<1> DEFINE q == [p EXCEPT !.pidFile = None, !.firewall = FALSE]
<1>1. /\ q \in State /\ q.alive = p.alive /\ q.unnamed = p.unnamed
      /\ q.ops = p.ops /\ q.userStopped = p.userStopped
  BY DEF Sane, State
<1>2. FinalizeStopped(p, w, then, o) = Finish(q, w, TRUE, then, o)
  BY DEF FinalizeStopped
<1> HIDE DEF q
<1>3. Fine(p, q) /\ Sane(q)
  BY <1>1 DEF Fine, Sane, OpsSane
<1>4. Fine(q, Finish(q, w, TRUE, then, o))
  BY <1>1, <1>3, FinishFine
<1> QED
  BY <1>2, <1>3, <1>4, FineTrans

\* A stop begins by forgetting the operations under way.
LEMMA BeginStopFine ==
    ASSUME NEW p, Core(p), NEW w \in Widget
    PROVE  /\ Fine(p, BeginStop(p, w))
           /\ BeginStop(p, w) \in State
           /\ BeginStop(p, w).ops = {}
           /\ BeginStop(p, w).alive = p.alive
<1> DEFINE q == NextServerOpID(p)
           e == [q EXCEPT !.poll = @ \ {w}, !.stopping = TRUE]
<1>1. Fine(p, q) /\ q.alive = p.alive /\ q.ops = {} /\ q \in State
  BY NextOpFine
<1>2. BeginStop(p, w) = ReconcileServerState(e, w)
  BY DEF BeginStop
<1> HIDE DEF q
<1>3. Same(q, e) /\ e \in State
  BY <1>1 DEF Same, State
<1> HIDE DEF e
<1>4. Same(q, BeginStop(p, w))
  BY <1>2, <1>3, ReconcileSame, SameTrans
<1> QED
  BY <1>1, <1>4, FineSame DEF Same

\* StopServer waits for the process the PID file names, or finds it gone.
LEMMA StopFine ==
    ASSUME NEW p, Core(p), NEW w \in Widget, NEW then \in {"nothing", "start"},
           NEW o \in Outcome, then = "start" => ~p.userStopped
    PROVE  Fine(p, StopServer(p, w, then, o))
<1> DEFINE q == BeginStop(p, w)
<1>1. Fine(p, q) /\ q \in State /\ q.ops = {}
  BY BeginStopFine
<1>2. StopServer(p, w, then, o) =
        IF Running(q) THEN WaitFor(q, w, then) ELSE FinalizeStopped(q, w, then, o)
  BY DEF StopServer
<1> HIDE DEF q
<1>3. Sane(q) /\ (then = "start" => ~q.userStopped)
  BY <1>1 DEF Fine
<1>4. ASSUME Running(q)
      PROVE  Fine(q, WaitFor(q, w, then))
  <2> DEFINE op == [kind |-> "term", w |-> w, silent |-> FALSE, then |-> then,
                    pid |-> q.pidFile]
             r == [q EXCEPT !.ops = @ \cup {op}]
  <2>1. q.pidFile \in Proc
    BY <1>1, <1>4 DEF Running, State
  <2>2. op \in Op
    BY <2>1 DEF Op
  <2>3. op.pid = q.pidFile /\ op.then = then
    OBVIOUS
  <2>4. WaitFor(q, w, then) = r
    BY DEF WaitFor
  <2> HIDE DEF op
  <2>5. /\ r \in State /\ r.ops = {op} /\ r.alive = q.alive /\ r.pidFile = q.pidFile
        /\ r.unnamed = q.unnamed /\ r.userStopped = q.userStopped
    BY <1>1, <2>2 DEF State
  <2> HIDE DEF r
  <2> QED
    BY <1>3, <2>3, <2>4, <2>5 DEF Fine, Sane, OpsSane
<1>5. ASSUME ~Running(q)
      PROVE  Fine(q, FinalizeStopped(q, w, then, o))
  <2>1. q.alive \subseteq q.unnamed
    BY <1>3, <1>5 DEF Running, Sane
  <2> QED
    BY <1>3, <2>1, FinalizeFine
<1> QED
  BY <1>1, <1>2, <1>4, <1>5, FineTrans

\* StopServerSync kills the process, or fails and leaves it named.
LEMMA StopSyncFine ==
    ASSUME NEW p, Sane(p), NEW w \in Widget, NEW killed \in BOOLEAN
    PROVE  Fine(p, StopServerSync(p, w, killed))
<1> DEFINE q == BeginStop(p, w)
           k == [q EXCEPT !.alive = @ \ {q.pidFile}]
           r == StopServerSync(p, w, killed)
<1>1. Fine(p, q) /\ q \in State /\ q.ops = {}
  BY BeginStopFine DEF Sane, Core
<1>2. \/ ~Running(q) /\ r = FinalizeStopped(q, w, "nothing", "ok")
      \/ r = FinalizeStopped(k, w, "nothing", "ok")
      \/ r = Finish(q, w, FALSE, "nothing", "ok")
  BY DEF StopServerSync
<1> HIDE DEF q, r
<1>3. Sane(q)
  BY <1>1 DEF Fine
<1>4. k \in State /\ k.alive = q.alive \ {q.pidFile} /\ k.pidFile = q.pidFile
      /\ k.unnamed = q.unnamed /\ k.ops = q.ops /\ k.userStopped = q.userStopped
  BY <1>1 DEF State
<1> HIDE DEF k
<1>5. k.alive \subseteq k.unnamed /\ Sane(k) /\ Fine(q, k)
  BY <1>1, <1>3, <1>4 DEF Sane, OpsSane, Fine
<1>6. "ok" \in Outcome
  BY DEF Outcome
<1>7. Fine(k, FinalizeStopped(k, w, "nothing", "ok"))
  BY <1>5, <1>6, FinalizeFine
<1>8. ~Running(q) => Fine(q, FinalizeStopped(q, w, "nothing", "ok"))
  <2>1. ~Running(q) => q.alive \subseteq q.unnamed
    BY <1>3 DEF Running, Sane
  <2> QED
    BY <1>3, <1>6, <2>1, FinalizeFine
<1>9. Fine(q, Finish(q, w, FALSE, "nothing", "ok"))
  BY <1>3, <1>6, FinishFine
<1>10. Fine(q, r)
  <2>1. Fine(q, FinalizeStopped(k, w, "nothing", "ok"))
    BY <1>5, <1>7, FineTrans
  <2> QED
    BY <1>2, <1>8, <1>9, <2>1
<1>11. Fine(p, r)
  BY <1>1, <1>10, FineTrans
<1> QED
  BY <1>11 DEF r

\* A start waits for the network if need be.
LEMMA StartConnectedFine ==
    ASSUME NEW p, Sane(p), ~p.userStopped, NEW w \in Widget, NEW silent \in BOOLEAN,
           NEW o \in Outcome
    PROVE  Fine(p, StartWhenConnected(p, w, silent, o))
<1> DEFINE e == [p EXCEPT !.whenConnected = @ \cup {w}]
<1>1. Same(p, e) /\ Same(p, p)
  BY DEF Same, State, Sane
<1>2. Fine(p, e) /\ Fine(p, p)
  BY <1>1, SameFine
<1>3. Fine(p, Start(p, w, silent, FALSE, o))
  BY StartFine
<1> QED
  BY <1>2, <1>3 DEF StartWhenConnected

\* The restart after a sleep or a disconnection asks whether the user stopped it.
LEMMA RestartFine ==
    ASSUME NEW p, Sane(p), NEW o \in Outcome
    PROVE  Fine(p, RestartWhenReady(p, o))
<1> DEFINE e == [p EXCEPT !.resume = TRUE]
           q == [p EXCEPT !.beforeSuspend = FALSE, !.beforeDisconnect = FALSE]
           r == RestartWhenReady(p, o)
<1>1. Same(p, e) /\ Same(p, p) /\ Same(p, q)
  BY DEF Same, State, Sane
<1>2. Fine(p, e) /\ Fine(p, p) /\ Fine(p, q) /\ Sane(q)
  BY <1>1, SameFine
<1>3. \/ r = p \/ r = e
      \/ ~p.userStopped /\ r = Start(q, "current", TRUE, FALSE, o)
  BY DEF RestartWhenReady
<1>4. "current" \in Widget
  BY DEF Widget
<1> SUFFICES Fine(p, r)
  OBVIOUS
<1> HIDE DEF q, e, r
<1>5. CASE ~p.userStopped /\ r = Start(q, "current", TRUE, FALSE, o)
  <2>1. ~q.userStopped
    BY <1>2, <1>5 DEF Fine
  <2>2. Fine(q, r)
    BY <1>2, <1>4, <1>5, <2>1, StartFine
  <2> QED
    BY <1>2, <2>2, FineTrans
<1> QED
  BY <1>2, <1>3, <1>5

-----------------------------------------------------------------------------
(* Widgets.                                                                *)

\* The callbacks of a widget that closes stay, on behalf of a closed one.
LEMMA CloseFine ==
    ASSUME NEW p, Sane(p)
    PROVE  Fine(p, [OnCloseWidget(p) EXCEPT !.registered = FALSE])
<1> DEFINE ops == {[op EXCEPT !.w = "closed"] : op \in p.ops}
           wc == IF p.whenConnected = {} THEN {} ELSE {"closed"}
           q == [p EXCEPT !.poll = @ \ {"current"}, !.restart = FALSE, !.resume = FALSE,
                          !.whenConnected = wc, !.ops = ops]
           r == [q EXCEPT !.registered = FALSE]
<1>0. p \in State
  BY DEF Sane
<1>1. ops \subseteq Op
  <2>1. p.ops \subseteq Op
    BY <1>0 DEF State
  <2>2. \A op \in Op : [op EXCEPT !.w = "closed"] \in Op
    BY DEF Op, Widget
  <2> QED
    BY <2>1, <2>2
<1>2. \A op \in ops : \E oq \in p.ops :
          op.kind = oq.kind /\ op.then = oq.then /\ op.pid = oq.pid
  <2>1. p.ops \subseteq Op
    BY <1>0 DEF State
  <2>2. \A op \in Op : /\ [op EXCEPT !.w = "closed"].kind = op.kind
                       /\ [op EXCEPT !.w = "closed"].then = op.then
                       /\ [op EXCEPT !.w = "closed"].pid = op.pid
    BY DEF Op
  <2> QED
    BY <2>1, <2>2
<1>3. wc \subseteq Widget
  BY DEF Widget
<1>4. [OnCloseWidget(p) EXCEPT !.registered = FALSE] = r
  BY DEF OnCloseWidget
<1> HIDE DEF ops, wc
<1>5. /\ r \in State /\ r.alive = p.alive /\ r.pidFile = p.pidFile
      /\ r.unnamed = p.unnamed /\ r.ops = ops /\ r.userStopped = p.userStopped
  BY <1>0, <1>1, <1>3 DEF State
<1> HIDE DEF r
<1>6. OpsSane(r)
  BY <1>2, <1>5 DEF Sane, OpsSane
<1> QED
  BY <1>4, <1>5, <1>6 DEF Fine, Sane

\* cleanupOrphanedResources removes the PID file of a process that died.
LEMMA CleanupFine ==
    ASSUME NEW p, Sane(p)
    PROVE  Fine(p, CleanupOrphanedResources(p))
<1> DEFINE q == [p EXCEPT !.pidFile = None, !.firewall = FALSE]
<1>1. /\ q \in State /\ q.alive = p.alive /\ q.unnamed = p.unnamed
      /\ q.ops = p.ops /\ q.userStopped = p.userStopped
  BY DEF Sane, State
<1>2. \/ CleanupOrphanedResources(p) = p
      \/ ~Running(p) /\ CleanupOrphanedResources(p) = q
  BY DEF CleanupOrphanedResources
<1> HIDE DEF q
<1>3. ~Running(p) => p.alive \subseteq p.unnamed
  BY DEF Running, Sane
<1>4. ~Running(p) => Fine(p, q)
  BY <1>1, <1>3 DEF Fine, Sane, OpsSane
<1>5. Fine(p, p)
  BY DEF Fine
<1> QED
  BY <1>2, <1>4, <1>5

\* init brings the receiver back in one way at most.
LEMMA InitStartsFine ==
    ASSUME NEW p, Sane(p), NEW o \in Outcome
    PROVE  Fine(p, InitStarts(p, o))
<1> DEFINE recovers == p.intended /\ ~Running(p) /\ RecoveryAllowed(p)
           q == IF recovers THEN ResumeUnexpectedRestart(p) ELSE p
           r == InitStarts(p, o)
<1>0. p \in State /\ "current" \in Widget
  BY DEF Sane, Widget
<1>1. Same(p, ResumeUnexpectedRestart(p)) /\ Same(p, p)
  BY <1>0, ArmRestartSame, ScheduleSame DEF ResumeUnexpectedRestart, Same
<1>2. Fine(p, q) /\ Sane(q)
  BY <1>1, SameFine
<1>3. \/ r = q \/ r = RestartWhenReady(q, o)
      \/ ~q.userStopped /\ r = StartWhenConnected(q, "current", TRUE, o)
  BY DEF InitStarts
<1> SUFFICES Fine(p, r)
  OBVIOUS
<1> HIDE DEF q, r
<1>4. CASE r = RestartWhenReady(q, o)
  <2>1. Fine(q, r)
    BY <1>2, <1>4, RestartFine
  <2> QED
    BY <1>2, <2>1, FineTrans
<1>5. CASE ~q.userStopped /\ r = StartWhenConnected(q, "current", TRUE, o)
  <2>1. Fine(q, r)
    BY <1>0, <1>2, <1>5, StartConnectedFine
  <2> QED
    BY <1>2, <2>1, FineTrans
<1> QED
  BY <1>2, <1>3, <1>4, <1>5

\* So does the init of a widget as a whole.
LEMMA WidgetInitFine ==
    ASSUME NEW p, Sane(p), NEW o \in Outcome
    PROVE  Fine(p, WidgetInit(p, o))
<1> DEFINE a == CleanupOrphanedResources(p)
           b == IF Running(a) THEN [a EXCEPT !.intended = TRUE, !.firewall = TRUE] ELSE a
           c == InitStarts(b, o)
           d == IF Running(c) THEN SchedulePolling(c, "current") ELSE c
<1>0. "current" \in Widget
  BY DEF Widget
<1>1. WidgetInit(p, o) = RegisterEvents(d, "current")
  BY DEF WidgetInit
<1>2. Fine(p, a) /\ Sane(a) /\ a \in State
  BY CleanupFine DEF Fine, Sane
<1> HIDE DEF a
<1>3. Same(a, [a EXCEPT !.intended = TRUE, !.firewall = TRUE]) /\ Same(a, a)
  BY <1>2 DEF Same, State
<1>4. Same(a, b)
  BY <1>3
<1>5. Fine(p, b) /\ Sane(b)
  BY <1>2, <1>4, FineSame DEF Fine
<1> HIDE DEF b
<1>6. Fine(b, c)
  BY <1>5, InitStartsFine
<1>7. Fine(p, c) /\ c \in State
  BY <1>5, <1>6, FineTrans DEF Fine, Sane
<1> HIDE DEF c
<1>8. Same(c, d) /\ d \in State
  BY <1>0, <1>7, PollingSame DEF Same
<1> HIDE DEF d
<1>9. Same(c, RegisterEvents(d, "current"))
  BY <1>0, <1>8, RegisterEventsSame, SameTrans
<1> QED
  BY <1>1, <1>7, <1>9, FineSame

-----------------------------------------------------------------------------
(* Power, network and the end of KOReader.                                 *)

\* A stop for sleep ends the receiver at once.
LEMMA SleepFine ==
    ASSUME NEW p, Sane(p), NEW kind, NEW killed \in BOOLEAN
    PROVE  Fine(p, StopForSleep(p, kind, killed))
<1> DEFINE rs == p.resume /\ kind = "standby"
           a == [p EXCEPT !.poll = @ \ {"current"}, !.resume = rs]
           b == FinishScan(CancelUnexpectedRestart(a, "current", FALSE))
           bs == b.intended /\ ~b.userStopped
           c == [b EXCEPT !.beforeSuspend = TRUE]
           d == [b EXCEPT !.beforeSuspend = bs]
           r == StopForSleep(p, kind, killed)
<1>0. "current" \in Widget /\ rs \in BOOLEAN /\ bs \in BOOLEAN
  BY DEF Widget
<1>1. r = StopServerSync(c, "current", killed) \/ r = d
  BY DEF StopForSleep
<1> SUFFICES Fine(p, r)
  OBVIOUS
<1> HIDE DEF r, rs, bs
<1>2. Same(p, a) /\ a \in State
  BY <1>0 DEF Same, State, Sane
<1> HIDE DEF a
<1>3. Same(a, CancelUnexpectedRestart(a, "current", FALSE))
  BY <1>0, <1>2, CancelSame
<1>4. Same(a, b)
  BY <1>3, FinishScanSame, SameTrans DEF Same
<1>5. Same(p, b) /\ b \in State
  BY <1>2, <1>4, SameTrans DEF Same
<1> HIDE DEF b
<1>6. Same(b, c) /\ Same(b, d)
  BY <1>0, <1>5 DEF Same, State
<1>7. Fine(p, c) /\ Sane(c) /\ Fine(p, d)
  BY <1>5, <1>6, SameTrans, SameFine
<1> HIDE DEF c, d
<1>8. Fine(c, StopServerSync(c, "current", killed))
  BY <1>0, <1>7, StopSyncFine
<1>9. Fine(p, StopServerSync(c, "current", killed))
  BY <1>7, <1>8, FineTrans
<1> QED
  BY <1>1, <1>7, <1>9

\* A stop for a disconnection likewise.
LEMMA DisconnectFine ==
    ASSUME NEW p, Sane(p), NEW killed \in BOOLEAN
    PROVE  Fine(p, StopForDisconnect(p, killed))
<1> DEFINE b == FinishScan(CancelUnexpectedRestart(p, "current", FALSE))
           bd == b.beforeDisconnect \/ (b.intended /\ ~b.userStopped)
           c == [b EXCEPT !.beforeDisconnect = TRUE]
           d == [b EXCEPT !.beforeDisconnect = bd]
           r == StopForDisconnect(p, killed)
<1>0. "current" \in Widget /\ bd \in BOOLEAN /\ p \in State
  BY DEF Widget, Sane
<1>1. r = StopServerSync(c, "current", killed) \/ r = d
  BY DEF StopForDisconnect
<1> SUFFICES Fine(p, r)
  OBVIOUS
<1> HIDE DEF r, bd
<1>3. Same(p, CancelUnexpectedRestart(p, "current", FALSE))
  BY <1>0, CancelSame
<1>5. Same(p, b) /\ b \in State
  BY <1>3, FinishScanSame, SameTrans DEF Same
<1> HIDE DEF b
<1>6. Same(b, c) /\ Same(b, d)
  BY <1>0, <1>5 DEF Same, State
<1>7. Fine(p, c) /\ Sane(c) /\ Fine(p, d)
  BY <1>5, <1>6, SameTrans, SameFine
<1> HIDE DEF c, d
<1>8. Fine(c, StopServerSync(c, "current", killed))
  BY <1>0, <1>7, StopSyncFine
<1>9. Fine(p, StopServerSync(c, "current", killed))
  BY <1>7, <1>8, FineTrans
<1> QED
  BY <1>1, <1>7, <1>9

\* And that of an exit.
LEMMA ExitFine ==
    ASSUME NEW p, Sane(p), NEW killed \in BOOLEAN
    PROVE  Fine(p, OnExit(p, killed))
<1> DEFINE b == FinishScan(CancelUnexpectedRestart(p, "current", TRUE))
           c == [b EXCEPT !.firewall = FALSE]
           r == OnExit(p, killed)
<1>0. "current" \in Widget /\ p \in State
  BY DEF Widget, Sane
<1>1. r = StopServerSync(b, "current", killed) \/ r = c
  BY DEF OnExit
<1> SUFFICES Fine(p, r)
  OBVIOUS
<1> HIDE DEF r
<1>2. Same(p, CancelUnexpectedRestart(p, "current", TRUE))
  BY <1>0, CancelSame
<1>3. Same(p, b) /\ b \in State
  BY <1>2, FinishScanSame, SameTrans DEF Same
<1> HIDE DEF b
<1>4. Same(b, c)
  BY <1>3 DEF Same, State
<1>5. Fine(p, b) /\ Sane(b) /\ Fine(p, c)
  BY <1>3, <1>4, SameTrans, SameFine
<1> HIDE DEF c
<1>6. Fine(b, StopServerSync(b, "current", killed))
  BY <1>0, <1>5, StopSyncFine
<1> QED
  BY <1>1, <1>5, <1>6, FineTrans

\* What an ended KOReader leaves behind is a sane state.
LEMMA LeftSane ==
    ASSUME NEW p, Sane(p)
    PROVE  Sane(Left(p)) /\ Left(p).alive = p.alive
<1>1. /\ p.alive \subseteq Proc /\ p.unnamed \subseteq Proc /\ p.pidFile \in Proc \cup {None}
      /\ p.firewall \in BOOLEAN /\ p.connected \in BOOLEAN
  BY DEF Sane, State
<1>2. 0 \in 0 .. MaxAttempts
  BY PluginAssumption
<1>3. /\ Left(p) \in State
      /\ Left(p).alive = p.alive /\ Left(p).pidFile = p.pidFile
      /\ Left(p).unnamed = p.unnamed /\ Left(p).ops = {}
  BY <1>1, <1>2 DEF Left, Fresh, State
<1> QED
  BY <1>3 DEF Sane, OpsSane

-----------------------------------------------------------------------------
(* The steps.                                                              *)

\* What every step promises.
Good == Sane(st') /\ (st'.alive \subseteq st.alive \/ ~st'.userStopped)

\* A step to such a state is good.
LEMMA FineGood ==
    ASSUME NEW q, Fine(st, q), st' = q
    PROVE  Good
  BY DEF Fine, Good

\* An operation that ended is forgotten.
LEMMA OpDone ==
    ASSUME Sane(st), NEW op \in st.ops
    PROVE  /\ op \in Op
           /\ Fine(st, [st EXCEPT !.ops = @ \ {op}])
           /\ [st EXCEPT !.ops = @ \ {op}] \in State
           /\ [st EXCEPT !.ops = @ \ {op}].alive = st.alive
           /\ [st EXCEPT !.ops = @ \ {op}].userStopped = st.userStopped
           /\ [st EXCEPT !.ops = @ \ {op}].ops = st.ops \ {op}
           /\ [st EXCEPT !.ops = @ \ {op}].pidFile = st.pidFile
           /\ [st EXCEPT !.ops = @ \ {op}].unnamed = st.unnamed
<1> DEFINE q == [st EXCEPT !.ops = @ \ {op}]
<1>1. op \in Op /\ st \in State
  BY DEF Sane, State
<1>2. /\ q \in State /\ q.alive = st.alive /\ q.pidFile = st.pidFile
      /\ q.unnamed = st.unnamed /\ q.ops = st.ops \ {op} /\ q.userStopped = st.userStopped
  BY <1>1 DEF State
<1> HIDE DEF q
<1>3. Fine(st, q)
  BY <1>2 DEF Fine, Sane, OpsSane
<1> QED
  BY <1>1, <1>2, <1>3 DEF q

\* A start whose process never came.
LEMMA ReadyGood ==
    ASSUME Sane(st), NEW op \in st.ops, ReadyWaitEnds(op)
    PROVE  Good
<1> DEFINE q == [st EXCEPT !.ops = @ \ {op}]
<1>1. Fine(st, q) /\ q \in State /\ op \in Op
  BY OpDone
<1>2. st' = OnServerStartFailed(q, op.w, op.silent)
  BY DEF ReadyWaitEnds, Loop
<1> HIDE DEF q
<1>3. op.w \in Widget /\ op.silent \in BOOLEAN
  BY <1>1 DEF Op
<1>4. Fine(st, OnServerStartFailed(q, op.w, op.silent))
  BY <1>1, <1>3, StartFailedSame, FineSame
<1> QED
  BY <1>2, <1>4, FineGood

\* A stop whose process is gone removes the PID file; one whose process is not sends
\* SIGKILL, or gives up.
LEMMA WaitGood ==
    ASSUME Sane(st), NEW op \in st.ops, NEW o \in Outcome,
           StopWaitEnds(op, o) \/ KillWaitEnds(op, o)
    PROVE  Good
<1> DEFINE q == [st EXCEPT !.ops = @ \ {op}]
           k == [op EXCEPT !.kind = "kill"]
           e == [q EXCEPT !.ops = @ \cup {k}]
<1>1. /\ Fine(st, q) /\ q \in State /\ op \in Op
      /\ q.alive = st.alive /\ q.userStopped = st.userStopped
      /\ q.ops = st.ops \ {op} /\ q.pidFile = st.pidFile /\ q.unnamed = st.unnamed
  BY OpDone
<1>2. op.kind # "ready"
  BY DEF StopWaitEnds, KillWaitEnds
<1>3. \/ op.pid \notin st.alive /\ st' = FinalizeStopped(q, op.w, op.then, o)
      \/ st' = e
      \/ st' = Finish(q, op.w, FALSE, op.then, o)
  BY DEF StopWaitEnds, KillWaitEnds, Loop
<1>4. op.w \in Widget /\ op.then \in {"nothing", "start"}
  BY <1>1 DEF Op
<1>5. k \in Op /\ k.kind = "kill" /\ k.then = op.then /\ k.pid = op.pid
  BY <1>1 DEF Op
<1>6. /\ st.alive \subseteq st.unnamed \cup {op.pid}
      /\ op.then = "start" => ~st.userStopped
  BY <1>2 DEF Sane, OpsSane
<1> HIDE DEF q, k
<1>7. Sane(q)
  BY <1>1 DEF Fine
<1>8. CASE op.pid \notin st.alive /\ st' = FinalizeStopped(q, op.w, op.then, o)
  <2>1. q.alive \subseteq q.unnamed
    BY <1>1, <1>6, <1>8
  <2>2. Fine(q, FinalizeStopped(q, op.w, op.then, o))
    BY <1>1, <1>4, <1>6, <1>7, <2>1, FinalizeFine
  <2> QED
    BY <1>1, <1>8, <2>2, FineTrans, FineGood
<1>9. CASE st' = e
  <2>1. /\ e \in State /\ e.alive = q.alive /\ e.pidFile = q.pidFile
        /\ e.unnamed = q.unnamed /\ e.ops = q.ops \cup {k} /\ e.userStopped = q.userStopped
    BY <1>1, <1>5 DEF State
  <2> HIDE DEF e
  <2>2. Fine(st, e)
    BY <1>1, <1>5, <1>6, <1>7, <2>1 DEF Fine, Sane, OpsSane
  <2> QED
    BY <1>9, <2>2, FineGood
<1>10. CASE st' = Finish(q, op.w, FALSE, op.then, o)
  <2>1. Fine(q, Finish(q, op.w, FALSE, op.then, o))
    BY <1>1, <1>4, <1>6, <1>7, FinishFine
  <2> QED
    BY <1>1, <1>10, <2>1, FineTrans, FineGood
<1> QED
  BY <1>3, <1>8, <1>9, <1>10

\* The poll of a receiver that died.
LEMMA PollGood ==
    ASSUME Sane(st), NEW w \in Widget, Poll(w)
    PROVE  Good
<1> DEFINE e == [st EXCEPT !.poll = @ \ {w}]
           r == ReconcileServerState(e, w)
           q == [r EXCEPT !.firewall = FALSE]
<1>1. Same(st, e) /\ e \in State
  BY DEF Same, State, Sane
<1>2. st' = ScheduleUnexpectedRestart(q, w) \/ st' = q
  BY DEF Poll, Loop
<1> HIDE DEF e
<1>3. Same(st, r) /\ r \in State
  BY <1>1, ReconcileSame, SameTrans DEF Same
<1> HIDE DEF r
<1>4. Same(r, q) /\ q \in State
  BY <1>3 DEF Same, State
<1> HIDE DEF q
<1>5. Same(st, q) /\ Same(st, ScheduleUnexpectedRestart(q, w))
  BY <1>3, <1>4, ScheduleSame, SameTrans
<1> QED
  BY <1>2, <1>5, SameFine, FineGood

\* The recovery checks again whether the user has stopped the receiver.
LEMMA RecoveryGood ==
    ASSUME Sane(st), NEW o \in Outcome, RunUnexpectedRestart(o)
    PROVE  Good
<1> DEFINE q == [st EXCEPT !.restart = FALSE, !.pending = FALSE]
           e == [q EXCEPT !.recovering = TRUE]
<1>0. "current" \in Widget
  BY DEF Widget
<1>1. /\ Same(st, q) /\ q \in State
  BY DEF Same, State, Sane
<1>2. \/ RecoveryAllowed(q) /\ st' = Start(e, "current", TRUE, TRUE, o)
      \/ st' = q
  BY DEF RunUnexpectedRestart, Loop
<1> HIDE DEF q
<1>3. Same(q, e)
  BY <1>1 DEF Same, State
<1>4. Fine(st, q) /\ Fine(st, e) /\ Sane(e)
  BY <1>1, <1>3, SameTrans, SameFine
<1>5. e.userStopped = q.userStopped
  BY <1>3 DEF Same
<1> HIDE DEF e
<1>6. CASE RecoveryAllowed(q) /\ st' = Start(e, "current", TRUE, TRUE, o)
  <2>1. ~e.userStopped
    BY <1>5, <1>6 DEF RecoveryAllowed, CanRecover
  <2>2. Fine(e, Start(e, "current", TRUE, TRUE, o))
    BY <1>0, <1>4, <2>1, StartFine
  <2> QED
    BY <1>4, <1>6, <2>2, FineTrans, FineGood
<1> QED
  BY <1>2, <1>4, <1>6, FineGood

\* The start after a sleep.
LEMMA ResumeGood ==
    ASSUME Sane(st), NEW o \in Outcome, ResumeTask(o)
    PROVE  Good
<1> DEFINE e == [st EXCEPT !.resume = FALSE]
<1>1. Same(st, e)
  BY DEF Same, State, Sane
<1>2. st' = RestartWhenReady(e, o)
  BY DEF ResumeTask, Loop
<1> HIDE DEF e
<1>3. Fine(st, e) /\ Sane(e)
  BY <1>1, SameFine
<1>4. Fine(e, RestartWhenReady(e, o))
  BY <1>3, RestartFine
<1> QED
  BY <1>2, <1>3, <1>4, FineTrans, FineGood

\* The start that waited for the network.
LEMMA ConnectedGood ==
    ASSUME Sane(st), NEW w \in Widget, NEW o \in Outcome, WhenConnected(w, o)
    PROVE  Good
<1> DEFINE e == [st EXCEPT !.whenConnected = @ \ {w}]
<1>1. Same(st, e)
  BY DEF Same, State, Sane
<1>2. \/ st' = e
      \/ ~st.userStopped /\ st' = Start(e, w, FALSE, FALSE, o)
  BY DEF WhenConnected, Loop
<1> HIDE DEF e
<1>3. Fine(st, e) /\ Sane(e)
  BY <1>1, SameFine
<1>4. CASE ~st.userStopped /\ st' = Start(e, w, FALSE, FALSE, o)
  <2>1. ~e.userStopped
    BY <1>3, <1>4 DEF Fine
  <2>2. Fine(e, Start(e, w, FALSE, FALSE, o))
    BY <1>3, <2>1, StartFine
  <2> QED
    BY <1>3, <1>4, <2>2, FineTrans, FineGood
<1> QED
  BY <1>2, <1>3, <1>4, FineGood

\* Stop forgets the operations under way, so that none of them starts the receiver.
LEMMA StopGood ==
    ASSUME Sane(st), Stop
    PROVE  Good
<1> DEFINE e == [st EXCEPT !.userStopped = TRUE]
           q == CancelUnexpectedRestart(e, "current", TRUE)
<1>0. "current" \in Widget /\ "ok" \in Outcome
  BY DEF Widget, Outcome
<1>1. e \in State /\ e.alive = st.alive /\ e.pidFile = st.pidFile /\ e.unnamed = st.unnamed
  BY DEF Sane, State
<1>2. st' = StopServer(q, "current", "nothing", "ok")
  BY DEF Stop, Loop
<1> HIDE DEF e
<1>3. Same(e, q)
  BY <1>0, <1>1, CancelSame
<1> HIDE DEF q
<1>4. Core(q) /\ q.alive = st.alive
  BY <1>1, <1>3 DEF Core, Same, Sane
<1>5. Fine(q, StopServer(q, "current", "nothing", "ok"))
  BY <1>0, <1>4, StopFine
<1> QED
  BY <1>2, <1>4, <1>5 DEF Good, Fine

\* The user turns the receiver on.
LEMMA ToggleGood ==
    ASSUME Sane(st), NEW o \in Outcome, ToggleOn(o)
    PROVE  Good
<1> DEFINE e == [st EXCEPT !.userStopped = FALSE]
<1>0. "current" \in Widget
  BY DEF Widget
<1>1. /\ e \in State /\ e.alive = st.alive /\ e.pidFile = st.pidFile /\ e.ops = st.ops
      /\ e.unnamed = st.unnamed /\ ~e.userStopped
  BY DEF Sane, State
<1>2. st' = StartWhenConnected(e, "current", FALSE, o)
  BY DEF ToggleOn, Loop
<1> HIDE DEF e
<1>3. Sane(e)
  BY <1>1 DEF Sane, OpsSane
<1>4. Fine(e, StartWhenConnected(e, "current", FALSE, o))
  BY <1>0, <1>1, <1>3, StartConnectedFine
<1> QED
  BY <1>1, <1>2, <1>4 DEF Good, Fine

\* The user asks for a restart.
LEMMA RestartGood ==
    ASSUME Sane(st), NEW o \in Outcome, Restart(o)
    PROVE  Good
<1> DEFINE e == [st EXCEPT !.userStopped = FALSE]
           c == CancelUnexpectedRestart(e, "current", TRUE)
           q == [c EXCEPT !.intended = TRUE]
<1>0. "current" \in Widget /\ st \in State
  BY DEF Widget, Sane
<1>1. /\ e \in State /\ e.alive = st.alive /\ e.pidFile = st.pidFile /\ e.ops = st.ops
      /\ e.unnamed = st.unnamed /\ ~e.userStopped
  BY <1>0 DEF State
<1>2. \/ st' = StopServer(q, "current", "start", o)
      \/ st' = Start(q, "current", FALSE, FALSE, o)
  BY DEF Restart, Loop
<1> HIDE DEF e
<1>3. Sane(e)
  BY <1>1 DEF Sane, OpsSane
<1>4. Same(e, c) /\ c \in State
  BY <1>0, <1>1, CancelSame DEF Same
<1> HIDE DEF c
<1>5. Same(c, q)
  BY <1>4 DEF Same, State
<1> HIDE DEF q
<1>6. Same(e, q)
  BY <1>4, <1>5, SameTrans
<1>7. Sane(q) /\ ~q.userStopped /\ Core(q)
  BY <1>1, <1>3, <1>6, SameSane DEF Same, Sane, Core
<1>8. Fine(q, StopServer(q, "current", "start", o))
  BY <1>0, <1>7, StopFine
<1>9. Fine(q, Start(q, "current", FALSE, FALSE, o))
  BY <1>0, <1>7, StartFine
<1> QED
  BY <1>2, <1>7, <1>8, <1>9 DEF Good, Fine

\* Another widget takes over, and KOReader starts.
LEMMA WidgetGood ==
    ASSUME Sane(st), NEW o \in Outcome, SwitchWidget(o) \/ KOReaderStarts(o)
    PROVE  Good
<1> DEFINE e == [OnCloseWidget(st) EXCEPT !.registered = FALSE]
<1>1. Fine(st, e) /\ Sane(e)
  BY CloseFine DEF Fine
<1>2. st' = WidgetInit(e, o) \/ st' = WidgetInit(st, o)
  BY DEF SwitchWidget, KOReaderStarts, Loop
<1> HIDE DEF e
<1>3. Fine(e, WidgetInit(e, o)) /\ Fine(st, WidgetInit(st, o))
  BY <1>1, WidgetInitFine
<1>4. Fine(st, WidgetInit(e, o))
  BY <1>1, <1>3, FineTrans
<1> QED
  BY <1>2, <1>3, <1>4, FineGood

\* Sleep and waking up.
LEMMA PowerGood ==
    ASSUME Sane(st),
           \/ \E kind \in {"suspend", "standby"}, killed \in BOOLEAN : Sleep(kind, killed)
           \/ \E o \in Outcome : Wake(o)
    PROVE  Good
<1>1. Fine(st, st)
  BY DEF Fine
<1>2. ASSUME NEW kind \in {"suspend", "standby"}, NEW killed \in BOOLEAN, Sleep(kind, killed)
      PROVE  Good
  <2>1. st' = StopForSleep(st, kind, killed) \/ st' = st
    BY <1>2 DEF Sleep
  <2> QED
    BY <1>1, <2>1, SleepFine, FineGood
<1>3. ASSUME NEW o \in Outcome, Wake(o)
      PROVE  Good
  <2>1. st' = RestartWhenReady(st, o) \/ st' = st
    BY <1>3 DEF Wake
  <2> QED
    BY <1>1, <2>1, RestartFine, FineGood
<1> QED
  BY <1>2, <1>3

\* The network comes and goes.
LEMMA NetworkGood ==
    ASSUME Sane(st),
           \/ \E killed \in BOOLEAN : NetworkDisconnecting(killed) \/ NetworkDisconnected(killed)
           \/ \E o \in Outcome : NetworkConnected(o)
           \/ LinkLost \/ LinkUp
    PROVE  Good
<1>0. Fine(st, st) /\ st \in State /\ "current" \in Widget
  BY DEF Fine, Sane, Widget
<1>1. ASSUME NEW q, Fine(st, q), NEW b \in BOOLEAN, st' = [q EXCEPT !.connected = b]
      PROVE  Good
  <2> DEFINE e == [q EXCEPT !.connected = b]
  <2>1. Same(q, e)
    BY <1>1 DEF Same, State, Fine, Sane
  <2> HIDE DEF e
  <2>2. Fine(st, e)
    BY <1>1, <2>1, FineSame
  <2> QED
    BY <1>1, <2>2, FineGood DEF e
<1>2. ASSUME NEW killed \in BOOLEAN, NetworkDisconnecting(killed)
      PROVE  Good
  <2>1. \E q : Fine(st, q) /\ st' = [q EXCEPT !.connected = FALSE]
    BY <1>0, <1>2, DisconnectFine DEF NetworkDisconnecting
  <2> QED
    BY <1>1, <2>1
<1>3. ASSUME NEW killed \in BOOLEAN, NetworkDisconnected(killed)
      PROVE  Good
  <2> DEFINE q == CancelUnexpectedRestart(st, "current", FALSE)
             e == [q EXCEPT !.beforeDisconnect = TRUE]
  <2>1. st' = st \/ st' = StopServerSync(e, "current", killed) \/ st' = q
    BY <1>3 DEF NetworkDisconnected
  <2>2. Same(st, q) /\ q \in State
    BY <1>0, CancelSame DEF Same
  <2> HIDE DEF q
  <2>3. Same(q, e)
    BY <2>2 DEF Same, State
  <2> HIDE DEF e
  <2>4. Fine(st, q) /\ Fine(st, e) /\ Sane(e)
    BY <2>2, <2>3, SameTrans, SameFine
  <2>5. Fine(e, StopServerSync(e, "current", killed))
    BY <1>0, <2>4, StopSyncFine
  <2>6. Fine(st, StopServerSync(e, "current", killed))
    BY <2>4, <2>5, FineTrans
  <2> QED
    BY <1>0, <2>1, <2>4, <2>6, FineGood
<1>4. ASSUME NEW o \in Outcome, NetworkConnected(o)
      PROVE  Good
  <2>1. st' = RestartWhenReady(st, o) \/ st' = st
    BY <1>4 DEF NetworkConnected
  <2> QED
    BY <1>0, <2>1, RestartFine, FineGood
<1>5. CASE LinkLost \/ LinkUp
  BY <1>0, <1>1, <1>5 DEF LinkLost, LinkUp
<1> QED
  BY <1>2, <1>3, <1>4, <1>5

\* KOReader ends.
LEMMA EndGood ==
    ASSUME Sane(st), Crash \/ \E killed \in BOOLEAN : Exit(killed)
    PROVE  Good
<1>1. CASE Crash
  <2>1. st' = Left(st)
    BY <1>1 DEF Crash
  <2> QED
    BY <2>1, LeftSane DEF Good
<1>2. ASSUME NEW killed \in BOOLEAN, Exit(killed)
      PROVE  Good
  <2> DEFINE q == OnExit(st, killed)
  <2>1. st' = Left(q)
    BY <1>2 DEF Exit
  <2>2. Fine(st, q)
    BY ExitFine
  <2> HIDE DEF q
  <2>3. Sane(Left(q)) /\ Left(q).userStopped = FALSE
    BY <2>2, LeftSane DEF Fine, Left, Fresh
  <2> QED
    BY <2>1, <2>3 DEF Good
<1> QED
  BY <1>1, <1>2

\* Prompts, discovery, time and processes that die.
LEMMA SmallGood ==
    ASSUME Sane(st),
           \/ \E w \in Widget : PromptDeclined(w)
           \/ ScanBegins \/ ScanEnds \/ TimePasses
           \/ \E x \in Proc : ProcessExits(x)
    PROVE  Good
<1>0. st \in State /\ "current" \in Widget
  BY DEF Sane, Widget
<1>1. ASSUME NEW w \in Widget, PromptDeclined(w)
      PROVE  Good
  <2>1. Same(st, st')
    BY <1>0, <1>1 DEF PromptDeclined, Loop, Same, State
  <2> QED
    BY <2>1, SameFine, FineGood
<1>2. CASE ScanBegins
  <2> DEFINE e == [st EXCEPT !.scanning = TRUE]
  <2>1. Same(st, e) /\ e \in State
    BY <1>0 DEF Same, State
  <2>2. st' = RegisterEvents(e, "current")
    BY <1>2 DEF ScanBegins, Loop
  <2> HIDE DEF e
  <2>3. Same(st, RegisterEvents(e, "current"))
    BY <1>0, <2>1, RegisterEventsSame, SameTrans
  <2> QED
    BY <2>2, <2>3, SameFine, FineGood
<1>3. CASE ScanEnds
  BY <1>0, <1>3, FinishScanSame, SameFine, FineGood DEF ScanEnds, Loop
<1>4. CASE TimePasses
  <2>1. Same(st, st')
    BY <1>0, <1>4 DEF TimePasses, Loop, Same, State
  <2> QED
    BY <2>1, SameFine, FineGood
<1>5. ASSUME NEW x \in Proc, ProcessExits(x)
      PROVE  Good
  <2>1. /\ st' \in State /\ st'.alive = st.alive \ {x} /\ st'.pidFile = st.pidFile
        /\ st'.unnamed = st.unnamed \ {x}
        /\ st'.ops = st.ops /\ st'.userStopped = st.userStopped
    BY <1>0, <1>5 DEF ProcessExits, State
  <2> QED
    BY <2>1 DEF Good, Sane, OpsSane
<1> QED
  BY <1>1, <1>2, <1>3, <1>4, <1>5

\* KOReader's own state stays of its type.
LEMMA ModeStep ==
    ASSUME mode \in {"awake", "asleep", "gone"},
           notice \in {None, "connected", "disconnected"}, Next
    PROVE  /\ mode' \in {"awake", "asleep", "gone"}
           /\ notice' \in {None, "connected", "disconnected"}
<1> DEFINE Typed == /\ mode' \in {"awake", "asleep", "gone"}
                    /\ notice' \in {None, "connected", "disconnected"}
<1>1. Tasks => Typed
  BY DEF Tasks, ReadyWaitEnds, StopWaitEnds, KillWaitEnds, Poll, RunUnexpectedRestart,
         ResumeTask, NetworkDisconnected, NetworkConnected, Loop
<1>2. NilTaskRuns \/ Crash => Typed
  BY DEF NilTaskRuns, Crash
<1>3. ASSUME NEW o \in Outcome,
             \/ \E w \in Widget : WhenConnected(w, o)
             \/ SwitchWidget(o) \/ ToggleOn(o) \/ Restart(o) \/ Wake(o) \/ KOReaderStarts(o)
      PROVE  Typed
  BY <1>3 DEF WhenConnected, SwitchWidget, ToggleOn, Restart, Wake, KOReaderStarts, Loop
<1>4. Stop \/ (\E w \in Widget : PromptDeclined(w)) \/ ScanBegins \/ ScanEnds => Typed
  BY DEF Stop, PromptDeclined, ScanBegins, ScanEnds, Loop
<1>5. ASSUME NEW killed \in BOOLEAN,
             \/ \E kind \in {"suspend", "standby"} : Sleep(kind, killed)
             \/ NetworkDisconnecting(killed) \/ Exit(killed)
      PROVE  Typed
  BY <1>5 DEF Sleep, NetworkDisconnecting, Exit
<1>6. LinkLost \/ LinkUp \/ TimePasses \/ (\E x \in Proc : ProcessExits(x)) => Typed
  BY DEF LinkLost, LinkUp, TimePasses, ProcessExits, Loop
<1> QED
  BY <1>1, <1>2, <1>3, <1>4, <1>5, <1>6 DEF Next

\* Every step of the plugin is good.
LEMMA NextGood ==
    ASSUME Sane(st), Next
    PROVE  Good
<1>1. CASE Tasks
  BY <1>1, ReadyGood, WaitGood, PollGood, RecoveryGood, ResumeGood, NetworkGood DEF Tasks
<1>2. CASE NilTaskRuns \/ Crash
  BY <1>2, EndGood DEF NilTaskRuns
<1>3. ASSUME NEW o \in Outcome,
             \/ \E w \in Widget : WhenConnected(w, o)
             \/ SwitchWidget(o) \/ ToggleOn(o) \/ Restart(o) \/ Wake(o) \/ KOReaderStarts(o)
      PROVE  Good
  BY <1>3, ConnectedGood, WidgetGood, ToggleGood, RestartGood, PowerGood
<1>4. CASE Stop
  BY <1>4, StopGood
<1>5. ASSUME NEW killed \in BOOLEAN,
             \/ \E kind \in {"suspend", "standby"} : Sleep(kind, killed)
             \/ NetworkDisconnecting(killed) \/ Exit(killed)
      PROVE  Good
  BY <1>5, PowerGood, NetworkGood, EndGood
<1>6. CASE LinkLost \/ LinkUp
  BY <1>6, NetworkGood
<1>7. CASE \/ \E w \in Widget : PromptDeclined(w)
           \/ ScanBegins \/ ScanEnds \/ TimePasses
           \/ \E x \in Proc : ProcessExits(x)
  BY <1>7, SmallGood
<1> QED
  BY <1>1, <1>2, <1>3, <1>4, <1>5, <1>6, <1>7 DEF Next

\* The invariant holds from KOReader's first start on.
LEMMA PluginInvariant == Spec => []PInv
<1>1. ASSUME Init
      PROVE  PInv
  <2>1. PICK c \in BOOLEAN : st = Fresh({}, None, {}, FALSE, c)
    BY <1>1 DEF Init
  <2>2. 0 \in 0 .. MaxAttempts
    BY PluginAssumption
  <2>3. st \in State /\ st.alive = {} /\ st.ops = {}
    BY <2>1, <2>2 DEF Fresh, State
  <2> QED
    BY <1>1, <2>3 DEF Init, PInv, Sane, OpsSane
<1>2. ASSUME PInv, [Next]_vars
      PROVE  PInv'
  <2>1. CASE Next
    BY <1>2, <2>1, ModeStep, NextGood DEF PInv, Good
  <2>2. CASE UNCHANGED vars
    BY <1>2, <2>2 DEF PInv, vars, Sane, OpsSane
  <2> QED
    BY <1>2, <2>1, <2>2
<1> QED
  BY <1>1, <1>2, PTL DEF Spec

\* The state of localsend_server.lua and of the tasks stays within its type; the restart
\* attempts never pass SERVER_RESTART_MAX_ATTEMPTS.
THEOREM PluginTypes == Spec => []TypeOK
<1>1. PInv => TypeOK
  BY DEF PInv, Sane, TypeOK
<1> QED
  BY <1>1, PluginInvariant, PTL

\* However starts, stops, restarts, recoveries, sleeps and widget changes overlap, the PID
\* file names every receiver, and so only one, but those whose PID could not be written.
THEOREM SingleReceiver == Spec => []OneReceiver
<1>1. PInv => OneReceiver
  BY DEF PInv, Sane, OneReceiver
<1> QED
  BY <1>1, PluginInvariant, PTL

\* Once the user has stopped the receiver no step launches one: not a recovery, a resume,
\* a reconnection, nor a callback that was under way.
THEOREM StopIsRespected == Spec => UserStopRespected
<1>1. ASSUME PInv, [Next]_vars
      PROVE  [st'.alive \subseteq st.alive \/ ~st'.userStopped]_vars
  <2>1. CASE Next
    BY <1>1, <2>1, NextGood DEF PInv, Good
  <2>2. CASE UNCHANGED vars
    BY <2>2
  <2> QED
    BY <1>1, <2>1, <2>2
<1> QED
  BY <1>1, PluginInvariant, PTL DEF Spec, UserStopRespected

=============================================================================
