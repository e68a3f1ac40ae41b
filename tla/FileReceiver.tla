---------------------------- MODULE FileReceiver ----------------------------
(***************************************************************************)
(* The HTTP receiver as a process: start and stop (recv/recv.go, and RunE   *)
(* of cmd/recv), the connections it serves with their limits               *)
(* (utils/connlimit.go), the PIN check with its limiter (utils/ratelimit.go), *)
(* and what is kept beside an upload: the transfer log, the commands run    *)
(* after it, and the activity marker (cmd/recv/activity.go).  Discovery     *)
(* runs beside it.  What an upload does is the subject of RecvSessions.     *)
(*                                                                         *)
(* Discovery and requests meet only in Stop.  To keep their product small,  *)
(* a behaviour exercises one of them: either the multicast sockets can be   *)
(* bound, or clients connect (scene).                                       *)
(***************************************************************************)
EXTENDS Discovery, Functions

CONSTANTS
    IP, Loopback,           \* addresses of clients
    MaxTotal, MaxPerIP,     \* MaxConnections, MaxConnectionsPerIP
    MaxPINAttempts,
    CmdSlots                \* capacity of cmdSlots

ASSUME ReceiverAssumption ==
    /\ IsFiniteSet(IP) /\ Loopback \in IP
    /\ MaxTotal \in Nat \ {0} /\ MaxPerIP \in Nat \ {0}
    /\ MaxPINAttempts \in Nat \ {0} /\ CmdSlots \in Nat

VARIABLES
    scene,       \* "discovery" or "requests"
    process,     \* RunE: "run", "exit"
    start,       \* Start: "init", "serve", "stopping", "returned"
    stop         \* Stop: "idle", "discovery", "wait", "drain", "done"

VARIABLES
    conns,            \* number of open connections, by address and what they do
    closed,           \* addresses with a closed connection that may be closed again
    total, perIP,     \* counters of the connLimiter
    attempts          \* the RateLimiter's failed attempts by address

VARIABLES
    logOpen,     \* the transfer log is open
    commands,    \* commands that run
    active,      \* uploads counted by the activity marker
    marker       \* the marker file exists

lifeVars == <<scene, process, start, stop>>
connVars == <<conns, closed, total, perIP, attempts>>
sideVars == <<logOpen, commands, active, marker>>
vars == <<discVars, rebindVars, scanVars, lifeVars, connVars, sideVars>>

ConnState == {"idle", "checked", "upload", "saved"}

Uploads(i) == conns[i]["upload"] + conns[i]["saved"]
Open(i)    == conns[i]["idle"] + conns[i]["checked"] + Uploads(i)

TypeOK ==
    /\ DiscoveryTypeOK
    /\ scene \in {"discovery", "requests"} /\ process \in {"run", "exit"}
    /\ start \in {"init", "serve", "stopping", "returned"}
    /\ stop \in {"idle", "discovery", "wait", "drain", "done"}
    /\ conns \in [IP -> [ConnState -> Nat]] /\ closed \subseteq IP
    /\ total \in 0 .. MaxTotal /\ perIP \in [IP -> 0 .. MaxPerIP] /\ attempts \in [IP -> Nat]
    /\ logOpen \in BOOLEAN /\ marker \in BOOLEAN
    /\ commands \in 0 .. CmdSlots /\ active \in Nat

\* The receiver is initialized.
Init ==
    /\ DiscoveryInit
    /\ scene \in {"discovery", "requests"}
    /\ process = "run" /\ start = "init" /\ stop = "idle"
    /\ conns = [i \in IP |-> [s \in ConnState |-> 0]] /\ closed = {}
    /\ total = 0 /\ perIP = [i \in IP |-> 0] /\ attempts = [i \in IP |-> 0]
    /\ logOpen = TRUE /\ commands = 0 /\ active = 0 /\ marker = FALSE

Stopped == stop # "idle"
Ready   == start = "serve" \/ (start = "stopping" /\ rebinder # "off")

-----------------------------------------------------------------------------
(* Start and Stop.                                                         *)

\* With a cancelled context, or an address it cannot bind, Start stops the receiver.
StartFails ==
    /\ start = "init"
    /\ start' = "stopping"
    /\ UNCHANGED <<discVars, rebindVars, scanVars, scene, process, stop, connVars, sideVars>>

\* Otherwise it listens, tries to bind discovery for the first time and starts the loop.
StartServes ==
    /\ start = "init" /\ ~cancelled
    /\ start' = "serve" /\ rebinder' = "look"
    /\ \/ /\ scene = "discovery"
          /\ CreateDiscoverer(NextDisc) /\ InstallDiscoverer(NextDisc)
       \/ UNCHANGED <<sock, shares, previous, current, woken>>
    /\ UNCHANGED <<table, answering, mine, errors, cancelled, scan, seen, legacy, result,
                   confirmed, gathered, scene, process, stop, connVars, sideVars>>

\* The web server returns when its listener is closed or fails; Start then stops the
\* receiver, if nobody else has.
ServerReturns ==
    /\ start = "serve"
    /\ start' = "stopping"
    /\ UNCHANGED <<discVars, rebindVars, scanVars, scene, process, stop, connVars, sideVars>>

\* Stop runs once: called by Start, or by the function attached to the runtime context.
\* New accepts, the loop's context and the sessions end first.
StopBegins ==
    /\ stop = "idle"
    /\ start = "stopping" \/ (start = "serve" /\ cancelled)
    /\ stop' = "discovery" /\ cancelled' = TRUE
    /\ UNCHANGED <<discVars, current, previous, rebinder, mine, errors, scanVars, scene, process,
                   start, connVars, sideVars>>

StopDiscovery ==
    /\ stop = "discovery" /\ stop' = "wait"
    /\ IF current = None THEN UNCHANGED sock ELSE Shutdown(current)
    /\ UNCHANGED <<shares, table, answering, rebindVars, scanVars, scene, process, start,
                   connVars, sideVars>>

\* discoveryWG.Wait, then closeTransferLog.
DiscoveryStopped ==
    /\ stop = "wait" /\ rebinder \in {"off", "exit"}
    /\ stop' = "drain" /\ logOpen' = FALSE
    /\ UNCHANGED <<discVars, rebindVars, scanVars, scene, process, start, connVars, commands,
                   active, marker>>

\* The commands have ended, or five seconds have passed; then the same for the
\* connections (ShutdownWithContext).
Drained ==
    /\ stop = "drain" /\ stop' = "done"
    /\ UNCHANGED <<discVars, rebindVars, scanVars, scene, process, start, connVars, sideVars>>

StartReturns ==
    /\ start = "stopping" /\ stop = "done"
    /\ start' = "returned"
    /\ UNCHANGED <<discVars, rebindVars, scanVars, scene, process, stop, connVars, sideVars>>

LifeStep ==
    \/ StartFails \/ StartServes \/ StopBegins \/ StopDiscovery \/ DiscoveryStopped \/ Drained
    \/ StartReturns

\* A signal cancels the context of the process.
Signal ==
    /\ ~cancelled /\ cancelled' = TRUE
    /\ UNCHANGED <<discVars, current, previous, rebinder, mine, errors, scanVars, lifeVars,
                   connVars, sideVars>>

\* RunE returns when Start has, and removes the marker.  That it also returns five
\* seconds after a signal is left out: whatever still runs then ends with the process.
ProcessExits ==
    /\ start = "returned"
    /\ process' = "exit" /\ active' = 0 /\ marker' = FALSE
    /\ UNCHANGED <<discVars, rebindVars, scanVars, scene, start, stop, connVars, logOpen, commands>>

-----------------------------------------------------------------------------
(* Connections: limitedListener and limitedConn.                           *)

Count(i) == IF i = Loopback THEN 0 ELSE 1    \* loopback peers count only for the total

\* A connection from i goes from one state to another.
Move(i, s, u) ==
    conns[i][s] > 0 /\ conns' = [conns EXCEPT ![i][s] = @ - 1, ![i][u] = @ + 1]

AcquireLate(i) == total <= MaxTotal /\ (i # Loopback => perIP[i] <= MaxPerIP)    \* mutant

Acquire(i) == total < MaxTotal /\ (i # Loopback => perIP[i] < MaxPerIP)

\* Connections over a limit are closed at once, before a byte is read.
Accept(i) ==
    /\ scene = "requests" /\ start = "serve" /\ ~Stopped
    /\ Acquire(i)
    /\ conns' = [conns EXCEPT ![i]["idle"] = @ + 1]
    /\ total' = total + 1 /\ perIP' = [perIP EXCEPT ![i] = @ + Count(i)]
    /\ UNCHANGED <<discVars, rebindVars, scanVars, lifeVars, closed, attempts, sideVars>>

Release(i) ==
    /\ total' = total - 1
    /\ perIP' = [perIP EXCEPT ![i] = IF @ <= 1 THEN 0 ELSE @ - 1]

\* The client, the server or a deadline closes a connection between requests.
CloseConn(i) ==
    /\ conns[i]["idle"] > 0 /\ conns' = [conns EXCEPT ![i]["idle"] = @ - 1]
    /\ closed' = closed \cup {i}
    /\ Release(i)
    /\ UNCHANGED <<discVars, rebindVars, scanVars, lifeVars, attempts, sideVars>>

ReleaseAgain(i) == Release(i)                                        \* mutant

ReleaseOnce(i) == UNCHANGED <<total, perIP>>

\* Close is called again, by TLS, the server or its shutdown: releaseOnce.
CloseAgain(i) ==
    /\ i \in closed /\ closed' = closed \ {i}
    /\ ReleaseOnce(i)
    /\ UNCHANGED <<discVars, rebindVars, scanVars, lifeVars, conns, attempts, sideVars>>

-----------------------------------------------------------------------------
(* validatePIN: the limiter is asked, then the PIN compared, then counted.  *)

BlockedLate(i) == attempts[i] > MaxPINAttempts                       \* mutant

IsBlocked(i) == attempts[i] >= MaxPINAttempts

AskLimiter(i) ==
    /\ ~IsBlocked(i)
    /\ Move(i, "idle", "checked")
    /\ UNCHANGED <<discVars, rebindVars, scanVars, lifeVars, closed, total, perIP, attempts,
                   sideVars>>

\* A wrong PIN is recorded; a missing one is only a challenge; a right one clears.
ComparePIN(i) ==
    /\ Move(i, "checked", "idle")
    /\ \E n \in {attempts[i] + 1, attempts[i], 0} : attempts' = [attempts EXCEPT ![i] = n]
    /\ UNCHANGED <<discVars, rebindVars, scanVars, lifeVars, closed, total, perIP, sideVars>>

\* The time of an entry is over: IsBlocked and CleanupExpired forget it.
ForgetAttempts(i) ==
    /\ attempts[i] > 0 /\ attempts' = [attempts EXCEPT ![i] = 0]
    /\ UNCHANGED <<discVars, rebindVars, scanVars, lifeVars, conns, closed, total, perIP, sideVars>>

-----------------------------------------------------------------------------
(* An upload, as seen by the log, the commands and the marker.             *)

\* activity.Begin: the first upload makes the marker.
BeginUpload(i) ==
    /\ Move(i, "idle", "upload")
    /\ active' = active + 1 /\ marker' = TRUE
    /\ UNCHANGED <<discVars, rebindVars, scanVars, lifeVars, closed, total, perIP, attempts,
                   logOpen, commands>>

\* LogTransfer: a command is started unless Stop has begun or all slots are taken.
LogTransfer(i) ==
    /\ Move(i, "upload", "saved")
    /\ commands' = IF Stopped \/ commands = CmdSlots THEN commands ELSE commands + 1
    /\ UNCHANGED <<discVars, rebindVars, scanVars, lifeVars, closed, total, perIP, attempts,
                   logOpen, active, marker>>

\* activity.End, whether the file was saved or not.
EndUpload(i) ==
    /\ \E s \in {"upload", "saved"} : Move(i, s, "idle")
    /\ active' = active - 1 /\ marker' = (active > 1)
    /\ UNCHANGED <<discVars, rebindVars, scanVars, lifeVars, closed, total, perIP, attempts,
                   logOpen, commands>>

CommandEnds ==
    /\ commands > 0 /\ commands' = commands - 1
    /\ UNCHANGED <<discVars, rebindVars, scanVars, lifeVars, connVars, logOpen, active, marker>>

RequestStep ==
    \/ \E i \in IP : \/ Accept(i) \/ CloseConn(i) \/ CloseAgain(i)
                     \/ AskLimiter(i) \/ ComparePIN(i) \/ ForgetAttempts(i)
                     \/ BeginUpload(i) \/ LogTransfer(i) \/ EndUpload(i)
    \/ CommandEnds

-----------------------------------------------------------------------------
(* The process.                                                            *)

Outer == UNCHANGED <<lifeVars, connVars, sideVars>>

ScanIsReady ==
    /\ scan = "ready" /\ Ready
    /\ scan' = "read"
    /\ UNCHANGED <<discVars, rebindVars, seen, woken, legacy, result, confirmed, gathered>>

DiscoveryStep ==
    \/ scene = "discovery" /\ RebindCreate
    \/ ReceiveFails \/ DatagramIgnored
    \/ scene = "discovery" /\ (ScanStep \/ ScanIsReady)
    \/ \E d \in Disc : \E p \in Device :
           Announcement(d, p) \/ ResponseConfirmed(d, p) \/ ResponseFails(d, p)
    \/ \E p \in Device : start = "serve" /\ RegisterDevice(p)

Next ==
    /\ process = "run"
    /\ \/ LifeStep \/ ServerReturns \/ Signal \/ ProcessExits \/ RequestStep
       \/ (RebindStep \/ ShutdownHook \/ DiscoveryStep) /\ Outer

Spec == Init /\ [][Next]_vars

\* The goroutines of Start, Stop and the loop are scheduled, and so is the function that
\* the loop attached to its context.  The web server returns once its listener is closed.
Fairness ==
    /\ WF_vars(process = "run" /\ LifeStep)
    /\ WF_vars(process = "run" /\ Stopped /\ ServerReturns)
    /\ WF_vars(process = "run" /\ (RebindStep \/ ShutdownHook) /\ Outer)

FairSpec == Spec /\ Fairness

-----------------------------------------------------------------------------
(* What the receiver promises.                                             *)

\* The counters agree with what they count, however connections end: the limiter's with
\* the open connections, the marker's with the uploads.
CountersMatch ==
    /\ total = SumFunction([i \in IP |-> Open(i)])
    /\ \A i \in IP \ {Loopback} : perIP[i] = Open(i)
    /\ process = "run" =>
           /\ active = SumFunction([i \in IP |-> Uploads(i)])
           /\ marker = (active > 0)

\* Requests in parallel can pass the check before any of them is counted, but the limit
\* on connections bounds them: between two clearings an address fails at most
\* MaxPINAttempts - 1 + MaxPerIP times (validatePIN, acquire).
GuessBudget == \A i \in IP \ {Loopback} : attempts[i] < MaxPINAttempts + MaxPerIP

\* A stop that has begun is completed, with every multicast socket closed and the log
\* closed, although the loop may bind a new Discoverer while Stop looks for the current
\* one.
StopCompletes ==
    Stopped ~> (stop = "done" /\ ~logOpen /\ \A d \in Disc : sock[d] # "open")
=============================================================================
