# A TLA+ model of localsend.koplugin

localsend.koplugin lets an e-reader that runs KOReader exchange files with
LocalSend devices. It consists of a Go backend (`localsend-cli`: HTTP receiver and
sender, WebRTC receiver and sender, discovery) and a Lua plugin that starts and
supervises the backend. This project models the parts in which several actors
meet, checks them with TLC and proves the most important results with TLAPS.

Paths below are relative to `src/`.

## Inventory

| Component | State it keeps | Operations | What makes it correct | Modelled |
|---|---|---|---|---|
| HTTP receive sessions (`internal/localsend/session`) | the session map, per session: client, files, count of open files, last activity; per file: state, attempts, path | admission, start, save a file, settle it, cancel, vacuum | accepted files are settled once, acknowledged ones are on disk and stay there; one active session; every session is reclaimed | `RecvSessions` |
| HTTP handlers (`internal/localsend/recv/handlers.go`) | one goroutine per request, idle deadline of the body | prepare-upload, upload, cancel; register, info, nonce | every request is answered | `RecvSessions` (the first three) |
| Unique names (`internal/utils/files.go`, `folderremap.go`) | suffix hints, folder remap of a session | create the first free name; choose a free root folder | nothing on disk is overwritten; one folder per session | `RecvSessions` |
| WebRTC receiver (`internal/webrtc/transfer/receiver.go`) | handshake state, the held connection, tokens, file being written, watchdog, blocked peers | accept an offer, one handler per message, close, watchdog | one session at a time; success is told only for saved files; no partial file stays; never busy for ever | `RTCReceiver` |
| WebRTC sender (`.../sender.go`) | handshake state, channels between read loop and command, send queue | Send, SendFiles, handlers, Close | success is reported only if everything accepted was saved; no lost acknowledgement | `RTCSender` |
| WebRTC peer connection (`.../peer.go`, `rtc_protocol.go`) | data channel, closed flag | send, receive, close | ordered, reliable delivery until an end closes | `RTCWire` |
| FileReceiver lifecycle (`internal/localsend/recv/recv.go`, `scan.go`) | web server, runtime context, wait groups, command slots, log | Start, Stop, LogTransfer, rebind loop, Scan | Stop completes whenever it comes; no socket outlives it; a scan survives a rebind | `FileReceiver`, `Discovery` |
| PIN rate limiter (`internal/utils/ratelimit.go`) | failed attempts per address | check, record, clear, expire | guesses of an address are bounded, parallel requests included | `FileReceiver` |
| Nonce cache (`internal/localsend/nonce_cache.go`) | 200 nonces in LRU order | add, take | one use, bounded | no |
| Connection limiter (`internal/localsend/utils/connlimit.go`) | totals, also per IP | accept, close | counts equal open connections, each released once | `FileReceiver` |
| Activity marker (`cmd/recv/activity.go`) | counter and a file | begin, end, close | the file exists exactly while something is active | `FileReceiver` |
| Forward sender (`internal/localsend/send/fwdsend.go`) | session, abort flag, tracked connections, workers, sliding deadlines | Start (prepare, upload with retry), Cancel | nil means sent; cancel leaves no connection; a failure frees the receiver; Start returns | `ForwardSender` |
| Reverse sender (`.../rvsend.go`) | share sessions | list, download | - | no |
| Discovery (`internal/localsend/scan.go`, `discovery_scan.go`, `localsend.go`) | sockets, device table, answers under way | bind, listen, answer, probe, scan, shut down | a scan loses no confirmed device; answers are bounded, one per device | `Discovery` |
| Control socket (`internal/control/control.go`) | lock file, socket | own, serve, release | one owner | no |
| Signaling client (`internal/webrtc/signaling`) | offer and send channels, answer callbacks, done | connect, read loop, write loop, offer, answer, close | offers are served, the reader is not stuck, an answer finds its waiter | `SignalingClient`, `Signaling` |
| Reconnect loop (`cmd/recv/recv.go`) | current client and receiver, ID file | connect, listen, serve, close, retry | an old receiver holds no session | `Signaling` |
| Trusted devices (`internal/storage`) | at most 100 keys, a file | add, remove, evict, save | memory and disk agree | no |
| Plugin server lifecycle, power (`lua/localsend_server.lua`, `localsend_power.lua`, `localsend_state.lua`) | operation id, intent, restart counter, holds | start, asynchronous stop, unexpected exit, suspend, resume | late callbacks do nothing; one receiver at most; what the user wants is what runs, a crash, a sleep or a widget change in between; standby is not held for ever | `PluginServer`, without the holds |
| Plugin sending, discovery, transfers (`lua/localsend_sender.lua`, ...) | supervised processes, log offset | start, poll, cancel | every process is reaped, every line shown once | no, last in the plan |
| Firewall, update, dialogs, diagnostics, i18n, tools; JSON records; cryptography | - | - | - | not modelled: external commands, presentation, pure functions |

How they interact. The plugin starts the backend as a process and reads its marker
and log files. In the backend, HTTP handlers call the session manager; the command
`recv` connects the signaling client to a WebRTC receiver; both receive paths share
the name allocator, the activity marker and the transfer log. Hard behaviours: one
goroutine per request and per data channel, with locks released around callbacks
and file system calls; senders that vanish, repeat or stay silent; timeouts of
different length that guard the same thing (1 minute for a session, 2 minutes for
an upload body); frames of an old connection; retries; channels that are full when
their reader has gone; sockets that are replaced while they are in use; a stop or a
cancellation that meets what is just being created.

The hazards, each with its line and the properties aimed at it, are in
`PROJECT.json`.

## Modules

| Module | Content |
|---|---|
| `Delivery` | abstract specification: a file is settled at most once, stored or failed; stored is for good; only stored files are acknowledged |
| `RecvSessions` | the HTTP receive path |
| `RecvSessions_proofs` | theorems about `RecvSessions`: types, finished files, `Delivery` |
| `RecvFiles_proofs` | extends it: partial files, folders, the count of open files, exclusion |
| `MCRecvSessions` | instances for TLC |
| `RTCWire` | frames, channels and ends of WebRTC connections |
| `RTCReceiver`, `RTCSender` | the two state machines; both extend `RTCWire` |
| `RTCTransfer` | senders and one receiver together, and what is claimed of them |
| `RTCTransfer_proofs` | theorems about it: types, `Delivery`, partial files, pairing, acknowledgements, what success means |
| `MCRTCTransfer` | instances for TLC |
| `ForwardSender` | the HTTP sender with its workers, against any receiver |
| `ForwardSender_proofs` | theorems about it |
| `SignalingClient` | the client of the signaling server: reader, writer, timers, channels |
| `Signaling` | its users: the reconnect loop and listeners of `recv`, the command `send` |
| `Signaling_proofs` | theorems about it, the client included |
| `Discovery` | discoverers, the loop that rebinds them, a scan; a module without `Next` |
| `FileReceiver` | extends `Discovery`: the receiver process with its limits, log and marker |
| `MCFileReceiver` | instances for TLC |
| `SumLemmas` | sums over finite sets, by induction |
| `FileReceiver_proofs` | theorems about it, `Discovery` included |
| `PluginServer` | the Lua plugin's event loop around the receiver process |
| `PluginServer_proofs` | theorems about it |

Definitions that only exist to be substituted for another one, to see that a
property notices the difference, are marked `\* mutant`.

### RecvSessions

Every request has its own goroutine, so a step is one critical section, one atomic
operation or one file system call.

* `sessions`, `admission`, `vacuum`, `answering`, `killing` are the sync.Map, the
  holder of `admissionMu` and the goroutines of vacuum, prepare-upload and cancel
  between two of their steps. `CreateSessionIfAllowed`, `StoreSession`,
  `StartSession` and `GeneratePreUploadResp` are the parts of prepare-upload.
* `status`, `attempts`, `targetPath`, `filesCount` are fields of `RecvSession`.
* `pc`, `job`, `path`, `suffix`, `written`, `idle`, `result` belong to an upload
  request in `uploadHandler` and `SaveFile`: claim the file, make the directory, try
  names until one is free, copy the body, settle, count down.
* `owner` and `complete` are the save directory. It may hold files of the user's
  from the beginning.
* `age` and `idle` are the two clocks, advanced by `Tick`.

Abstractions. A tick is at least as long as the interval between activity updates,
so each chunk resets both clocks. The three atomics `Stopped` reads are read at
once. Reading the suffix hint belongs to the step that makes the directory and
updating it to the step that opens the file. A session has one root folder name.
An error of the remap that is cached equals recomputing it, since folders do not
disappear. A failed attempt removes its file and settles its state in one step
(`SettleFile`), though the code runs two deferred functions in this order: between them
the state is still `inProgress`, so another request for the file is refused as
it is before, and what others see is only that the removed name is free a step earlier. Requests that are rejected without touching state are stuttering. `lapsed`
and `acked` are history.

### RTCWire, RTCReceiver, RTCSender, RTCTransfer

A connection is one offer. Its frames are in `toRecv` and `toSend`, in order. The
receiver's end is `open` while installed, `dropped` when the receiver has let go of
it and `closed` when the pion connection is gone. A dropped end may still deliver
frames: the code closes it on another goroutine, after 100 ms, or (ICE state
"disconnected") not at all. The constant `StaleHandlers` says whether such late
handlers run; with FALSE the model is what the code would be if they did not.

All handlers of the receiver run under one mutex, so each is one action; only
`handleFileList` gives the mutex away during the selection callback
(`HandleFileList`, then `SelectFiles`). `DropPeer`, `Terminate`,
`RejectFileTransfer`, `CleanupPartialFiles` are shared parts of handlers. While a
file is received, each binary frame is data and each text frame ends it
(`FinishLast`, `FinishThenNext`, `FinishThenReject`, `FinishThenStop`). The sender
has two goroutines, the command (`main`) and the read loop (`sstate`), which meet in
channels of capacity one (`acceptedCh`, `resultCh`).

Abstractions. A control message is one binary frame and a delimiter. A nonce is
named by the two sessions that made it and a token by the key and the nonce it
signs. File sizes are counted in data frames; `pure` says whether all of them were
the file's own, which is what a checksum tells. The answer, the opening of the
channel and the first nonce are one step. A send that fails, a decline, a timeout
or an error of the sender's disk is `GiveUp`, possible at any time. The answer to a request
to pair carries the sender's key, or none: `PublicKeyPEM` (`internal/crypto/token.go:84-88`) returns
an empty string when it cannot encode the key, and a sender that is not this
program may leave the field out (the constant `Keyless`). The receiver then verifies and remembers
nothing, and accepts (`PairUnverified`); where a file list is expected, such an answer parses as
a list without files (`EmptyList`), for which the selection callback counts as immediate.
When a session ends, the code removes all files in progress, of which there is at most one. A generation of
the watchdog is named by the file that began it. The blocking time of a peer ends
at any time. Left out: the limit of 2 MB for control messages, a PIN demanded by
the sender, keys configured in advance (only tests use them), the size of the
trusted store, flow control, and folders and names, which `RecvSessions` covers.

### ForwardSender

`phase`, `result` are `Start` (prepare-upload, feed the job channel, wait, cancel);
`pc`, `job`, `attempt` a worker in `sendFileWithRetry` and `sendFile`; `conn` the
connection it dialed last, which fasthttp keeps for the worker's next file;
`abort`, `session`, `errs` are fields of `ForwardSender` and the error list. `Cancel` may run
twice at once, on a signal and from a `Start` that failed (`Canceller`); its steps
are the atomic flag, the copy of the tracked connections under the mutex, closing
them, and the request to the receiver.

Two clocks per connection: `age`, ticks since the deadline was moved, and `quiet`, ticks
since bytes moved. They differ because the deadline is moved at most every
`uploadDeadlineRefresh`. The receiver is an arbitrary environment: it accepts any part
of the files, answers anything, loses its session, falls silent or vanishes. That it
does not save a file twice, and nothing after its session ended, is what `RecvSessions`
shows. `Init` and the adding of files happen before anything concurrent and give the
initial state.

### SignalingClient, Signaling

A client is one connection to the signaling server. `link` is the network and the
server behind it, `inbox` what they deliver; `reader`, `reading` the read loop; `offerChan`, `sendChan`
the bounded channels; `callback`, `answerCh` the registered answer callback and the channel it fills; `done`
the closed flag. The writer and the timers (ping, token refresh, cleanup of
callbacks) have no state of their own; `keepalive` messages stand for ping and token
refresh. `Close` is one step, as its mutex makes it.

A behaviour is either `recv` or `send`; `Init` chooses. `recv` is the reconnect
loop with one receiver per connection, its offer listener, the session that an accepted offer
holds, and the file with the current ID. `send` registers its callback,
offers, waits and closes. Guests are interchangeable and act in a fixed order, and
clients are taken in a fixed order.

Left out: the list of peers and the informational messages, which only the scan
command reads; compression of session descriptions; the lengths of the backoff.

### Discovery, FileReceiver

Every binding of the multicast sockets is a new element of `Disc` that shares the
table of the one before (`shares`). Of a table only the devices confirmed since the
running scan began are kept, because that is what a scan returns; so expiry and the
limit of 512 entries do not appear, and a device has one channel. `DiscoveredSince` returns a map by
hosts, so of two devices on one host (`HostOf`) it returns either. `rebinder` is `startDiscoveryWithRetry`, `scan` is
`FileReceiver.Scan` around `Discoverer.Scan`, and `woken` says whether the channel that
the scan waits on has been closed. A scan returns in three ways: at the end of its windows
(`ScanGathers`), by its deadline while it waits for sockets, then with the result that it last gathered and
without an error (`ScanTimesOut`), or with an error (`ScanFails`). `result` is what it would
return; `confirmed` and `gathered` are history. Announcing changes no state here. The listener on
IPv6 never ends the loop and is not told apart.

`start`, `stop`, `process` are `Start`, `Stop` and `RunE`. Connections are counted by address and
by what they do (`conns`); the counters of the limiter (`total`, `perIP`), of failed
PINs (`attempts`) and of the marker (`active`) are kept beside them as the code keeps them.
The PIN check is two steps, asking the limiter and comparing, since the code takes
its mutex twice. Ending the sessions is part of `StopBegins`. The exit of `RunE` after 5 s without a
finished stop is left out: it ends the process.

Discovery and requests meet only in `Stop`, so a behaviour exercises one of them
(`scene`): either sockets can be bound, or clients connect. Everything that `Stop` does
is in both.

### PluginServer

KOReader runs handlers, tasks and callbacks one after the other, so each is one step.
They call each other deeply (a callback of a stop starts, a start schedules a recovery), so the
state is one record `st` and each function of the code a function from record to record; the
actions apply them. Fields of `st`:

* `userStopped`, `intended`, `stopping`, `pending`, `attempts`, `exhausted`, `recovering`,
  `startedAt`, `beforeSuspend`, `beforeDisconnect`, `scanning` are fields of `ServerState`, which
  outlives a widget; `startedAt` tells only whether the stable time has passed.
* `poll`, `restart`, `resume`, `whenConnected` and `ops` are what UIManager and NetworkMgr
  hold: tasks, callbacks, and the asynchronous start or stop under way. A widget is `current` or `closed`:
  closing takes its own tasks away but not its callbacks, which then act on its behalf.
  An operation that is no longer the current one returns at once when it is called, so
  `NextServerOpID` forgets it.
* `registered` says whether the widget listens to power and network events.
* `alive`, `pidFile`, `firewall`, `connected` are the process, the PID file, the rule and the
  network; they, and only they, survive KOReader's end (`Left`).
* `nilTask` is the task a closed widget schedules, see the observations. `failed` is history: the
  last start or stop ended with a failure that is not retried.

A launch ends in one of five ways (`Outcome`), chosen by the environment: rejected before it, a fork that
fails, a receiver that starts, one that dies while it is waited for, and (`TmpMayFill`) one that
starts though its PID cannot be written. In the last case `os.execute` reports a failure, because the
status of `(exec ...) & echo $! > PID_FILE` is that of the `echo`; the receiver runs and the PID file
is empty (`unnamed`, history). A receiver that is started while another one lives finds the lock of the control
socket taken and exits (`internal/control/control.go:61-83`, `cmd/recv/recv.go:64-68`). A
synchronous stop may fail to kill. `SwitchWidget` is the closing of a widget and the initialisation of the next one, which
KOReader does without returning to the event loop. An
announced disconnection, a sudden loss of the link and its return each leave a `notice`, the event that
KOReader still has to broadcast.

Left out: power holds, the transfer log, the stops for an update, for diagnostics and for disabling
the plugin, a PID file that names an unrelated process, and all that scans do
beyond keeping the port.

## Runs

| Run | Bounds | Shows |
|---|---|---|
| `recv_sessions` | 2 sessions, 1 file each, same name, 2 uploads, 2 attempts | finished or acknowledged files are on disk (`FinishedOnDisk`); two sessions are active only if one had lapsed (`ExclusiveUnlessLapsed`); complete files are never touched (`CompleteIsFinal`); no partial file is orphaned (`NoOrphanPartial`); a file is tried a bounded number of times (`RetriesBounded`); `RecvSessions` implements `Delivery` |
| `recv_files` | 1 session, 2 files with one name in one folder, 2 uploads, no checksums, `os.Remove` may fail | the count of open files is right (`CountMatchesOpenFiles`), one folder per session; every upload is answered (`UploadsAnswered`), every session is reclaimed (`SessionsReclaimed`) |
| `recv_exclusive` | as `recv_sessions`, 1 upload | violated: a lapsed session becomes active again next to a new one |
| `recv_vacuum` | the same | violated: the vacuum deletes a session between Store and Start |
| `rtc_session` | 2 senders, one with 2 files and one with more than allowed, a PIN that one of them knows, mandatory pairing with or without a key in the answer, disk errors, no late handlers | `TypeOK`; success means saved; no acknowledgement is dropped; partial files exist only while received; no token before the key of the session's own sender is known or its user has agreed to pair (`PairedBeforeTokens`) |
| `rtc_transfer` | 2 senders (the one with an empty file first), 1 file each, mandatory pairing (one may answer without a key), late handlers | the key kept is the one that signed the session's token, and only devices whose user agreed become trusted (`KeysVerified`); implements `Delivery`; the receiver is freed; transfers end |
| `rtc_teardown` | 2 senders, 1 file each, late handlers | violated: a late frame ends another sender's transfer |
| `fwd_send` | 2 workers, 2 files (or a message), 2 attempts, a signal at any time | nil without a cancellation means that all accepted files are saved (`NilMeansSent`); after `Cancel` no connection is open, not even one that was being dialed (`CancelStopsUploads`); a failure frees the receiver (`FailureReleasesRemote`); nothing saved is sent again (`NoResend`); the sliding deadline spares slow uploads (`SlowUploadsSurvive`); `Start` returns (`StartReturns`) |
| `signaling` | `recv` with 2 connections in turn or `send`, 2 guests, channels of capacity 1 | the cleanup never takes the callback of a command that waits (`WaiterHasCallback`); a receiver left behind holds no session (`OldReceiverIdle`); offers reach `AcceptOffer` (`OffersServed`); closed clients end (`ClientEnds`) |
| `receiver` | 2 discoverers, 2 devices on one host, 1 answer at a time, 2 receive errors; 1 remote address and loopback, 3 connections, 2 per address, 1 PIN attempt, 1 command slot | `TypeOK`, which has the limits; a scan reports the host of every device confirmed since it began, over a rebind too, and one that is cut off those that were confirmed until it last gathered (`ScanSeesAll`); none sleeps through a rebind (`NoMissedChange`); counters agree with what they count (`CountersMatch`); the PIN budget holds with parallel requests (`GuessBudget`); a stop completes, with all sockets closed (`StopCompletes`) |
| `plugin` | 3 process identifiers, 1 recovery attempt, autostart on, `/tmp` may be full | `TypeOK`, with the attempts within their budget; every receiver is the one that the PID file names, but for one whose PID could not be written (`OneReceiver`); none is launched after the user's stop (`UserStopRespected`) |
| `plugin_liveness` | the same, `/tmp` has room | a receiver that died or was stopped for a sleep comes back, is given up or its failure is reported (`ReceiverReturns`); the firewall does not stay open for a receiver that is gone (`FirewallClosed`) |

The type invariants of `RecvSessions`, `ForwardSender` and `Signaling` are in no run: they are proved
(`TypeCorrect`, `ForwardTypes`, `SignalingTypes`).

Why the bounds are enough. What can go wrong between sessions needs two of them,
between uploads two, between a try and a retry two attempts, in the pipeline two
files (one of them empty, so that a file may end without data). `SessionTimeout` is
0 ticks and `UploadIdleTimeout` 1, which keeps their order: a silent upload can
outlive its session. `MaxSuffix` is 0 or 1, so that names run out. Deadlock is not
checked, since each connection, session and file id is used once and the system
then rests. `recv_sessions` uses symmetry; runs with liveness do not.
In `fwd_send` the idle timeout is 2 ticks and the refresh 1: a deadline can be moved
too late by one. In `signaling` the time to live of a callback, 2, exceeds the timeout
of its waiter, 1, as 60 s exceed 30 s; channels of capacity 1 are full after one
message. In `receiver` two discoverers are one rebind, the second device makes the
answer limit bind and overwrites the first one in a result, as both are on one host (the
theorem about `ScanSeesAll` is for any hosts), and 3 connections with 2 per address make both limits bind while
two requests of one address run side by side. In the plugin's runs one attempt is
enough to be exhausted, and of three identifiers one may belong to a receiver, one to an operation that
waits, and one is free for a launch. These runs use no symmetry. A sender,
a receiver, a client and the plugin may all come to rest, so deadlock is not checked.
Two branches no passing run reaches: a `clearDiscoverer` whose discoverer is no longer
the current one, which would need a second rebind loop; and a WebRTC list of which
the filter leaves nothing (`SelectFiles` answers DECLINED, as `TooManyFiles` does, and changes nothing else).

Fairness. HTTP: goroutines that can run do run, the vacuum and the clock go on;
nothing is assumed of senders or of the file system. WebRTC: while some process can
run, some process does (`WF(Progress)`), which is less than fairness of each of
them. Every wait of a sender has a timeout, after which the command closes the
connection, and ICE notices that the other end is closed; the receiver's own
`HandlePeerClosed` for a living connection, `CloseReceiver` and
`SenderPeerClosed` are failures that nothing forces. Forward sender: the command, the
workers and the cancellers are goroutines and run, prepare-upload and cancel have
timeouts, and time passes; a body is finite, so one that can be written again and
again comes to its end (`SF(AwaitReply)`); nothing is assumed of the receiver. Signaling:
reader, writer (each write has a deadline), listeners, loop and command run; a goroutine
that waits to send into a channel is served in turn (`SF(SendAnswer)`), as Go does;
nothing is assumed of the network, the timers, the guests or the end of a session.
Receiver: `Start`, `Stop`, the rebind loop and its hook on the context run; the web server
returns once it is being stopped; clients, devices and scans owe nothing. Plugin:
UIManager runs tasks that are due and KOReader broadcasts what has happened; the user, the
network, the power button and the process owe nothing.

## Findings

* `recv_exclusive`: admission looks at `Stopped()`, which includes the timeout, but
  an upload in flight is not ended by the timeout and refreshes the activity of its
  session. Two sessions are then active, against "atomically enforces admission
  rules". `ExclusiveUnlessLapsed` shows it to be the only way.
* `recv_vacuum`: `vacuumTask` takes a session that is stored and not started yet for
  a stopped one.
* `rtc_teardown`: handlers do not know which connection a frame came from, against
  "A duplicate or second sender must never tear down an in-progress transfer". For
  the same reason `SuccessMeansSaved`, `AcksNotDropped`,
  `PartialOnlyWhileActive` and `PairedBeforeTokens` hold with `StaleHandlers = FALSE` only. What survives
  late handlers is checked by `rtc_transfer`.

## Observations

Behaviour that the models made visible. The first three stand against a comment; the
models have the behaviour, and the properties say what is left, but no run is kept to show it.

* `Discovery`: when the deadline of a scan comes while it waits for sockets, `finish` returns the result of
  the last `DiscoveredSince` without an error (`recv/scan.go:68-70`, `ScanTimesOut`). Devices that have
  registered since are in the shared table, which is not asked again, though the comment at
  `recv/scan.go:12-13` says that a scan "uses the receiver's own register callbacks" and "waits through
  startup/rebinding". `ScanSeesAll` states what each of the two returns reports.
* `PluginServer`: with a full `/tmp` the launch is reported as failed while the receiver runs, and
  nothing names it. `onExit` then finds no receiver to stop, against "to guarantee the receiver is dead
  and the firewall torn down before we exit" (`lua/main.lua:435-437`). `OneReceiver` excepts that receiver, and
  no other.
* `PluginServer`: closing a widget unschedules the task that waits to start again after a
  disconnection, and `init` (`lua/main.lua:362`) looks at `was_running_before_suspend` only, against the comment at
  `lua/main.lua:510-512` that a fast reconnection must not "lose the only restart request". `ReturnDue` does not
  count this case, so `ReceiverReturns` says nothing of it.
* `RTCReceiver`: a sender that stays connected and silent during the handshake keeps the receiver to itself: only
  a transfer that has begun has a watchdog. `ReceiverFreed` holds because senders give up.
* `ForwardSender`: a cancellation between two uploads, during prepare-upload or
  between two attempts makes `sendFile` return nil, so `Start` may return nil though
  files were not sent; the process may then end before the receiver was told. Before the
  answer to prepare-upload there is no session to cancel. This is why `NilMeansSent` speaks of
  commands that were not cancelled. `Cancel` reads the session without a lock.
* `Signaling`: when the context ends, a session that was accepted between closing the
  receiver and closing the client stays held until the process exits.
* `FileReceiver`: `Stop` closes the transfer log before the web server has drained; an
  upload that finishes in between is saved but neither logged nor followed by the
  command. The 5 s that `RunE` grants are shorter than the sum of the waits in `Stop`.
  An upload that begins after the marker was closed creates it again.
* `FileReceiver`: parallel requests pass the PIN check before any of them is counted.
  `GuessBudget` states the bound that remains, `MaxPINAttempts - 1 + MaxPerIP`.
* `RTCReceiver`: where pairing is mandatory, an answer without a key is accepted without the
  verification that an answer with a key must pass. Its files are received and its device is not trusted, so the
  next session has to pair again; `PairedBeforeTokens` states what remains.
* `PluginServer`: a start on behalf of a closed widget (the callback of a restart, or of
  the prompt for the network, after a document was opened) makes the closed widget poll. If
  the receiver dies, that poll schedules the restart task of the closed widget, which is nil
  (`NilTaskRuns`).
* `PluginServer`: a start by hand does not clear `was_running_before_suspend` and
  `was_running_before_disconnect`; crash recovery is off as long as one is left set.
* `PluginServer`: a link that is lost without announcement while a recovery is pending cancels
  the recovery and keeps no note of it. A silent start that meets a scan or an invalid directory is
  not retried.
* `PluginServer`: a receiver that dies just before a suspend is not noticed by its poll, which
  is unscheduled, so the rule stays open until the receiver has been restarted; a start that is rejected
  for its directory makes the wait of an earlier failing launch stale, and the rule stays
  too. `FirewallClosed` excepts both.

## Proofs

Each theorem is about every value of the constants that the assumption of its module
admits: any number of sessions, files, requests, senders, workers, addresses,
discoverers or processes, and any limits and timeouts. In most cases the stated property is not
inductive; the invariant that is was first checked by TLC on the run's instance.
Every invariant is proved in the same way: the initial states satisfy it,
each action keeps it (one lemma or step per action), and PTL combines the two.

| Theorem | States |
|---|---|
| `RecvSessions_proofs` | |
| `TypeCorrect`, `Delivered` | `[]TypeOK`, `[]FinishedOnDisk` |
| `CompleteStays`, `ImplementsDelivery` | `CompleteIsFinal`, `DeliverySpec` |
| `RecvFiles_proofs` | |
| `NoOrphan`, `OneFolder`, `RetriesEnd` | `[]NoOrphanPartial`, `[]OneFolderPerSession`, `[]RetriesBounded` |
| `CountRight`, `Exclusive` | `[]CountMatchesOpenFiles`, `[]ExclusiveUnlessLapsed` |
| `RTCTransfer_proofs` | |
| `RTCTypes`, `RTCImplementsDelivery`, `TrustIsAgreed` | `[]TypeOK`, `RTCDelivery`, `[]KeysVerified`, with or without late handlers |
| `NoPartialLeft`, `PairingComesFirst` | `[]PartialOnlyWhileActive`, `[]PairedBeforeTokens`, without late handlers |
| `AcksAreTaken`, `SuccessIsSaved`, `NeverTornDown` | `[]AcksNotDropped`, `[]SuccessMeansSaved`, `NoTeardown`, without late handlers |
| `ForwardSender_proofs` | |
| `ForwardTypes`, `NilIsSent`, `CancelIsFinal` | `[]TypeOK`, `[]NilMeansSent`, `[]CancelStopsUploads` |
| `FailureIsTold`, `NeverResent`, `SlowIsSpared` | `[]FailureReleasesRemote`, `[]NoResend`, `SlowUploadsSurvive` |
| `Signaling_proofs` | |
| `SignalingTypes`, `WaiterKeepsCallback`, `OldIsIdle` | `[]TypeOK`, `[]WaiterHasCallback`, `[]OldReceiverIdle` |
| `FileReceiver_proofs` | |
| `ReceiverTypes`, `CountersRight`, `BudgetKept` | `[]TypeOK`, `[]CountersMatch`, `[]GuessBudget` |
| `ScanIsComplete`, `RebindWakes` | `[]ScanSeesAll`, `[]NoMissedChange` |
| `PluginServer_proofs` | |
| `PluginTypes`, `SingleReceiver`, `StopIsRespected` | `[]TypeOK`, `[]OneReceiver`, `UserStopRespected` |

### The arguments

HTTP sessions (`IInv`). That a finished file
is on disk needs that the request which finishes it owns the file it wrote
(`WriterInv`), also at the moment of settling; that needs that only one request works
on a file (`ClaimInv`), which follows from the file's state being `inProgress` while
it is claimed (`RequestInv`). That complete files stay needs that each belongs to
the user, to a finished upload or to the request about to settle it (`StoredInv`), so
that clean-up of a failed attempt never meets one. Actions that change none of the
variables of these parts are treated together (`QuietKeeps`, `QuietSteps`); each of the
others has its lemma. The refinement maps `stored` to the files with a complete path
and `failed` to those given up; opening, copying and every action of the session
manager stutter.

HTTP files (`FilesInv`, on top of `IInv`). A partial file has its writer
(`PartialInv`, where `os.Remove` works). A retry aims at the name that the first
attempt recorded (`RetryInv`), so it cannot leave the folder that the session has chosen
(`FolderInv`). Only a claim raises `attempts`, and only of a file that is pending (`RetryStep`).

HTTP session manager (`ManagerInv`). The count agrees with the open files of each
session that is started or being admitted (`CountInv`): the decrement in
`finishFileAttempt` and the file's change of state are one step under the lock, and a
session that was never started has untouched files (`BirthInv`). Exclusion
holds because a session is admitted only while all others are stopped or have been past the
timeout once (`AdmissionInv`, `LapseInv`), and the admission mutex is held from that
test to `Start`.

WebRTC (`BaseInv`). Every frame on a connection was made by that connection's sender
(`FramesInv`), so tokens, pairing answers and file ids in it are that sender's own. The receiver's end is
open exactly while it is installed, and an end that is not yet used has no session
(`EndsInv`, `ReservedInv`). For the refinement, `XInv` adds where a file can
be: with its sender, announced by one header, current, or settled, and in one of them
only (`PlaceInv`); a header is on the wire at most once, so a file cannot be begun twice, whichever
handlers run. A positive answer, in the queue or in the sender's channel, is
for a saved file (`AckInv`). `NoPartialLeft` and `PairingComesFirst` assume `~StaleHandlers` and use
`QInv`, in which the selection callback of a connection is the one of the current session
(`SelectInv`). That hypothesis is needed for `PartialOnlyWhileActive`: see the finding. For
`PairedBeforeTokens`: the late selection of a dropped connection, or its late
pairing answer, can give tokens to the session of another sender. What holds whatever handlers run is `KeysVerified`
(`KInv`): a key is kept only after `VerifyTokenNonce` with the token and nonce of the current session, and
every key on the wire belongs to a user who agreed.

WebRTC without late handlers. Nobody but the peer's sender has a frame at the receiver,
so a current file belongs to the connection that is the peer (`CurrentInv`); hence
`NeverTornDown`, which shows that late handlers are the *only* cause of what
`rtc_teardown` finds. For `AcksNotDropped`, `PipeInv` follows one file
through both directions at once: of the frames that end a file (the next
header or the delimiter), the answers on the wire and the result in the channel
there is at most one, and there is none before the first header and none left when the
sender takes the next file. The `default:` branch, which drops an acknowledgement because the
buffer of one is full, is therefore never reached. For `SuccessMeansSaved`,
`ShakeInv` follows the list of files: it is sent once, one answer with the status OK
exists, that answer accepts all the files the receiver wants, and each of these is queued,
announced or confirmed; confirmed files are saved, because only a saved file
is acknowledged with `ok` (`AckInv`). So an empty queue after the last
acknowledgement means that all are saved. Both proofs fail when the model's
`Acknowledge` answers twice, or `GoodResult` ignores the result.

Forward sender (`FInv`). A file has one place: still to do, with one worker, failed or
saved, and when it is saved the worker that has it is about to read the answer that says so
(`JobInv`, `SentInv`); with the phases of `Start` (`PhaseInv`) this gives `NilMeansSent` and `NoResend`. A
cancellation closes what it found open (`CancelInv`: what is open is in its snapshot), and `trackUpload`
admits nothing after `abort`. The deadline of a connection is never more than one
refresh behind its last I/O (`AgeInv`).

Signaling (`SInv`). A command that waits has waited at most `AnswerTimeout`, which is
less than the callback's time to live, so the cleanup never finds its callback expired
(`WaitInv`). A client that the loop has left is closed before the loop goes on
(`LoopInv`); its listener, the only one that can accept, releases what it holds before
it returns to its channel (`LeftInv`).

Receiver process (`RInv`). All discoverers bound so far share one table, which has every
device confirmed since the scan began (`TableInv`, `BoundInv`); a scan whose discoverer is not the current one has had
its channel closed (`WakeInv`); what it has gathered, or has reported, covers the hosts of what was confirmed
until then (`ResultInv`). For the PIN budget, every check under way needs a
connection of its own, so attempts and checks together stay below
`MaxPINAttempts + MaxPerIP` (`LimitInv`). The counter of all connections is a sum over the addresses;
`SumLemmas` proves that `SumFunction` of a finite set is a natural number, zero for zeros,
and changes by as much as one of its terms. The library states induction for an operator, which
the provers cannot instantiate, so `SumLemmas` derives induction for a *set* of
numbers (`NatInduct`) from the least element of a set, and shows with it that
the recursive equation of the sum has a solution.

Plugin (`PInv`). A receiver that lives is the one in the PID file or one whose PID could not be written, and a stop that waits
for an exit waits for that process (`OpsSane`); a continuation that would start a receiver is
pending only while the user has not stopped it. All actions are functions of one record, so
each helper of the module has a lemma that it keeps `Sane`.

### Assumptions on the constants

Besides types, finite sets and `None` being no value: `File # {}` in the forward sender (`send` without a file
or a text is refused), `IdleTimeout > DeadlineRefresh` (2 minutes and 10 s in the code),
`Disc # {}` and `Proc # {}` (a first discoverer and a process identifier exist),
and that a callback lives longer than its waiter waits (60 s and 30 s).

### Only model-checked

* All liveness properties (`StartReturns`, `OffersServed`, `ClientEnds`, `StopCompletes`,
  `ReceiverReturns`, `FirewallClosed`, `ReceiverFreed`, `TransferEnds`, `UploadsAnswered`,
  `SessionsReclaimed`), which are out of the prover's reach.
* The three violations, which are counterexamples of TLC.

## Not modelled

* Control socket: the ownership of the backend rests on one `flock`, taken before a
  stale socket is removed and released after the own socket is closed.
* Trusted devices: one map under one mutex, saved by rename. `RTCReceiver` models what
  is asked of it. A failed save leaves memory and disk apart until the next one.
* Nonce cache: one table under one mutex, for v3 handlers that are not in use.
* Reverse sender: a table of sessions under one mutex, and the PIN limiter that
  `FileReceiver` models; nothing else lives longer than a request.
* The handlers register, info and nonce, apart from `RegisterDevice`: no session state.
* Cryptography, checksums, JSON records: pure functions.
* Firewall and update of the plugin: sequences of external commands. Dialogs,
  diagnostics, translations and development tools: no behaviour to check.
* Lua: supervision of sending and scanning, the power holds and the transfer log. Each send or scan
  is one process with one operation identifier and one poll, the scheme of `PluginServer`.

## Plan

1. HTTP receive path and its first theorems: done.
2. WebRTC sender and receiver: modelled and checked.
3. Connection limiter, PIN limiter, activity marker: done, in `FileReceiver`.
4. Signaling client with the reconnect loop; forward sender: done.
5. Receiver lifecycle and discovery: done.
6. The plugin: server lifecycle done; supervision of sending and scanning and the power holds
   left.
7. Theorems: all safety invariants and action properties of the passing runs are proved,
   those of `RTCTransfer` that the finding breaks for `StaleHandlers = FALSE`.
