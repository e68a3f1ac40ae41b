------------------------------ MODULE Signaling ------------------------------
(***************************************************************************)
(* The users of the signaling clients: the loop of `recv` that keeps the    *)
(* receiver reachable (cmd/recv/recv.go), the listener that accepts offers  *)
(* for it (webrtc/transfer/receiver.go), and `send` up to the answer        *)
(* (cmd/send/send.go, webrtc/transfer/sender.go).                           *)
(*                                                                         *)
(* The loop uses a new client, and a new RTCReceiver, for every connection; *)
(* both are named by the element of Receiver they belong to.  What happens  *)
(* in a session once it is accepted is the subject of RTCTransfer: here it  *)
(* only ends.  Backoff lengths are left out; a delay just elapses.          *)
(***************************************************************************)
EXTENDS SignalingClient

CONSTANTS Receiver, Sender

ASSUME RolesAssumption == Client = Receiver \cup Sender /\ Receiver \cap Sender = {}

VARIABLES
    loop,         \* where startWebRTCReceiver is
    cur,          \* its client
    idFile,       \* content of the signaling ID file
    ctxDone       \* its context is cancelled

VARIABLES
    listener,     \* the goroutine of ListenForOffersWithContext
    offer,        \* the offer it is handling
    held,         \* session that the RTCReceiver holds a peer for
    accepting     \* RTCReceiver.accepting

VARIABLES
    command,      \* where `send` is
    guests        \* guests that have not acted yet

loopVars == <<loop, cur, idFile, ctxDone>>
acceptVars == <<listener, offer, held, accepting>>
vars == <<clientVars, loopVars, acceptVars, command, guests>>

TypeOK ==
    /\ ClientTypeOK
    /\ loop \in {"connect", "publish", "listen", "serve", "closeReceiver", "closeClient",
                 "backoff", "stopReceiver", "stopClient", "exit", "unused"}
    /\ cur \in Receiver \cup {None} /\ idFile \in Receiver \cup {None}
    /\ ctxDone \in BOOLEAN
    /\ listener \in [Receiver -> {"off", "start", "wait", "create", "answer", "enqueue", "exit"}]
    /\ offer \in [Receiver -> Guest \cup {None}]
    /\ held \in [Receiver -> Guest \cup {None}]
    /\ accepting \in [Receiver -> BOOLEAN]
    /\ command \in [Sender -> {"new", "connected", "registered", "offer", "wait", "answered",
                               "failed", "exit", "unused"}]
    /\ guests \subseteq Guest

\* A process runs one of the two commands.
Init ==
    /\ ClientInit
    /\ \/ loop = "connect" /\ command = [s \in Sender |-> "unused"]
       \/ loop = "unused" /\ command = [s \in Sender |-> "new"]
    /\ cur = None /\ idFile = None /\ ctxDone = FALSE
    /\ listener = [k \in Receiver |-> "off"]
    /\ offer = [k \in Receiver |-> None] /\ held = [k \in Receiver |-> None]
    /\ accepting = [k \in Receiver |-> FALSE]
    /\ guests = Guest

-----------------------------------------------------------------------------
(* startWebRTCReceiver.                                                    *)

Fresh      == {k \in Receiver : link[k] = "none"}
NextClient == CHOOSE k \in Fresh : TRUE    \* one is like another

ConnectReceiver ==
    /\ loop = "connect" /\ ~ctxDone /\ Fresh # {}
    /\ Connect(NextClient)
    /\ loop' = "publish" /\ cur' = NextClient
    /\ UNCHANGED <<idFile, ctxDone, acceptVars, command, guests>>

ConnectFails ==
    /\ loop = "connect" /\ ~ctxDone
    /\ loop' = "backoff" /\ idFile' = None
    /\ UNCHANGED <<clientVars, cur, ctxDone, acceptVars, command, guests>>

\* A failure to write the file is only logged.
Publish ==
    /\ loop = "publish"
    /\ loop' = "listen" /\ idFile' \in {cur, None}
    /\ UNCHANGED <<clientVars, cur, ctxDone, acceptVars, command, guests>>

StartListener ==
    /\ loop = "listen"
    /\ loop' = "serve"
    /\ listener' = [listener EXCEPT ![cur] = "start"]
    /\ UNCHANGED <<clientVars, cur, idFile, ctxDone, offer, held, accepting, command,
                   guests>>

\* The dead ID is withdrawn before anything is closed.
RemoveId == idFile' = None

Disconnected ==
    /\ loop = "serve" /\ done[cur]
    /\ loop' = "closeReceiver" /\ RemoveId
    /\ UNCHANGED <<clientVars, cur, ctxDone, acceptVars, command, guests>>

\* RTCReceiver.Close: whatever is being received ends.
CloseReceiver ==
    /\ loop \in {"closeReceiver", "stopReceiver"}
    /\ loop' = IF loop = "closeReceiver" THEN "closeClient" ELSE "stopClient"
    /\ held' = [held EXCEPT ![cur] = None]
    /\ accepting' = [accepting EXCEPT ![cur] = FALSE]
    /\ UNCHANGED <<clientVars, cur, idFile, ctxDone, listener, offer, command, guests>>

\* client.Close has an effect if nobody has closed the client yet.
CloseClient == loop \in {"closeClient", "stopClient"} /\ Close(cur)
               /\ UNCHANGED <<loopVars, acceptVars, command, guests>>

ClientClosed ==
    /\ loop \in {"closeClient", "stopClient"} /\ done[cur]
    /\ IF loop = "closeClient" THEN loop' = "backoff" /\ UNCHANGED idFile
                               ELSE loop' = "exit" /\ idFile' = None
    /\ UNCHANGED <<clientVars, cur, ctxDone, acceptVars, command, guests>>

\* waitReconnect: the delay has elapsed.
Reconnect ==
    /\ loop = "backoff"
    /\ loop' = "connect"
    /\ UNCHANGED <<clientVars, cur, idFile, ctxDone, acceptVars, command, guests>>

StopServing ==
    /\ loop = "serve" /\ ctxDone
    /\ loop' = "stopReceiver"
    /\ UNCHANGED <<clientVars, cur, idFile, ctxDone, acceptVars, command, guests>>

\* The context ends the loop, or no token can be made; the file is removed on the way out.
LeaveLoop ==
    /\ loop \in {"connect", "backoff"}
    /\ loop = "backoff" => ctxDone
    /\ loop' = "exit" /\ idFile' = None
    /\ UNCHANGED <<clientVars, cur, ctxDone, acceptVars, command, guests>>

CancelContext ==
    /\ loop # "unused" /\ ~ctxDone /\ ctxDone' = TRUE
    /\ UNCHANGED <<clientVars, loop, cur, idFile, acceptVars, command, guests>>

LoopStep ==
    \/ ConnectReceiver \/ ConnectFails \/ Publish \/ StartListener \/ Disconnected \/ CloseReceiver
    \/ CloseClient \/ ClientClosed \/ Reconnect \/ StopServing \/ LeaveLoop

-----------------------------------------------------------------------------
(* ListenForOffersWithContext and AcceptOffer.                             *)

\* The listener calls Offers.
Subscribe(k) ==
    /\ listener[k] = "start"
    /\ listener' = [listener EXCEPT ![k] = "wait"]
    /\ subscribed' = [subscribed EXCEPT ![k] = TRUE]
    /\ UNCHANGED <<link, inbox, reader, reading, offerChan, sendChan, done,
                   callback, waited, answerCh, pending, loopVars, offer, held, accepting, command, guests>>

TakeOffer(k) ==
    /\ listener[k] = "wait" /\ offerChan[k] # <<>>
    /\ offerChan' = [offerChan EXCEPT ![k] = Tail(@)]
    /\ pending' = [pending EXCEPT ![k] = @ \ {Head(offerChan[k])}]
    /\ UNCHANGED <<link, inbox, reader, reading, subscribed, sendChan, done,
                   callback, waited, answerCh, loopVars, command, guests>>

Busy(k) == accepting[k] \/ held[k] # None

\* An offer from a blocked peer, or while a session is held, is refused.
RefuseOffer(k) ==
    /\ TakeOffer(k)
    /\ UNCHANGED <<listener, offer, held, accepting>>

\* Otherwise the receiver is reserved...
Reserve(k) ==
    /\ ~Busy(k)
    /\ TakeOffer(k)
    /\ listener' = [listener EXCEPT ![k] = "create"]
    /\ offer' = [offer EXCEPT ![k] = Head(offerChan[k])]
    /\ accepting' = [accepting EXCEPT ![k] = TRUE]
    /\ UNCHANGED held

BackToWait(k) ==
    /\ listener' = [listener EXCEPT ![k] = "wait"]
    /\ offer' = [offer EXCEPT ![k] = None]

\* ...until its offer cannot be decoded or a peer cannot be made...
CreateFails(k) ==
    /\ listener[k] = "create"
    /\ BackToWait(k)
    /\ accepting' = [accepting EXCEPT ![k] = FALSE]
    /\ UNCHANGED <<clientVars, loopVars, held, command, guests>>

\* ...or a peer is installed, unless the receiver was closed meanwhile.
Install(k) ==
    /\ listener[k] = "create"
    /\ IF accepting[k]
       THEN /\ listener' = [listener EXCEPT ![k] = "answer"]
            /\ held' = [held EXCEPT ![k] = offer[k]]
            /\ accepting' = [accepting EXCEPT ![k] = FALSE]
            /\ UNCHANGED offer
       ELSE BackToWait(k) /\ UNCHANGED <<held, accepting>>
    /\ UNCHANGED <<clientVars, loopVars, command, guests>>

\* handlePeerClosed, when the peer is still the receiver's.
DropPeer(k, s) == held' = [held EXCEPT ![k] = IF @ = s THEN None ELSE @]

\* The answer cannot be made, or not be sent: the peer is closed.
AnswerFails(k) ==
    /\ listener[k] \in {"answer", "enqueue"}
    /\ listener[k] = "enqueue" => done[k]
    /\ BackToWait(k) /\ DropPeer(k, offer[k])
    /\ UNCHANGED <<clientVars, loopVars, accepting, command, guests>>

\* SendAnswer: enqueue's look at done...
MakeAnswer(k) ==
    /\ listener[k] = "answer" /\ ~EnqueueRefused(k)
    /\ listener' = [listener EXCEPT ![k] = "enqueue"]
    /\ UNCHANGED <<clientVars, loopVars, offer, held, accepting, command, guests>>

\* ...and its wait for room.
SendAnswer(k) ==
    /\ listener[k] = "enqueue"
    /\ Enqueue(k, "answer")
    /\ BackToWait(k)
    /\ UNCHANGED <<loopVars, held, accepting, command, guests>>

ListenerExits(k) ==
    /\ listener[k] = "wait"
    /\ ctxDone \/ (offerChan[k] = <<>> /\ reader[k] = "exit")
    /\ listener' = [listener EXCEPT ![k] = "exit"]
    /\ UNCHANGED <<clientVars, loopVars, offer, held, accepting, command, guests>>

\* The transfer is over, or its peer connection is lost.
SessionEnds(k) ==
    /\ held[k] # None
    /\ DropPeer(k, held[k])
    /\ UNCHANGED <<clientVars, loopVars, listener, offer, accepting, command, guests>>

ListenerStep(k) ==
    \/ Subscribe(k) \/ RefuseOffer(k) \/ Reserve(k) \/ CreateFails(k) \/ Install(k)
    \/ AnswerFails(k) \/ MakeAnswer(k) \/ SendAnswer(k) \/ ListenerExits(k)

-----------------------------------------------------------------------------
(* sendViaWebRTC and the first half of RTCSender.Send.                     *)

GoTo(s, where) == command' = [command EXCEPT ![s] = where]

ConnectSender(s) ==
    /\ command[s] = "new"
    /\ Connect(s) /\ GoTo(s, "connected")
    /\ UNCHANGED <<loopVars, acceptVars, guests>>

\* The callback is in place before the offer leaves.
RegisterCallback(s) ==
    /\ command[s] = "connected"
    /\ OnAnswer(s) /\ GoTo(s, "registered")
    /\ UNCHANGED <<loopVars, acceptVars, guests>>

BeginOffer(s) ==
    /\ command[s] = "registered" /\ ~EnqueueRefused(s)
    /\ GoTo(s, "offer")
    /\ UNCHANGED <<clientVars, loopVars, acceptVars, guests>>

SendOffer(s) ==
    /\ command[s] = "offer"
    /\ Enqueue(s, "offer") /\ GoTo(s, "wait")
    /\ UNCHANGED <<loopVars, acceptVars, guests>>

\* No peer connection, an offer that could not be sent, or the answer did not come.
Fail(s) ==
    /\ \/ command[s] \in {"connected", "wait"}
       \/ command[s] \in {"registered", "offer"} /\ done[s]
    /\ GoTo(s, "failed")
    /\ UNCHANGED <<clientVars, loopVars, acceptVars, guests>>

GetAnswer(s) ==
    /\ command[s] = "wait" /\ answerCh[s] = "full"
    /\ answerCh' = [answerCh EXCEPT ![s] = "empty"]
    /\ GoTo(s, "answered")
    /\ UNCHANGED <<link, inbox, reader, reading, offerChan, subscribed, sendChan, done, callback, waited, pending, loopVars, acceptVars, guests>>

\* The command ends, after the transfer or at once, and closes its client.
CloseSender(s) ==
    /\ command[s] \in {"answered", "failed"}
    /\ GoTo(s, "exit")
    /\ IF done[s] THEN UNCHANGED clientVars ELSE Close(s)
    /\ UNCHANGED <<loopVars, acceptVars, guests>>

SenderStep(s) ==
    \/ ConnectSender(s) \/ RegisterCallback(s) \/ BeginOffer(s)
    \/ SendOffer(s) \/ Fail(s) \/ GetAnswer(s) \/ CloseSender(s)

-----------------------------------------------------------------------------
(* Guests and time.                                                        *)

\* Guests are interchangeable: they act in a fixed order.
NextGuest == CHOOSE g \in guests : TRUE

\* A guest offers a session to a client, whoever it is.
GuestOffers(k) ==
    /\ guests # {} /\ link[k] = "up"
    /\ inbox' = [inbox EXCEPT ![k] = Append(@, [t |-> "offer", from |-> NextGuest])]
    /\ guests' = guests \ {NextGuest}
    /\ UNCHANGED <<link, reader, reading, offerChan, subscribed, sendChan, done,
                   callback, waited, answerCh, pending, loopVars, acceptVars, command>>

\* A guest answers an offer, perhaps for the second time.
GuestAnswers(s) ==
    /\ guests # {} /\ link[s] = "up" /\ command[s] \in {"wait", "answered", "failed", "exit"}
    /\ inbox' = [inbox EXCEPT ![s] = Append(@, [t |-> "answer", from |-> NextGuest])]
    /\ guests' = guests \ {NextGuest}
    /\ UNCHANGED <<link, reader, reading, offerChan, subscribed, sendChan, done,
                   callback, waited, answerCh, pending, loopVars, acceptVars, command>>

\* Time passes while a sender waits, but not beyond its timeout: an offer is enqueued
\* in far less than the time the TTL leaves.  Once it has given up, the TTL runs on.
Tick(s) ==
    /\ waited[s] <= AnswerTTL
    /\ \/ command[s] = "wait" /\ waited[s] < AnswerTimeout
       \/ command[s] \in {"answered", "failed"} /\ callback[s]
    /\ waited' = [waited EXCEPT ![s] = @ + 1]
    /\ UNCHANGED <<link, inbox, reader, reading, offerChan, subscribed, sendChan, done, callback, answerCh, pending, loopVars, acceptVars, command, guests>>

Next ==
    \/ LoopStep \/ CancelContext
    \/ \E k \in Client : ClientStep(k) /\ UNCHANGED <<loopVars, acceptVars, command, guests>>
    \/ \E k \in Client : GuestOffers(k)
    \/ \E k \in Receiver : ListenerStep(k) \/ SessionEnds(k)
    \/ \E s \in Sender : SenderStep(s) \/ GuestAnswers(s) \/ Tick(s)

Spec == Init /\ [][Next]_vars

Rest == UNCHANGED <<loopVars, acceptVars, command, guests>>

\* Goroutines that can run are scheduled; one that waits for a channel is served in turn;
\* a write ends, well or not, because it has a deadline.  Nothing is assumed of the
\* network, the timers, the guests, or of when a session ends.
Fairness ==
    /\ WF_vars(\E k \in Client : ReaderStep(k) /\ Rest)
    /\ WF_vars(\E k \in Client : WriterStep(k) /\ Rest)
    /\ WF_vars(\E k \in Receiver : ListenerStep(k))
    /\ SF_vars(\E k \in Receiver : SendAnswer(k))
    /\ WF_vars(LoopStep)
    /\ WF_vars(\E s \in Sender : SenderStep(s))

FairSpec == Spec /\ Fairness

-----------------------------------------------------------------------------
(* What the clients and their users promise.                               *)

\* A `send` that waits for its answer will still get it if it comes: the cleanup of
\* old callbacks never takes the callback of a command that waits.
WaiterHasCallback ==
    \A s \in Sender : command[s] = "wait" /\ ~done[s] =>
        callback[s] \/ reader[s] = "callback" \/ answerCh[s] # "empty"

\* The receiver of a connection that the loop has left behind holds no session, though
\* its listener may still find offers in the closed channel: an answer it cannot send
\* undoes the session (AcceptOffer, enqueue, RTCReceiver.Close).
OldReceiverIdle ==
    \A k \in Receiver :
        /\ k # cur /\ listener[k] \in {"wait", "exit"} => held[k] = None /\ ~accepting[k]
        /\ k # cur => done[k] \/ link[k] = "none"

Unserved   == \E k \in Receiver : pending[k] # {} /\ ~done[k]
ReaderLeft == \E k \in Client : done[k] /\ reader[k] # "exit"

\* An offer that the client took from the server reaches AcceptOffer, in spite of full
\* channels, unless the connection or the receiver ends ("offer delivery is reliable
\* until the signaling connection closes").
OffersServed == Unserved ~> (~Unserved \/ ctxDone)

\* Once a client is closed by anyone, its reader ends: it is not stuck with an offer that
\* nobody takes any more, nor in the callback of an answer that came twice.
ClientEnds == ReaderLeft ~> ~ReaderLeft
=============================================================================
