----------------------------- MODULE RTCSender -----------------------------
(***************************************************************************)
(* RTCSender (webrtc/transfer/sender.go), one per connection.  The command *)
(* calls Send and then SendFiles on its own goroutine; frames of the       *)
(* receiver are handled on the read loop of the connection, under s.mu.    *)
(* The two meet in channels of capacity one; the channels declined and     *)
(* errors only make Send fail, which it may do at any time anyway.         *)
(***************************************************************************)
EXTENDS RTCWire

CONSTANTS
    KnowsPin,            \* connections whose user may enter the right PIN
    Keyless,             \* connections whose sender may fail to encode its key
    PairAnswers          \* answers a user may give to a PAIR request

ASSUME SenderAssumption ==
    /\ KnowsPin \subseteq Conn /\ Keyless \subseteq Conn
    /\ PairAnswers \subseteq BOOLEAN

VARIABLES
    main,                \* where the command's goroutine is
    sstate,              \* the state of the handshake
    sNonce,              \* finalNonce
    receiverToken,       \* the nonces the receiver's token signs, None without one
    sBuffer,             \* controlBuffer
    acceptedCh,          \* the channels accepted and fileResults
    resultCh,
    todo,                \* accepted files not announced yet
    sending, announced,  \* the file being sent and the one whose header follows it
    chunksSent,
    confirmed,           \* files a successful acknowledgement was taken for
    dropped,             \* an acknowledgement was dropped while one was awaited
    paired               \* connections whose user agreed to pair with the receiver

queueVars == <<todo, sending, announced, chunksSent, confirmed>>
senderVars == <<main, sstate, sNonce, receiverToken, sBuffer, acceptedCh, resultCh,
                queueVars, dropped, paired>>

Main == {"waitAnswer", "waitAccept", "queue", "data", "waitAck", "flush",
         "success", "failed"}

SenderState == {"init", "waitNonce", "waitToken", "waitPin", "waitFileAccept",
                "sendingFiles", "done"}

SenderTypeOK ==
    /\ main \in [Conn -> Main]
    /\ sstate \in [Conn -> SenderState]
    /\ sNonce \in [Conn -> Nonce \cup {None}]
    /\ receiverToken \in [Conn -> Nonce \cup {None}]
    /\ \A c \in Conn : sBuffer[c] = None \/ sBuffer[c] \in ToSendFrame
    /\ \A c \in Conn : acceptedCh[c] = None \/ acceptedCh[c] \subseteq File
    /\ \A c \in Conn : resultCh[c] = None \/ resultCh[c] \in ToSendFrame
    /\ todo \in [Conn -> SUBSET File]
    /\ sending \in [Conn -> File \cup {None}]
    /\ announced \in [Conn -> File \cup {None}]
    /\ chunksSent \in [Conn -> Nat]
    /\ confirmed \subseteq File
    /\ dropped \subseteq Conn /\ paired \subseteq Conn

\* Every sender has sent its offer and waits for an answer.
SenderInit ==
    /\ main = [c \in Conn |-> "waitAnswer"]
    /\ sstate = [c \in Conn |-> "init"]
    /\ sNonce = [c \in Conn |-> None]
    /\ receiverToken = [c \in Conn |-> None]
    /\ sBuffer = [c \in Conn |-> None]
    /\ acceptedCh = [c \in Conn |-> None]
    /\ resultCh = [c \in Conn |-> None]
    /\ todo = [c \in Conn |-> {}]
    /\ sending = [c \in Conn |-> None]
    /\ announced = [c \in Conn |-> None]
    /\ chunksSent = [c \in Conn |-> 0]
    /\ confirmed = {} /\ dropped = {} /\ paired = {}

-----------------------------------------------------------------------------

Goto(c, m) == main' = [main EXCEPT ![c] = m]
SetState(c, st) == sstate' = [sstate EXCEPT ![c] = st]

\* Frames sent on a connection the receiver has closed arrive nowhere.
SendFrames(c, ms) ==
    toRecv' = IF recvEnd[c] = "closed" THEN toRecv ELSE [toRecv EXCEPT ![c] = @ \o ms]

(* Send, on the command's goroutine.                                       *)

\* The answer of the receiver arrives, the data channel opens and
\* startNonceExchange sends the first message.
AnswerArrives(c) ==
    /\ main[c] = "waitAnswer"
    /\ sendEnd[c] = "open"
    /\ recvEnd[c] \in {"open", "dropped"}
    /\ Goto(c, "waitAccept")
    /\ opened' = opened \cup {c}
    /\ SendFrames(c, <<NonceMsg(c)>>)
    /\ SetState(c, "waitNonce")
    /\ UNCHANGED <<toSend, recvEnd, sendEnd, sNonce, receiverToken, sBuffer, acceptedCh,
                   resultCh, queueVars, dropped, paired>>

\* The receiver accepted: the queue is what it sent tokens for.
TakeAccepted(c) ==
    /\ main[c] = "waitAccept"
    /\ acceptedCh[c] # None
    /\ todo' = [todo EXCEPT ![c] = acceptedCh[c] \cap FilesOf(c)]
    /\ acceptedCh' = [acceptedCh EXCEPT ![c] = None]
    /\ Goto(c, "queue")
    /\ UNCHANGED <<wireVars, sstate, sNonce, receiverToken, sBuffer, resultCh,
                   sending, announced, chunksSent, confirmed, dropped, paired>>

\* A decline, an error, the end of the connection, a timeout, or (once files are
\* sent) an error of the disk or of the channel: Send or SendFiles fails.
GiveUp(c) ==
    /\ main[c] \notin {"success", "failed"}
    /\ Goto(c, "failed")
    /\ UNCHANGED <<wireVars, sstate, sNonce, receiverToken, sBuffer, acceptedCh, resultCh, queueVars, dropped, paired>>

(* SendFiles.                                                              *)

\* The first header, or the delimiter when nothing was accepted.
StartQueue(c) ==
    /\ main[c] = "queue"
    /\ sendEnd[c] = "open"
    /\ IF todo[c] = {}
       THEN /\ SendFrames(c, <<Delimiter>>)
            /\ Goto(c, "flush")
            /\ UNCHANGED <<todo, sending>>
       ELSE \E f \in todo[c] : /\ SendFrames(c, <<Header(f)>>)
                               /\ todo' = [todo EXCEPT ![c] = @ \ {f}]
                               /\ sending' = [sending EXCEPT ![c] = f]
                               /\ Goto(c, "data")
    /\ UNCHANGED <<toSend, recvEnd, sendEnd, opened, sstate, sNonce, receiverToken, sBuffer,
                   acceptedCh, resultCh, announced, chunksSent, confirmed, dropped, paired>>

SendChunk(c) ==
    /\ main[c] = "data"
    /\ sendEnd[c] = "open"
    /\ chunksSent[c] < Size[sending[c]]
    /\ SendFrames(c, <<Chunk(sending[c])>>)
    /\ chunksSent' = [chunksSent EXCEPT ![c] = @ + 1]
    /\ UNCHANGED <<toSend, recvEnd, sendEnd, opened, main, sstate, sNonce, receiverToken,
                   sBuffer, acceptedCh, resultCh, todo, sending, announced,
                   confirmed, dropped, paired>>

\* The next header, or the final delimiter, goes out before the acknowledgement of
\* the current file is awaited.
EndFile(c) ==
    /\ main[c] = "data"
    /\ sendEnd[c] = "open"
    /\ chunksSent[c] = Size[sending[c]]
    /\ IF todo[c] = {}
       THEN SendFrames(c, <<Delimiter>>) /\ UNCHANGED <<todo, announced>>
       ELSE \E f \in todo[c] : /\ SendFrames(c, <<Header(f)>>)
                               /\ todo' = [todo EXCEPT ![c] = @ \ {f}]
                               /\ announced' = [announced EXCEPT ![c] = f]
    /\ Goto(c, "waitAck")
    /\ UNCHANGED <<toSend, recvEnd, sendEnd, opened, sstate, sNonce, receiverToken, sBuffer,
                   acceptedCh, resultCh, sending, chunksSent, confirmed, dropped, paired>>

AnyResult(c) == resultCh[c].file = sending[c]                        \* mutant

GoodResult(c) == resultCh[c].ok /\ resultCh[c].file = sending[c]

\* The acknowledgement is taken: next file, done, or failure.
TakeResult(c) ==
    /\ main[c] = "waitAck"
    /\ resultCh[c] # None
    /\ resultCh' = [resultCh EXCEPT ![c] = None]
    /\ IF GoodResult(c)
       THEN /\ confirmed' = confirmed \cup {sending[c]}
            /\ Goto(c, IF announced[c] = None THEN "flush" ELSE "data")
            /\ sending' = [sending EXCEPT ![c] = announced[c]]
            /\ announced' = [announced EXCEPT ![c] = None]
            /\ chunksSent' = [chunksSent EXCEPT ![c] = 0]
       ELSE Goto(c, "failed") /\ UNCHANGED <<sending, announced, chunksSent, confirmed>>
    /\ UNCHANGED <<wireVars, sstate, sNonce, receiverToken, sBuffer, acceptedCh, todo, dropped, paired>>

\* The send buffer is empty, or its timeout passed on a living connection.
Flush(c) ==
    /\ main[c] = "flush"
    /\ Goto(c, "success")
    /\ SetState(c, "done")
    /\ UNCHANGED <<wireVars, sNonce, receiverToken, sBuffer, acceptedCh, resultCh,
                   queueVars, dropped, paired>>

\* Close, after Send or SendFiles has returned.
CloseSender(c) ==
    /\ main[c] \in {"success", "failed"}
    /\ sendEnd[c] = "open"
    /\ sendEnd' = [sendEnd EXCEPT ![c] = "closed"]
    /\ toSend' = [toSend EXCEPT ![c] = <<>>]
    /\ UNCHANGED <<toRecv, recvEnd, opened, senderVars>>

\* OnClose: the connection is closed, failed or disconnected.
SenderPeerClosed(c) ==
    /\ sendEnd[c] = "open"
    /\ sendEnd' = [sendEnd EXCEPT ![c] = "closed"]
    /\ toSend' = [toSend EXCEPT ![c] = <<>>]
    /\ SetState(c, "done")
    /\ UNCHANGED <<toRecv, recvEnd, opened, main, sNonce, receiverToken, sBuffer, acceptedCh,
                   resultCh, queueVars, dropped, paired>>

-----------------------------------------------------------------------------
(* handleDataMessage, on the read loop of the connection.                  *)

SFrame(c) == Head(toSend[c])

SIncoming(c) ==
    /\ sendEnd[c] = "open"
    /\ toSend[c] # <<>>
    /\ toSend' = [toSend EXCEPT ![c] = Tail(@)]
    /\ UNCHANGED <<recvEnd, sendEnd, opened>>

SCollectControl(c) ==
    /\ SIncoming(c)
    /\ Binary(SFrame(c))
    /\ sBuffer' = [sBuffer EXCEPT ![c] = SFrame(c)]
    /\ UNCHANGED <<toRecv, main, sstate, sNonce, receiverToken, acceptedCh, resultCh,
                   queueVars, dropped, paired>>

SMessage(c) == IF SFrame(c) = Delimiter THEN sBuffer[c] ELSE SFrame(c)

SControlMessage(c) ==
    /\ SIncoming(c)
    /\ ~Binary(SFrame(c))
    /\ SMessage(c) # None
    /\ sBuffer' = IF SFrame(c) = Delimiter THEN [sBuffer EXCEPT ![c] = None] ELSE sBuffer

\* The statuses a message carries: "answer" and "status" parse alike.
HasStatus(c, S) == SMessage(c).t \in {"answer", "status"} /\ SMessage(c).st \in S

\* fileResults takes one result; a second one is dropped.
HandleFileResponse(c) ==
    /\ SControlMessage(c)
    /\ SMessage(c).t = "resp"
    /\ resultCh' = IF resultCh[c] = None THEN [resultCh EXCEPT ![c] = SMessage(c)]
                   ELSE resultCh
    /\ dropped' = IF resultCh[c] # None /\ main[c] \in {"data", "waitAck"}
                  THEN dropped \cup {c} ELSE dropped
    /\ UNCHANGED <<toRecv, main, sstate, sNonce, receiverToken, acceptedCh, queueVars, paired>>

HandleNonceResponse(c) ==
    /\ SControlMessage(c)
    /\ sstate[c] = "waitNonce"
    /\ SMessage(c).t = "nonce"
    /\ sNonce' = [sNonce EXCEPT ![c] = <<c, SMessage(c).by>>]
    /\ SendFrames(c, <<TokenMsg(PeerOf[c], <<c, SMessage(c).by>>)>>)
    /\ SetState(c, "waitToken")
    /\ UNCHANGED <<main, receiverToken, acceptedCh, resultCh, queueVars, dropped, paired>>

\* handleTokenResponse, for the token and for each PIN.
Refused(c) ==
    /\ SControlMessage(c)
    /\ sstate[c] \in {"waitToken", "waitPin"}
    /\ HasStatus(c, {"TOO_MANY_ATTEMPTS", "INVALID_SIGNATURE"})
    /\ SetState(c, "done")
    /\ UNCHANGED <<toRecv, main, sNonce, receiverToken, acceptedCh, resultCh, queueVars, dropped, paired>>

HandleTokenResponse(c) ==
    /\ SControlMessage(c)
    /\ sstate[c] \in {"waitToken", "waitPin"}
    /\ HasStatus(c, {"OK", "PIN_REQUIRED"})
    /\ receiverToken' = [receiverToken EXCEPT
                            ![c] = IF SMessage(c).t = "status" THEN SMessage(c).nonce ELSE None]
    /\ IF SMessage(c).st = "PIN_REQUIRED"
       THEN /\ \E ok \in {FALSE, (c \in KnowsPin)} : SendFrames(c, <<PinMsg(ok)>>)
            /\ SetState(c, "waitPin")
       ELSE /\ SendFrames(c, <<ListMsg(FilesOf(c)), Delimiter>>)
            /\ SetState(c, "waitFileAccept")
    /\ UNCHANGED <<main, sNonce, acceptedCh, resultCh, queueVars, dropped, paired>>

\* handleFileAcceptance.
FilesAccepted(c) ==
    /\ SControlMessage(c)
    /\ sstate[c] = "waitFileAccept"
    /\ HasStatus(c, {"OK"})
    /\ acceptedCh' = [acceptedCh EXCEPT
                         ![c] = IF @ # None THEN @
                                ELSE IF SMessage(c).t = "answer" THEN SMessage(c).files ELSE {}]
    /\ SetState(c, "sendingFiles")
    /\ UNCHANGED <<toRecv, main, sNonce, receiverToken, resultCh, queueVars, dropped, paired>>

\* The user answers the PAIR request, unless the receiver's key does not match its
\* token.  PublicKeyPEM is empty when the key cannot be encoded, and the answer then
\* carries no key.
PairRequested(c) ==
    /\ SControlMessage(c)
    /\ sstate[c] = "waitFileAccept"
    /\ HasStatus(c, {"PAIR"})
    /\ IF receiverToken[c] \notin {None, sNonce[c]}
       THEN /\ SendFrames(c, <<PairMsg("INVALID_SIGNATURE", None)>>)
            /\ SetState(c, "done")
            /\ UNCHANGED paired
       ELSE /\ \/ /\ TRUE \in PairAnswers
                  /\ \E key \in {PeerOf[c], IF c \in Keyless THEN None ELSE PeerOf[c]} :
                        SendFrames(c, <<PairMsg("OK", key)>>)
                  /\ paired' = paired \cup {c}
               \/ /\ FALSE \in PairAnswers
                  /\ SendFrames(c, <<PairMsg("PAIR_DECLINED", None)>>)
                  /\ UNCHANGED paired
            /\ UNCHANGED sstate
    /\ UNCHANGED <<main, sNonce, receiverToken, acceptedCh, resultCh, queueVars, dropped>>

\* A decline ends Send (GiveUp); what is not expected is ignored.
SIgnoreFrame(c) ==
    /\ SIncoming(c)
    /\ ~Binary(SFrame(c))
    /\ sBuffer' = IF SFrame(c) = Delimiter THEN [sBuffer EXCEPT ![c] = None] ELSE sBuffer
    /\ SMessage(c) # None =>
          /\ SMessage(c).t # "resp"
          /\ ~(sstate[c] = "waitNonce" /\ SMessage(c).t = "nonce")
          /\ ~(/\ sstate[c] \in {"waitToken", "waitPin"}
               /\ HasStatus(c, {"OK", "PIN_REQUIRED", "TOO_MANY_ATTEMPTS", "INVALID_SIGNATURE"}))
          /\ ~(sstate[c] = "waitFileAccept" /\ HasStatus(c, {"OK", "PAIR"}))
    /\ UNCHANGED <<toRecv, main, sstate, sNonce, receiverToken, acceptedCh, resultCh,
                   queueVars, dropped, paired>>

-----------------------------------------------------------------------------

\* The command's goroutine.
MainStep(c) ==
    \/ AnswerArrives(c) \/ TakeAccepted(c) \/ StartQueue(c) \/ SendChunk(c) \/ EndFile(c)
    \/ TakeResult(c) \/ Flush(c) \/ GiveUp(c) \/ CloseSender(c)

\* The read loop of its connection.
HandlerStep(c) ==
    \/ SCollectControl(c) \/ HandleFileResponse(c) \/ HandleNonceResponse(c) \/ Refused(c)
    \/ HandleTokenResponse(c) \/ FilesAccepted(c) \/ PairRequested(c) \/ SIgnoreFrame(c)

SenderStep(c) == MainStep(c) \/ HandlerStep(c) \/ SenderPeerClosed(c)
=============================================================================
