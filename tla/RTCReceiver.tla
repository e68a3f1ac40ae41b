---------------------------- MODULE RTCReceiver ----------------------------
(***************************************************************************)
(* RTCReceiver (webrtc/transfer/receiver.go): one receive session at a     *)
(* time, a handshake (nonces, tokens, PIN, file list, PAIR) and a pipeline *)
(* of files.  Every callback of every connection runs under r.mu, so each  *)
(* handler is one step, except that handleFileList lets go of the mutex    *)
(* around the file selection callback.  The handlers do not look at which  *)
(* connection a frame came from.                                           *)
(***************************************************************************)
EXTENDS RTCWire

CONSTANTS
    PinSet,                 \* whether the receiver has a PIN
    RequirePairing,
    KnownPeers,             \* devices in the trusted store from earlier runs
    Allowed,                \* the files OnSelectFiles lets through
    Hashed,                 \* the files announced with a sha256
    MaxFilesPerSession,
    MaxPINAttempts,
    StaleHandlers,            \* whether handlers of a dropped connection may run
    IdleChecks,             \* receiveFileIdleTimeout / receiveWatchdogInterval
    DiskMayFail

ASSUME ReceiverAssumption ==
    /\ PinSet \in BOOLEAN /\ RequirePairing \in BOOLEAN /\ DiskMayFail \in BOOLEAN
    /\ StaleHandlers \in BOOLEAN
    /\ KnownPeers \subseteq Peer /\ Allowed \subseteq File /\ Hashed \subseteq File
    /\ MaxFilesPerSession \in Nat
    /\ MaxPINAttempts \in Nat \ {0} /\ IdleChecks \in Nat \ {0}

VARIABLES
    state, peer,
    accepting,              \* the connection AcceptOffer has reserved the session for
    session,                \* senderSignalingID: whose offer began the session
    pinAttempts,
    finalNonce, senderToken, senderPublicKey,
    controlBuffer,          \* None, one message, or Garbage
    files, acceptedIDs,
    fileTokens,             \* the files that have a token in this session
    selecting,              \* connections whose handler is inside OnSelectFiles
    currentFileID, currentBytes,
    pure,                   \* whether all bytes of the current file are its own
    partial,                \* filePaths: files being written
    transferActive,
    generation,             \* of the watchdog, named by the file that began it
    timers,                 \* watchdog callbacks to come, by generation
    lastSeen,               \* the file and bytes the watchdog saw last
    idleChecks,
    blockedPeers, trusted,  \* kept beyond the session
    saved, refused          \* files saved; files reported as not saved

handshakeVars == <<session, pinAttempts, finalNonce, senderToken, senderPublicKey>>
listVars      == <<files, acceptedIDs, fileTokens>>
writeVars     == <<currentFileID, currentBytes, pure, partial, transferActive>>
watchVars     == <<generation, timers, lastSeen, idleChecks>>
storeVars     == <<blockedPeers, trusted>>

receiverVars == <<state, peer, accepting, handshakeVars, controlBuffer, listVars,
                  selecting, writeVars, watchVars, storeVars, saved, refused>>

Garbage == [t |-> "garbage"]

State == {"waitNonce", "waitToken", "waitPin", "waitFileList", "waitPairResponse",
          "waitFiles", "receivingFiles", "done"}

ReceiverTypeOK ==
    /\ state \in State
    /\ peer \in Conn \cup {None}
    /\ accepting \in Conn \cup {None}
    /\ session \in Conn \cup {None}
    /\ pinAttempts \in 0..MaxPINAttempts
    /\ finalNonce \in Nonce \cup {None}
    /\ senderToken \in [key : Peer, nonce : Nonce] \cup {None}
    /\ senderPublicKey \in Peer \cup {None}
    /\ controlBuffer \in {None, Garbage} \cup {ListMsg(FilesOf(c)) : c \in Conn}
    /\ files \subseteq File /\ acceptedIDs \subseteq File /\ fileTokens \subseteq File
    /\ selecting \subseteq Conn
    /\ currentFileID \in File \cup {None}
    /\ currentBytes \in Nat
    /\ pure \in BOOLEAN /\ transferActive \in BOOLEAN
    /\ partial \subseteq File /\ timers \subseteq File
    /\ generation \in File \cup {None}
    /\ lastSeen \in (File \cup {None}) \X Nat
    /\ idleChecks \in 0..IdleChecks
    /\ blockedPeers \subseteq Peer /\ trusted \subseteq Peer
    /\ saved \subseteq File /\ refused \subseteq File

ReceiverInit ==
    /\ state = "waitNonce" /\ peer = None /\ accepting = None
    /\ session = None /\ pinAttempts = 0
    /\ finalNonce = None /\ senderToken = None /\ senderPublicKey = None
    /\ controlBuffer = None
    /\ files = {} /\ acceptedIDs = {} /\ fileTokens = {}
    /\ selecting = {}
    /\ currentFileID = None /\ currentBytes = 0 /\ pure = TRUE
    /\ partial = {} /\ transferActive = FALSE
    /\ generation = None /\ timers = {} /\ lastSeen = <<None, 0>> /\ idleChecks = 0
    /\ blockedPeers = {} /\ trusted = KnownPeers
    /\ saved = {} /\ refused = {}

-----------------------------------------------------------------------------
(* Parts of handlers.                                                      *)

KeepPartialFiles ==                                                 \* mutant
    /\ UNCHANGED partial
    /\ currentFileID' = None /\ currentBytes' = 0 /\ pure' = TRUE
    /\ transferActive' = FALSE

StayActive ==                                                       \* mutant
    /\ partial' = {}
    /\ currentFileID' = None /\ currentBytes' = 0 /\ pure' = TRUE
    /\ UNCHANGED transferActive

\* cleanupPartialFilesLocked: close and remove every file being written.
CleanupPartialFiles ==
    /\ partial' = {}
    /\ currentFileID' = None /\ currentBytes' = 0 /\ pure' = TRUE
    /\ transferActive' = FALSE

\* The receiver lets go of its connection; a goroutine will close it.
DropPeer ==
    /\ peer' = None
    /\ recvEnd' = IF peer = None THEN recvEnd ELSE [recvEnd EXCEPT ![peer] = "dropped"]

Terminate ==
    /\ CleanupPartialFiles
    /\ state' = "done"
    /\ DropPeer

\* rejectFileTransfer: the connection goes, the session and its tokens stay.
RejectFileTransfer ==
    /\ DropPeer
    /\ state' = "waitFiles"
    /\ currentFileID' = None

\* sendJSON to the installed connection, lost where nobody can receive it.
CanSend == peer # None /\ peer \in opened

Reply(ms) ==
    toSend' = IF CanSend /\ sendEnd[peer] = "open"
              THEN [toSend EXCEPT ![peer] = @ \o ms]
              ELSE toSend

-----------------------------------------------------------------------------
(* Offers.                                                                 *)

\* The new session knows no file yet.
NoTokens == {}

\* AcceptOffer reserves the session and forgets the last one.
ReserveSession(c) ==
    /\ recvEnd[c] = "none"
    /\ PeerOf[c] \notin blockedPeers
    /\ accepting = None
    /\ peer = None \/ state = "done"
    /\ StaleHandlers \/ selecting = {}
    /\ accepting' = c
    /\ CleanupPartialFiles
    /\ DropPeer
    /\ state' = "waitNonce"
    /\ session' = c /\ pinAttempts' = 0
    /\ finalNonce' = None /\ senderToken' = None /\ senderPublicKey' = None
    /\ controlBuffer' = None
    /\ files' = {} /\ acceptedIDs' = {} /\ fileTokens' = NoTokens
    /\ UNCHANGED <<toRecv, toSend, sendEnd, opened, selecting, watchVars, storeVars,
                   saved, refused>>

\* failAccept: a bad offer, or no connection could be made.
FailAccept(c) ==
    /\ accepting = c
    /\ accepting' = None
    /\ state' = "done"
    /\ recvEnd' = [recvEnd EXCEPT ![c] = "closed"]
    /\ UNCHANGED <<toRecv, toSend, sendEnd, opened, peer, handshakeVars, controlBuffer,
                   listVars, selecting, writeVars, watchVars, storeVars, saved, refused>>

\* The connection is installed and the answer goes out through signaling.
InstallPeer(c) ==
    /\ accepting = c
    /\ accepting' = None
    /\ peer' = c
    /\ recvEnd' = [recvEnd EXCEPT ![c] = "open"]
    /\ UNCHANGED <<toRecv, toSend, sendEnd, opened, state, handshakeVars, controlBuffer,
                   listVars, selecting, writeVars, watchVars, storeVars, saved, refused>>

\* Close of the receiver, when signaling is lost; a reserved offer comes to nothing.
CloseReceiver ==
    /\ peer # None \/ accepting # None
    /\ CleanupPartialFiles
    /\ state' = "done"
    /\ peer' = None
    /\ accepting' = None
    /\ recvEnd' = [c \in Conn |-> IF c = accepting THEN "closed"
                                  ELSE IF c = peer THEN "dropped" ELSE recvEnd[c]]
    /\ UNCHANGED <<toRecv, toSend, sendEnd, opened, handshakeVars, controlBuffer, listVars,
                   selecting, watchVars, storeVars, saved, refused>>

ClosedWhileActive(c) == peer = c /\ transferActive                   \* mutant

ClosedIsCurrent(c) == peer = c

\* The installed connection reports that it is closed, failed or disconnected.
HandlePeerClosed(c) ==
    /\ recvEnd[c] = "open"
    /\ ClosedIsCurrent(c)
    /\ Terminate
    /\ accepting' = None
    /\ UNCHANGED <<toRecv, toSend, sendEnd, opened, handshakeVars, controlBuffer, listVars,
                   selecting, watchVars, storeVars, saved, refused>>

\* A connection the receiver no longer uses is closed (which handlePeerClosed
\* ignores), and what was under way on it is lost.
CloseRecvEnd(c) ==
    /\ recvEnd[c] = "dropped"
    /\ c \notin selecting
    /\ recvEnd' = [recvEnd EXCEPT ![c] = "closed"]
    /\ toRecv' = [toRecv EXCEPT ![c] = <<>>]
    /\ UNCHANGED <<toSend, sendEnd, opened, receiverVars>>

\* The block of a peer runs out.
BlockExpires(p) ==
    /\ p \in blockedPeers
    /\ blockedPeers' = blockedPeers \ {p}
    /\ UNCHANGED <<wireVars, state, peer, accepting, handshakeVars, controlBuffer, listVars,
                   selecting, writeVars, watchVars, trusted, saved, refused>>

-----------------------------------------------------------------------------
(* handleDataMessage.                                                      *)

Frame(c) == Head(toRecv[c])

\* The read loop of connection c hands over its next frame.
Incoming(c) ==
    /\ recvEnd[c] = "open" \/ (StaleHandlers /\ recvEnd[c] = "dropped")
    /\ c \notin selecting
    /\ toRecv[c] # <<>>
    /\ toRecv' = [toRecv EXCEPT ![c] = Tail(@)]

Receiving == state = "receivingFiles" /\ currentFileID # None

\* A delimiter completes the message in the control buffer.
Message(c) == IF Frame(c) = Delimiter THEN controlBuffer ELSE Frame(c)

ControlMessage(c) ==
    /\ Incoming(c)
    /\ ~Receiving
    /\ ~Binary(Frame(c))
    /\ Message(c) # None
    /\ controlBuffer' = IF Frame(c) = Delimiter THEN None ELSE controlBuffer

\* The message each state waits for.
Expected ==
    CASE state = "waitNonce" -> "nonce"
      [] state = "waitToken" -> "token"
      [] state = "waitPin" -> "pin"
      [] state = "waitFileList" -> "list"
      [] state = "waitPairResponse" -> "pair"
      [] state = "waitFiles" -> "header"
      [] OTHER -> "none"

Handle(c, t) == ControlMessage(c) /\ Message(c).t = t /\ Expected = t

\* An agreement to pair that carries no key reads as a file list without files.
LooksEmpty(c) == Expected = "list" /\ Message(c) = PairMsg("OK", None)

\* What parses as no message, or not as the expected one, is dropped.
IgnoreFrame(c) ==
    /\ Incoming(c)
    /\ ~Receiving
    /\ ~Binary(Frame(c))
    /\ controlBuffer' = IF Frame(c) = Delimiter THEN None ELSE controlBuffer
    /\ Message(c) # None => Message(c).t # Expected /\ ~LooksEmpty(c)
    /\ UNCHANGED <<toSend, recvEnd, sendEnd, opened, state, peer, accepting, handshakeVars,
                   listVars, selecting, writeVars, watchVars, storeVars, saved, refused>>

CollectControl(c) ==
    /\ Incoming(c)
    /\ ~Receiving
    /\ Binary(Frame(c))
    /\ controlBuffer' = IF controlBuffer = None /\ Frame(c).t = "list"
                        THEN Frame(c) ELSE Garbage
    /\ UNCHANGED <<toSend, recvEnd, sendEnd, opened, state, peer, accepting, handshakeVars,
                   listVars, selecting, writeVars, watchVars, storeVars, saved, refused>>

-----------------------------------------------------------------------------
(* The handshake.                                                          *)

HandleNonce(c) ==
    /\ Handle(c, "nonce")
    /\ finalNonce' = <<Message(c).by, session>>
    /\ Reply(<<NonceMsg(session)>>)
    /\ state' = IF CanSend THEN "waitToken" ELSE state
    /\ UNCHANGED <<recvEnd, sendEnd, opened, peer, accepting, session, pinAttempts,
                   senderToken, senderPublicKey, listVars, selecting, writeVars, watchVars,
                   storeVars, saved, refused>>

\* VerifyTokenNonce: key p signed exactly these two nonces.
Verified(p, token, n) == token.key = p /\ token.nonce = n

\* A sender whose key is in the trusted device store need not pair again.
HandleToken(c) ==
    LET token == [key |-> Message(c).key, nonce |-> Message(c).nonce]
        known == {p \in trusted : RequirePairing /\ Verified(p, token, finalNonce)}
    IN  /\ Handle(c, "token")
        /\ senderToken' = token
        /\ senderPublicKey' = IF known = {} THEN senderPublicKey ELSE token.key
        /\ Reply(<<Status(IF PinSet THEN "PIN_REQUIRED" ELSE "OK", finalNonce)>>)
        /\ state' = IF PinSet THEN "waitPin" ELSE "waitFileList"
        /\ UNCHANGED <<recvEnd, sendEnd, opened, peer, accepting, session, pinAttempts,
                       finalNonce, listVars, selecting, writeVars, watchVars, storeVars,
                       saved, refused>>

PinCorrect(c) ==
    /\ Handle(c, "pin")
    /\ Message(c).ok
    /\ Reply(<<Status("OK", None)>>)
    /\ state' = "waitFileList"
    /\ UNCHANGED <<recvEnd, sendEnd, opened, peer, accepting, handshakeVars, listVars,
                   selecting, writeVars, watchVars, storeVars, saved, refused>>

OneMoreAttempt == pinAttempts >= MaxPINAttempts                      \* mutant

LastAttempt == pinAttempts + 1 >= MaxPINAttempts

\* The last wrong PIN blocks the device and ends the session.
PinWrong(c) ==
    /\ Handle(c, "pin")
    /\ ~Message(c).ok
    /\ pinAttempts' = pinAttempts + 1
    /\ Reply(<<Status(IF LastAttempt THEN "TOO_MANY_ATTEMPTS" ELSE "PIN_REQUIRED", None)>>)
    /\ IF LastAttempt
       THEN blockedPeers' = blockedPeers \cup {PeerOf[session]} /\ Terminate
       ELSE UNCHANGED <<blockedPeers, recvEnd, state, peer, writeVars>>
    /\ UNCHANGED <<sendEnd, opened, accepting, session, finalNonce, senderToken,
                   senderPublicKey, listVars, selecting, watchVars, trusted, saved, refused>>

\* handleFileList up to the selection callback, which runs without the mutex.
HandleFileList(c) ==
    /\ Handle(c, "list")
    /\ Cardinality(Message(c).files) <= MaxFilesPerSession
    /\ files' = Message(c).files
    /\ selecting' = selecting \cup {c}
    /\ UNCHANGED <<toSend, recvEnd, sendEnd, opened, state, peer, accepting, handshakeVars,
                   acceptedIDs, fileTokens, writeVars, watchVars, storeVars, saved, refused>>

TooManyFiles(c) ==
    /\ Handle(c, "list")
    /\ Cardinality(Message(c).files) > MaxFilesPerSession
    /\ Reply(<<Answer("DECLINED", {}), Delimiter>>)
    /\ UNCHANGED <<recvEnd, sendEnd, opened, state, peer, accepting, handshakeVars, listVars,
                   selecting, writeVars, watchVars, storeVars, saved, refused>>

\* Nothing is chosen from a list without files (the callback counts as immediate).
EmptyList(c) ==
    /\ ControlMessage(c)
    /\ LooksEmpty(c)
    /\ files' = {} /\ acceptedIDs' = {}
    /\ Reply(<<Answer("DECLINED", {}), Delimiter>>)
    /\ UNCHANGED <<recvEnd, sendEnd, opened, state, peer, accepting, handshakeVars,
                   fileTokens, selecting, writeVars, watchVars, storeVars, saved, refused>>

\* prepareFilesForReceive: tokens for the files that the current list holds.
PreparedFiles(ids) == ids \cap files

AcceptFiles(ids) ==
    /\ fileTokens' = fileTokens \cup PreparedFiles(ids)
    /\ Reply(<<Answer("OK", PreparedFiles(ids)), Delimiter>>)
    /\ state' = IF CanSend THEN "waitFiles" ELSE state

MustPair == RequirePairing /\ senderPublicKey = None

\* handleFileList after the callback has chosen among the files of the list that c
\* sent, with whatever session there is by now.
SelectFiles(c) ==
    LET chosen == FilesOf(c) \cap Allowed
    IN  /\ c \in selecting
        /\ selecting' = selecting \ {c}
        /\ acceptedIDs' = chosen
        /\ CASE peer = None -> UNCHANGED <<toSend, state, fileTokens>>
             [] peer # None /\ chosen = {} ->
                  Reply(<<Answer("DECLINED", {}), Delimiter>>) /\ UNCHANGED <<state, fileTokens>>
             [] peer # None /\ chosen # {} /\ MustPair ->
                  /\ Reply(<<Answer("PAIR", {}), Delimiter>>)
                  /\ state' = IF CanSend THEN "waitPairResponse" ELSE state
                  /\ UNCHANGED fileTokens
             [] OTHER -> AcceptFiles(chosen)
        /\ UNCHANGED <<toRecv, recvEnd, sendEnd, opened, peer, accepting, handshakeVars,
                       controlBuffer, files, writeVars, watchVars, storeVars, saved, refused>>

KeyMatchesAnything(p) == TRUE                                        \* mutant

\* The key must be the one that signed the token of this session.
KeyMatchesToken(p) == senderToken # None => Verified(p, senderToken, finalNonce)

PairAccepted(c) ==
    /\ Handle(c, "pair")
    /\ Message(c).st = "OK" /\ Message(c).key # None
    /\ KeyMatchesToken(Message(c).key)
    /\ senderPublicKey' = Message(c).key
    /\ trusted' = trusted \cup {Message(c).key}
    /\ AcceptFiles(acceptedIDs)
    /\ UNCHANGED <<recvEnd, sendEnd, opened, peer, accepting, session, pinAttempts, finalNonce,
                   senderToken, files, acceptedIDs, selecting, writeVars, watchVars,
                   blockedPeers, saved, refused>>

\* An answer without a key: there is nothing to verify or to remember.
PairUnverified(c) ==
    /\ Handle(c, "pair")
    /\ Message(c).st = "OK" /\ Message(c).key = None
    /\ AcceptFiles(acceptedIDs)
    /\ UNCHANGED <<recvEnd, sendEnd, opened, peer, accepting, handshakeVars, files, acceptedIDs,
                   selecting, writeVars, watchVars, storeVars, saved, refused>>

AcceptDeclined(c) ==                                                 \* mutant
    /\ Handle(c, "pair")
    /\ Message(c).st = "PAIR_DECLINED"
    /\ AcceptFiles(acceptedIDs)
    /\ UNCHANGED <<recvEnd, sendEnd, opened, peer, accepting, handshakeVars, files, acceptedIDs,
                   selecting, writeVars, watchVars, storeVars, saved, refused>>

\* Pairing is mandatory where it was asked for.
PairDeclined(c) ==
    /\ Handle(c, "pair")
    /\ Message(c).st = "PAIR_DECLINED"
    /\ Terminate
    /\ UNCHANGED <<toSend, sendEnd, opened, accepting, handshakeVars, listVars, selecting,
                   watchVars, storeVars, saved, refused>>

\* A key that does not match, or a signature the sender refused: nothing happens.
PairFailed(c) ==
    /\ Handle(c, "pair")
    /\ \/ Message(c).st = "INVALID_SIGNATURE"
       \/ /\ Message(c).st = "OK" /\ Message(c).key # None
          /\ ~KeyMatchesToken(Message(c).key)
    /\ UNCHANGED <<toSend, recvEnd, sendEnd, opened, state, peer, accepting, handshakeVars,
                   listVars, selecting, writeVars, watchVars, storeVars, saved, refused>>

-----------------------------------------------------------------------------
(* Files.                                                                  *)

DiskOutcome == IF DiskMayFail THEN BOOLEAN ELSE {TRUE}

\* startReceivingFile, with a valid token and the file created.
StartReceivingFile(f) ==
    /\ currentFileID' = f /\ currentBytes' = 0 /\ pure' = TRUE
    /\ state' = "receivingFiles"
    /\ transferActive' = TRUE
    /\ UNCHANGED <<peer, recvEnd>>

\* markTransferStartedLocked: a new generation of the watchdog, unless one runs.
MarkTransferStarted(f, active) ==
    IF active THEN UNCHANGED watchVars
    ELSE /\ generation' = f
         /\ timers' = timers \cup {f}
         /\ lastSeen' = <<f, 0>>
         /\ idleChecks' = 0

HandleFileHeader(c) ==
    /\ Handle(c, "header")
    /\ Message(c).file \in fileTokens
    /\ StartReceivingFile(Message(c).file)
    /\ MarkTransferStarted(Message(c).file, transferActive)
    /\ partial' = partial \cup {Message(c).file}
    /\ UNCHANGED <<toSend, sendEnd, opened, accepting, handshakeVars, listVars, selecting,
                   storeVars, saved, refused>>

\* An unknown file, a wrong token, or a file that cannot be created.
RejectHeader(c) ==
    /\ Handle(c, "header")
    /\ Message(c).file \in fileTokens => DiskMayFail
    /\ RejectFileTransfer
    /\ UNCHANGED <<toSend, sendEnd, opened, accepting, handshakeVars, listVars, selecting,
                   currentBytes, pure, partial, transferActive, watchVars, storeVars,
                   saved, refused>>

HandleBinaryData(c) ==
    /\ Incoming(c)
    /\ Receiving
    /\ Binary(Frame(c))
    /\ currentBytes < Size[currentFileID]
    /\ \E ok \in DiskOutcome :
          /\ currentBytes' = IF ok THEN currentBytes + 1 ELSE currentBytes
          /\ pure' = (pure /\ ok /\ Frame(c) = Chunk(currentFileID))
    /\ UNCHANGED <<toSend, recvEnd, sendEnd, opened, state, peer, accepting, handshakeVars,
                   controlBuffer, listVars, selecting, currentFileID, partial,
                   transferActive, watchVars, storeVars, saved, refused>>

\* cleanupCurrentFile removes the file from disk.
CleanupCurrentFile == partial' = partial \ {currentFileID}

\* More data than declared, or data for no file: the current file goes.
RejectData ==
    /\ CleanupCurrentFile
    /\ transferActive' = FALSE /\ currentBytes' = 0 /\ pure' = TRUE
    /\ RejectFileTransfer

TooMuchData(c) ==
    /\ Incoming(c)
    /\ Receiving
    /\ Binary(Frame(c))
    /\ currentBytes >= Size[currentFileID]
    /\ RejectData
    /\ UNCHANGED <<toSend, sendEnd, opened, accepting, handshakeVars, controlBuffer, listVars,
                   selecting, watchVars, storeVars, saved, refused>>

(* Bytes that are no message, in the state that waits for a header, are    *)
(* taken for data (unless they begin like JSON: IgnoreFrame).              *)
GarbageAsData(c) ==
    /\ ControlMessage(c)
    /\ state = "waitFiles"
    /\ Message(c) = Garbage
    /\ UNCHANGED <<toSend, sendEnd, opened, accepting, handshakeVars, listVars, selecting,
                   watchVars, storeVars, saved, refused>>

RejectGarbage(c) == GarbageAsData(c) /\ RejectData

\* An answer to an older file list has put the state back to waitFiles while a
\* file is received, and the bytes fit into that file.
WriteGarbage(c) ==
    /\ GarbageAsData(c)
    /\ currentFileID # None
    /\ currentBytes' \in (currentBytes + 1)..Size[currentFileID]
    /\ pure' = FALSE
    /\ UNCHANGED <<state, peer, recvEnd, currentFileID, partial, transferActive>>

\* The file is saved when its size, its checksum and the disk agree.
Success(flushed) ==
    /\ flushed
    /\ currentBytes = Size[currentFileID]
    /\ currentFileID \in Hashed => pure

AckTwice(f, ok) == <<FileResponse(f, ok), FileResponse(f, ok)>>      \* mutant
AckAlways(f, ok) == <<FileResponse(f, TRUE)>>                       \* mutant

Acknowledge(f, ok) == <<FileResponse(f, ok)>>

\* finishCurrentFile: every text frame ends the current file, which is kept or
\* removed, and reported to the installed connection.
FinishCurrentFile(c) ==
    /\ Incoming(c)
    /\ Receiving
    /\ ~Binary(Frame(c))
    /\ \E flushed \in DiskOutcome :
          LET ok == Success(flushed)
          IN  /\ Reply(Acknowledge(currentFileID, ok))
              /\ saved' = IF ok THEN saved \cup {currentFileID} ELSE saved
              /\ refused' = IF ok THEN refused ELSE refused \cup {currentFileID}
    /\ UNCHANGED <<sendEnd, opened, accepting, handshakeVars, controlBuffer, listVars,
                   selecting, storeVars>>

NothingCurrent ==
    /\ partial' = partial \ {currentFileID}
    /\ currentBytes' = 0 /\ pure' = TRUE /\ transferActive' = FALSE

\* The final delimiter: the transfer is complete.
FinishLast(c) ==
    /\ FinishCurrentFile(c)
    /\ Frame(c) = Delimiter
    /\ NothingCurrent /\ currentFileID' = None
    /\ state' = "done"
    /\ DropPeer
    /\ UNCHANGED watchVars

FinishThenNext(c) ==
    /\ FinishCurrentFile(c)
    /\ Frame(c).t = "header"
    /\ Frame(c).file \in fileTokens
    /\ StartReceivingFile(Frame(c).file)
    /\ MarkTransferStarted(Frame(c).file, FALSE)
    /\ partial' = (partial \ {currentFileID}) \cup {Frame(c).file}

FinishThenReject(c) ==
    /\ FinishCurrentFile(c)
    /\ Frame(c).t = "header"
    /\ Frame(c).file \in fileTokens => DiskMayFail
    /\ NothingCurrent
    /\ RejectFileTransfer
    /\ UNCHANGED watchVars

\* Any other text is not a header.
FinishThenStop(c) ==
    /\ FinishCurrentFile(c)
    /\ Frame(c).t \notin {"0", "header"}
    /\ Terminate
    /\ UNCHANGED watchVars

-----------------------------------------------------------------------------
(* The watchdog of an active transfer.                                     *)

Stale(g) == ~transferActive \/ generation # g

\* A callback whose transfer is over (Stop came too late) does nothing.
StaleWatchdog(g) ==
    /\ g \in timers
    /\ Stale(g)
    /\ timers' = timers \ {g}
    /\ UNCHANGED <<wireVars, state, peer, accepting, handshakeVars, controlBuffer, listVars,
                   selecting, writeVars, generation, lastSeen, idleChecks, storeVars, saved,
                   refused>>

\* Checks in a row, this one included, that saw no new byte.
IdleFor == IF lastSeen # <<currentFileID, currentBytes>> THEN 0 ELSE idleChecks + 1

CheckTransferWatchdog(g) ==
    /\ g \in timers
    /\ ~Stale(g)
    /\ lastSeen' = <<currentFileID, currentBytes>>
    /\ IF IdleFor >= IdleChecks
       THEN Terminate /\ timers' = timers \ {g} /\ idleChecks' = 0
       ELSE idleChecks' = IdleFor /\ UNCHANGED <<state, peer, recvEnd, writeVars, timers>>
    /\ UNCHANGED <<toRecv, toSend, sendEnd, opened, accepting, handshakeVars, controlBuffer,
                   listVars, selecting, generation, storeVars, saved, refused>>

-----------------------------------------------------------------------------

\* One frame of connection c is handled.
HandleFrame(c) ==
    \/ HandleNonce(c) \/ HandleToken(c) \/ PinCorrect(c) \/ PinWrong(c)
    \/ HandleFileList(c) \/ TooManyFiles(c) \/ EmptyList(c)
    \/ PairAccepted(c) \/ PairUnverified(c) \/ PairDeclined(c) \/ PairFailed(c)
    \/ HandleFileHeader(c) \/ RejectHeader(c)
    \/ HandleBinaryData(c) \/ TooMuchData(c) \/ RejectGarbage(c) \/ WriteGarbage(c)
    \/ FinishLast(c) \/ FinishThenNext(c) \/ FinishThenReject(c) \/ FinishThenStop(c)
    \/ CollectControl(c) \/ IgnoreFrame(c)

ReceiverStep ==
    \/ \E c \in Conn : \/ FailAccept(c) \/ InstallPeer(c)
                       \/ HandleFrame(c) \/ SelectFiles(c)
                       \/ HandlePeerClosed(c) \/ CloseRecvEnd(c)
    \/ CloseReceiver
    \/ \E f \in File : StaleWatchdog(f) \/ CheckTransferWatchdog(f)
    \/ \E p \in Peer : BlockExpires(p)
=============================================================================
