---------------------------- MODULE RTCTransfer ----------------------------
(***************************************************************************)
(* WebRTC transfers: senders, each on a connection of its own, and the     *)
(* receiver that serves one of them at a time.                             *)
(***************************************************************************)
EXTENDS RTCReceiver, RTCSender

vars == <<wireVars, receiverVars, senderVars>>

Init == WireInit /\ ReceiverInit /\ SenderInit

\* An offer reaches the receiver while its sender still waits for an answer; one
\* that finds the receiver busy is ignored.
Offer(c) == main[c] = "waitAnswer" /\ ReserveSession(c) /\ UNCHANGED senderVars

Next ==
    \/ \E c \in Conn : Offer(c)
    \/ ReceiverStep /\ UNCHANGED senderVars
    \/ \E c \in Conn : SenderStep(c) /\ UNCHANGED receiverVars

Spec == Init /\ [][Next]_vars

(* Some process that can run does run: the goroutines of a sender (every   *)
(* wait has a timeout, so that the command returns and closes the          *)
(* connection), the receiver's handlers of a connection (ICE notices when  *)
(* the other end is gone), and the timers of the watchdog.                 *)
SenderProgress(c) == MainStep(c) \/ HandlerStep(c)

ReceiverProgress ==
    \/ \E c \in Conn : \/ InstallPeer(c) \/ FailAccept(c) \/ HandleFrame(c) \/ SelectFiles(c)
                       \/ sendEnd[c] = "closed" /\ HandlePeerClosed(c)
    \/ \E g \in File : StaleWatchdog(g) \/ CheckTransferWatchdog(g)

Progress ==
    \/ UNCHANGED receiverVars /\ \E c \in Conn : SenderProgress(c)
    \/ UNCHANGED senderVars /\ ReceiverProgress

FairSpec == Spec /\ WF_vars(Progress)

-----------------------------------------------------------------------------
(* Safety.                                                                 *)

TypeOK == WireTypeOK /\ ReceiverTypeOK /\ SenderTypeOK

\* A command that reports success has every file that the receiver's filter lets
\* through on the receiver's disk.
SuccessMeansSaved ==
    \A c \in Conn : main[c] = "success" => FilesOf(c) \cap Allowed \subseteq saved

\* A file is on disk unfinished exactly while it is the current file and the
\* transfer counts as active: no path of rejection, completion, watchdog or
\* reconnection leaves a partial file or a busy marker behind.
PartialOnlyWhileActive ==
    /\ partial = IF currentFileID = None THEN {} ELSE {currentFileID}
    /\ transferActive <=> currentFileID # None
    /\ state = "receivingFiles" <=> currentFileID # None

\* With mandatory pairing no file of a session gets a token before the sender's key
\* is known, and is that of the session's own sender, or (an answer without a key
\* is not verified) its user has agreed to pair.
PairedBeforeTokens ==
    /\ senderPublicKey # None => senderPublicKey = PeerOf[session]
    /\ RequirePairing /\ fileTokens # {} => senderPublicKey # None \/ session \in paired

\* Whatever late frame or resumed selection a session meets, the key it keeps is the
\* one that signed its token, and a device is trusted only if its user agreed to pair.
KeysVerified ==
    /\ senderPublicKey # None /\ senderToken # None =>
          Verified(senderPublicKey, senderToken, finalNonce)
    /\ trusted \subseteq KnownPeers \cup {PeerOf[c] : c \in paired}

\* The one-place channel fileResults never overflows while the sender needs it.
AcksNotDropped == dropped = {}

D == INSTANCE Delivery WITH Key <- File, stored <- saved, failed <- refused, acked <- confirmed

\* Files that arrive over WebRTC keep the promises of module Delivery.
RTCDelivery == D!Spec

\* What AcceptOffer says: "a duplicate or second sender must never tear down an
\* in-progress transfer".  The file being received ends only by a frame of its own
\* sender, the end of that connection, the watchdog or the receiver's Close.
NoTeardown ==
    [][currentFileID # None /\ currentFileID' = None =>
          \/ toRecv'[session] # toRecv[session]
          \/ recvEnd'[session] # recvEnd[session] /\ toRecv' = toRecv]_vars

-----------------------------------------------------------------------------
(* Liveness.                                                               *)

\* The receiver is never busy for ever: whatever happens in a handshake or a
\* transfer, the connection it holds is let go, and another offer can be accepted.
ReceiverFreed == peer # None ~> peer = None

\* No transfer stays active for ever, even when the receiver has already let go of
\* the connection that feeds it.
TransferEnds == transferActive ~> ~transferActive
=============================================================================
