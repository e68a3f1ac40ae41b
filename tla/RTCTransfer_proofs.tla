-------------------------- MODULE RTCTransfer_proofs --------------------------
(***************************************************************************)
(* Proofs about RTCTransfer, for any number of connections, devices and     *)
(* files, any sizes and any settings of the receiver.                       *)
(*                                                                         *)
(* What a frame says depends on the connection it travels on (From), and    *)
(* every file has one place at a time on its way: the sender's queue, its   *)
(* header under way, the current file of the receiver, and at last the set  *)
(* of saved or of refused files (PlaceInv).                                 *)
(*                                                                         *)
(* Where dropped connections are silent (~StaleHandlers), one sender at a   *)
(* time has the receiver's ear: its pipeline holds at most one frame that   *)
(* ends a file or one acknowledgement (PipeInv), and what it was told to    *)
(* send is what it sends and confirms (ShakeInv).                           *)
(***************************************************************************)
EXTENDS RTCTransfer, TLAPS

\* The frames that the sender behind connection c ever sends.
From(c) ==
    {Delimiter, NonceMsg(c), ListMsg(FilesOf(c))}
    \cup {TokenMsg(PeerOf[c], <<c, d>>) : d \in Conn} \cup {PinMsg(ok) : ok \in BOOLEAN}
    \cup {PairMsg("OK", PeerOf[c]), PairMsg("OK", None), PairMsg("PAIR_DECLINED", None),
          PairMsg("INVALID_SIGNATURE", None)}
    \cup {Header(f) : f \in FilesOf(c)} \cup {Chunk(f) : f \in FilesOf(c)}

FramesInv == \A c \in Conn : toRecv[c] \in Seq(From(c))

\* The one-place channels and buffers of the senders.
PlacesTyped ==
    /\ sBuffer \in [Conn -> {None} \cup {m \in ToSendFrame : Binary(m)}]
    /\ acceptedCh \in [Conn -> {None} \cup SUBSET File]
    /\ resultCh \in [Conn -> {None} \cup {m \in ToSendFrame : m.t = "resp"}]

\* A sender handles its own files only.
QueueInv ==
    \A c \in Conn :
        /\ todo[c] \subseteq FilesOf(c)
        /\ sending[c] \in FilesOf(c) \cup {None} /\ announced[c] \in FilesOf(c) \cup {None}
        /\ main[c] \in {"data", "waitAck"} => sending[c] # None

\* The receiver's end of a connection is open while the connection is installed; a
\* session belongs to the connection that is installed or about to be.
EndsInv ==
    /\ \A c \in Conn : recvEnd[c] = "open" <=> peer = c
    /\ peer # None => session = peer
    /\ accepting # None => /\ session = accepting /\ peer = None
                           /\ recvEnd[accepting] = "none"
    /\ session = None => \A c \in Conn : recvEnd[c] = "none"

\* While the session is only reserved nothing happens in it.
ReservedInv ==
    accepting # None => /\ state = "waitNonce" /\ currentFileID = None /\ ~transferActive
                        /\ pinAttempts = 0

\* After the last wrong PIN the session is over.
PinInv == pinAttempts = MaxPINAttempts => state = "done" /\ peer = None

\* File f is announced on its connection.
Announced(f) == \E i \in 1 .. Len(toRecv[ConnOf[f]]) : toRecv[ConnOf[f]][i] = Header(f)

Settled(f) == f \in saved \cup refused

\* It is announced at most once.
Unique(f) ==
    \A i, j \in 1 .. Len(toRecv[ConnOf[f]]) :
        toRecv[ConnOf[f]][i] = Header(f) /\ toRecv[ConnOf[f]][j] = Header(f) => i = j

\* The sender of f has not queued its files yet.
Early(f) == main[ConnOf[f]] \in {"waitAnswer", "waitAccept"}

\* Where a file may be: in no two of these places.
PlaceOf(f) ==
    /\ Early(f) => f \notin todo[ConnOf[f]] /\ ~Announced(f) /\ currentFileID # f /\ ~Settled(f)
    /\ f \in todo[ConnOf[f]] => ~Announced(f) /\ currentFileID # f /\ ~Settled(f)
    /\ Announced(f) => currentFileID # f /\ ~Settled(f)
    /\ currentFileID = f => ~Settled(f)
    /\ Unique(f)

PlaceInv == \A f \in File : PlaceOf(f)

\* Only a saved file is acknowledged.
TrueAck(m) == m.t = "resp" /\ m.ok => m.file \in saved

AllTrue(q) == \A i \in 1 .. Len(q) : TrueAck(q[i])

AckInv == \A c \in Conn : AllTrue(toSend[c]) /\ (resultCh[c] # None => TrueAck(resultCh[c]))

-----------------------------------------------------------------------------
(* Frames.                                                                 *)

\* The connections and their files.
LEMMA OwnFiles ==
    ASSUME NEW c \in Conn, NEW f \in FilesOf(c)
    PROVE  f \in File /\ ConnOf[f] = c
BY DEF FilesOf

\* What a sender sends is a frame.
LEMMA FromIsFrame ==
    ASSUME NEW c \in Conn
    PROVE  From(c) \subseteq ToRecvFrame
<1> SUFFICES ASSUME NEW m \in From(c) PROVE m \in ToRecvFrame
  OBVIOUS
<1> USE WireAssumption
<1>1. CASE m \in {Delimiter, NonceMsg(c), ListMsg(FilesOf(c))}
  BY <1>1 DEF ToRecvFrame
<1>2. CASE m \in {TokenMsg(PeerOf[c], <<c, d>>) : d \in Conn}
  <2>1. PICK d \in Conn : m = TokenMsg(PeerOf[c], <<c, d>>)
    BY <1>2
  <2>2. PeerOf[c] \in Peer /\ <<c, d>> \in Nonce
    BY <2>1 DEF Nonce
  <2> QED
    BY <2>1, <2>2 DEF ToRecvFrame
<1>3. CASE m \in {PinMsg(ok) : ok \in BOOLEAN}
  BY <1>3 DEF ToRecvFrame
<1>4. CASE m \in {PairMsg("OK", PeerOf[c]), PairMsg("OK", None),
                  PairMsg("PAIR_DECLINED", None), PairMsg("INVALID_SIGNATURE", None)}
  BY <1>4 DEF ToRecvFrame
<1>5. CASE m \in {Header(f) : f \in FilesOf(c)} \/ m \in {Chunk(f) : f \in FilesOf(c)}
  BY <1>5 DEF ToRecvFrame, FilesOf
<1> QED
  BY <1>1, <1>2, <1>3, <1>4, <1>5 DEF From

\* What the fields of a sender's frame hold.
FieldsOf(m, c) ==
    /\ m.t = "nonce" => m.by = c
    /\ m.t = "token" => m.key = PeerOf[c] /\ m.nonce \in Nonce
    /\ m.t = "list" => m = ListMsg(FilesOf(c)) /\ m.files = FilesOf(c)
    /\ m.t = "pair" /\ m.st = "OK" => m.key \in {PeerOf[c], None}
    /\ m.t = "header" => m.file \in FilesOf(c) /\ m = Header(m.file)
    /\ m = Delimiter <=> m.t = "0"
    /\ m.t # "garbage"

\* They hold what the kind of the frame says.
LEMMA FrameFields ==
    ASSUME NEW c \in Conn, NEW m \in From(c)
    PROVE  FieldsOf(m, c)
<1> USE WireAssumption DEF FieldsOf, Delimiter, NonceMsg, ListMsg, TokenMsg, PinMsg, PairMsg, Header, Chunk
<1>1. CASE m \in {Delimiter, NonceMsg(c), ListMsg(FilesOf(c))}
  BY <1>1
<1>2. CASE m \in {TokenMsg(PeerOf[c], <<c, d>>) : d \in Conn}
  <2>1. PICK d \in Conn : m = TokenMsg(PeerOf[c], <<c, d>>)
    BY <1>2
  <2>2. <<c, d>> \in Nonce
    BY <2>1 DEF Nonce
  <2> QED
    BY <2>1, <2>2
<1>3. CASE m \in {PinMsg(ok) : ok \in BOOLEAN}
  BY <1>3
<1>4. CASE m \in {PairMsg("OK", PeerOf[c]), PairMsg("OK", None),
                  PairMsg("PAIR_DECLINED", None), PairMsg("INVALID_SIGNATURE", None)}
  BY <1>4
<1>5. CASE m \in {Header(f) : f \in FilesOf(c)}
  BY <1>5
<1>6. CASE m \in {Chunk(f) : f \in FilesOf(c)}
  BY <1>6
<1> QED
  BY <1>1, <1>2, <1>3, <1>4, <1>5, <1>6 DEF From

\* What the fields of a receiver's frame hold.
ReplyFields(m) ==
    /\ m.t = "nonce" => m.by \in Conn
    /\ m.t = "status" => m.nonce \in Nonce \cup {None}
    /\ m.t = "answer" => m.files \subseteq File
    /\ m.t = "resp" => m.file \in File /\ m = FileResponse(m.file, m.ok)
    /\ Binary(m) <=> m.t = "answer"
    /\ m = Delimiter <=> m.t = "0"

\* They, too, hold what the kind of the frame says.
LEMMA ReplyHasFields ==
    ASSUME NEW m \in ToSendFrame
    PROVE  ReplyFields(m)
<1> USE DEF ReplyFields, Binary, Delimiter, NonceMsg, Status, Answer, FileResponse
<1>1. CASE m \in {Delimiter} \cup {NonceMsg(c) : c \in Conn}
  BY <1>1
<1>2. CASE m \in {Status(st, n) : st \in {"OK", "PIN_REQUIRED", "TOO_MANY_ATTEMPTS",
                                  "INVALID_SIGNATURE"}, n \in Nonce \cup {None}}
  BY <1>2
<1>3. CASE m \in {Answer(st, F) : st \in {"OK", "PAIR", "DECLINED"}, F \in SUBSET File}
  BY <1>3
<1>4. CASE m \in {FileResponse(f, ok) : f \in File, ok \in BOOLEAN}
  BY <1>4
<1> QED
  BY <1>1, <1>2, <1>3, <1>4 DEF ToSendFrame

-----------------------------------------------------------------------------
(* Sequences.                                                              *)

\* The rest of a queue.
LEMMA TailAt ==
    ASSUME NEW S, NEW q \in Seq(S), q # <<>>
    PROVE  /\ Head(q) \in S /\ Head(q) = q[1] /\ Len(q) \in Nat \ {0}
           /\ Tail(q) \in Seq(S) /\ Len(Tail(q)) = Len(q) - 1
           /\ \A i \in 1 .. Len(Tail(q)) : i + 1 \in 1 .. Len(q) /\ Tail(q)[i] = q[i + 1]
<1>1. Len(q) \in Nat /\ Len(q) # 0
  OBVIOUS
<1> QED
  BY <1>1

\* A queue with more in it.
LEMMA ConcatAt ==
    ASSUME NEW S, NEW q \in Seq(S), NEW ms \in Seq(S)
    PROVE  /\ q \o ms \in Seq(S) /\ Len(q) \in Nat /\ Len(ms) \in Nat
           /\ Len(q \o ms) = Len(q) + Len(ms)
           /\ \A i \in 1 .. Len(q) : (q \o ms)[i] = q[i]
           /\ \A i \in 1 .. Len(q \o ms) :
                 i \in 1 .. Len(q) \/ (i - Len(q) \in 1 .. Len(ms) /\ (q \o ms)[i] = ms[i - Len(q)])
<1>1. q \o ms \in Seq(S) /\ Len(q) \in Nat /\ Len(ms) \in Nat /\ Len(q \o ms) = Len(q) + Len(ms)
  OBVIOUS
<1>2. \A i \in 1 .. Len(q \o ms) : (q \o ms)[i] = IF i <= Len(q) THEN q[i] ELSE ms[i - Len(q)]
  OBVIOUS
<1> QED
  BY <1>1, <1>2

-----------------------------------------------------------------------------
(* What travels, and the senders.                                          *)

WTypes == WireTypeOK /\ FramesInv
STypes == SenderTypeOK /\ PlacesTyped /\ QueueInv

ToRecvOK == toRecv \in [Conn -> Seq(ToRecvFrame)] /\ FramesInv
ToSendOK == toSend \in [Conn -> Seq(ToSendFrame)]

\* The queue to the receiver after its connection has changed.
LEMMA QueueChanges ==
    ASSUME ToRecvOK, NEW c \in Conn, NEW q \in Seq(From(c)), toRecv' = [toRecv EXCEPT ![c] = q]
    PROVE  ToRecvOK'
<1>1. q \in Seq(ToRecvFrame)
  BY FromIsFrame
<1>2. toRecv' \in [Conn -> Seq(ToRecvFrame)]
  BY <1>1 DEF ToRecvOK
<1>3. ASSUME NEW d \in Conn
      PROVE  toRecv'[d] \in Seq(From(d))
  BY <1>3 DEF ToRecvOK, FramesInv
<1> QED
  BY <1>2, <1>3 DEF ToRecvOK, FramesInv

\* The receiver takes the oldest frame.
LEMMA TakeFrame ==
    ASSUME ToRecvOK, NEW c \in Conn, toRecv[c] # <<>>,
           toRecv' = [toRecv EXCEPT ![c] = Tail(@)]
    PROVE  ToRecvOK' /\ Frame(c) \in From(c) /\ FieldsOf(Frame(c), c)
<1>1. toRecv[c] \in Seq(From(c))
  BY DEF ToRecvOK, FramesInv
<1>2. Tail(toRecv[c]) \in Seq(From(c)) /\ Head(toRecv[c]) \in From(c)
  BY <1>1, TailAt
<1> QED
  BY <1>2, QueueChanges, FrameFields DEF Frame

\* A sender sends.
LEMMA PutFrames ==
    ASSUME ToRecvOK, NEW c \in Conn, NEW ms \in Seq(From(c)), SendFrames(c, ms)
    PROVE  ToRecvOK'
<1>1. CASE toRecv' = toRecv
  BY <1>1 DEF ToRecvOK, FramesInv
<1>2. CASE toRecv' = [toRecv EXCEPT ![c] = toRecv[c] \o ms]
  <2>1. toRecv[c] \in Seq(From(c))
    BY DEF ToRecvOK, FramesInv
  <2>2. toRecv[c] \o ms \in Seq(From(c))
    BY <2>1
  <2> QED
    BY <1>2, <2>2, QueueChanges
<1> QED
  BY <1>1, <1>2 DEF SendFrames

\* The receiver replies.
LEMMA PutReplies ==
    ASSUME ToSendOK, peer \in Conn \cup {None}, NEW ms \in Seq(ToSendFrame), Reply(ms)
    PROVE  ToSendOK'
<1>1. CASE CanSend
  <2>1. peer \in Conn /\ toSend[peer] \in Seq(ToSendFrame)
    BY <1>1 DEF CanSend, ToSendOK
  <2>2. toSend[peer] \o ms \in Seq(ToSendFrame)
    BY <2>1
  <2> QED
    BY <2>1, <2>2 DEF Reply, ToSendOK
<1>2. CASE ~CanSend
  BY <1>2 DEF Reply, ToSendOK
<1> QED
  BY <1>1, <1>2

\* A sender takes the oldest reply.
LEMMA TakeReply ==
    ASSUME ToSendOK, NEW c \in Conn, SIncoming(c)
    PROVE  /\ ToSendOK' /\ SFrame(c) \in ToSendFrame /\ ReplyFields(SFrame(c))
           /\ UNCHANGED <<recvEnd, sendEnd, opened>>
<1>1. toSend[c] \in Seq(ToSendFrame) /\ toSend[c] # <<>>
  BY DEF ToSendOK, SIncoming
<1>2. Tail(toSend[c]) \in Seq(ToSendFrame) /\ Head(toSend[c]) \in ToSendFrame
  BY <1>1, TailAt
<1> QED
  BY <1>2, ReplyHasFields DEF ToSendOK, SIncoming, SFrame

\* It handles that reply, or the one that the delimiter completes.
LEMMA TakeMessage ==
    ASSUME ToSendOK, PlacesTyped, NEW c \in Conn, SControlMessage(c)
    PROVE  /\ ToSendOK' /\ SMessage(c) \in ToSendFrame /\ ReplyFields(SMessage(c))
           /\ sBuffer' \in [Conn -> {None} \cup {m \in ToSendFrame : Binary(m)}]
           /\ UNCHANGED <<recvEnd, sendEnd, opened>>
<1>1. ToSendOK' /\ SFrame(c) \in ToSendFrame /\ UNCHANGED <<recvEnd, sendEnd, opened>>
  BY TakeReply DEF SControlMessage
<1>2. SMessage(c) \in ToSendFrame
  BY <1>1 DEF SControlMessage, SMessage, PlacesTyped
<1>3. sBuffer' \in [Conn -> {None} \cup {m \in ToSendFrame : Binary(m)}]
  BY DEF SControlMessage, PlacesTyped
<1> QED
  BY <1>1, <1>2, <1>3, ReplyHasFields

\* Frames of the kinds that a sender sends.
LEMMA Sendable ==
    ASSUME NEW c \in Conn
    PROVE  /\ <<NonceMsg(c)>> \in Seq(From(c)) /\ <<Delimiter>> \in Seq(From(c))
           /\ <<ListMsg(FilesOf(c)), Delimiter>> \in Seq(From(c))
           /\ \A d \in Conn : <<TokenMsg(PeerOf[c], <<c, d>>)>> \in Seq(From(c))
           /\ \A ok \in BOOLEAN : <<PinMsg(ok)>> \in Seq(From(c))
           /\ <<PairMsg("OK", PeerOf[c])>> \in Seq(From(c)) /\ <<PairMsg("OK", None)>> \in Seq(From(c))
           /\ <<PairMsg("PAIR_DECLINED", None)>> \in Seq(From(c))
           /\ <<PairMsg("INVALID_SIGNATURE", None)>> \in Seq(From(c))
           /\ \A f \in FilesOf(c) : <<Header(f)>> \in Seq(From(c)) /\ <<Chunk(f)>> \in Seq(From(c))
<1>1. /\ NonceMsg(c) \in From(c) /\ Delimiter \in From(c) /\ ListMsg(FilesOf(c)) \in From(c)
      /\ \A d \in Conn : TokenMsg(PeerOf[c], <<c, d>>) \in From(c)
      /\ \A ok \in BOOLEAN : PinMsg(ok) \in From(c)
      /\ PairMsg("OK", PeerOf[c]) \in From(c) /\ PairMsg("OK", None) \in From(c)
      /\ PairMsg("PAIR_DECLINED", None) \in From(c)
      /\ PairMsg("INVALID_SIGNATURE", None) \in From(c)
      /\ \A f \in FilesOf(c) : Header(f) \in From(c) /\ Chunk(f) \in From(c)
  BY DEF From
<1> QED
  BY <1>1

\* The sender keeps the types of what travels and of its own state.
LEMMA SenderTypes ==
    ASSUME WTypes, STypes, NEW c \in Conn, SenderStep(c)
    PROVE  WTypes' /\ STypes' /\ UNCHANGED recvEnd
<1> USE WireAssumption, SenderAssumption DEF queueVars, wireVars, senderVars
<1>a. /\ ToRecvOK /\ ToSendOK /\ PlacesTyped
      /\ ToRecvOK' /\ ToSendOK' /\ UNCHANGED recvEnd /\ opened' \subseteq Conn
         /\ sendEnd' \in [Conn -> {"open", "closed"}] => WTypes' /\ UNCHANGED recvEnd
  BY DEF ToRecvOK, ToSendOK, WTypes, STypes, WireTypeOK
<1>b. UNCHANGED toRecv => ToRecvOK'
  BY DEF ToRecvOK, FramesInv, WTypes, WireTypeOK
<1>c. UNCHANGED toSend => ToSendOK'
  BY DEF ToSendOK, WTypes, WireTypeOK
<1>d. UNCHANGED wireVars => WTypes' /\ UNCHANGED recvEnd
  BY DEF WTypes, WireTypeOK, FramesInv
<1>e. opened \subseteq Conn /\ sendEnd \in [Conn -> {"open", "closed"}]
  BY DEF WTypes, WireTypeOK
<1>f. FilesOf(c) \subseteq File
  BY DEF FilesOf
<1>1. CASE AnswerArrives(c)
  <2>1. ToRecvOK'
    BY <1>1, <1>a, PutFrames, Sendable DEF AnswerArrives
  <2>2. WTypes' /\ UNCHANGED recvEnd
    BY <1>1, <1>a, <1>c, <1>e, <2>1 DEF AnswerArrives
  <2>3. STypes'
    BY <1>1 DEF AnswerArrives, Goto, SetState, STypes, SenderTypeOK, PlacesTyped, QueueInv, Main,
       SenderState
  <2> QED
    BY <2>2, <2>3
<1>2. CASE TakeAccepted(c)
  <2>1. acceptedCh[c] \subseteq File /\ acceptedCh[c] \cap FilesOf(c) \subseteq FilesOf(c)
    BY <1>2 DEF TakeAccepted, STypes, PlacesTyped
  <2>2. PlacesTyped' /\ QueueInv'
    BY <1>2, <2>1 DEF TakeAccepted, Goto, STypes, SenderTypeOK, PlacesTyped, QueueInv
  <2>3. SenderTypeOK'
    BY <1>2, <1>f, <2>1, <2>2 DEF TakeAccepted, Goto, STypes, SenderTypeOK, PlacesTyped, Main
  <2> QED
    BY <1>2, <1>d, <2>2, <2>3 DEF TakeAccepted, STypes
<1>3. CASE GiveUp(c)
  <2>1. STypes'
    BY <1>3 DEF GiveUp, Goto, STypes, SenderTypeOK, PlacesTyped, QueueInv, Main
  <2> QED
    BY <1>3, <1>d, <2>1 DEF GiveUp
<1>4. CASE StartQueue(c)
  <2>1. CASE todo[c] = {}
    <3>1. ToRecvOK'
      BY <1>4, <2>1, <1>a, PutFrames, Sendable DEF StartQueue
    <3>2. STypes'
      BY <1>4, <2>1 DEF StartQueue, Goto, STypes, SenderTypeOK, PlacesTyped, QueueInv, Main
    <3> QED
      BY <1>4, <1>a, <1>c, <1>e, <3>1, <3>2 DEF StartQueue
  <2>2. CASE todo[c] # {}
    <3>1. PICK f \in todo[c] : /\ SendFrames(c, <<Header(f)>>)
                               /\ todo' = [todo EXCEPT ![c] = @ \ {f}]
                               /\ sending' = [sending EXCEPT ![c] = f]
                               /\ Goto(c, "data")
      BY <1>4, <2>2 DEF StartQueue
    <3>2. f \in FilesOf(c) /\ f \in File /\ f # None
      BY <1>f DEF STypes, QueueInv
    <3>3. ToRecvOK'
      BY <1>a, <3>1, <3>2, PutFrames, Sendable
    <3>4. QueueInv' /\ PlacesTyped'
      BY <1>4, <3>1, <3>2 DEF StartQueue, Goto, STypes, SenderTypeOK, PlacesTyped, QueueInv
    <3>5. SenderTypeOK'
      BY <1>4, <3>1, <3>2 DEF StartQueue, Goto, STypes, SenderTypeOK, Main
    <3> QED
      BY <1>4, <1>a, <1>c, <1>e, <3>3, <3>4, <3>5 DEF StartQueue, STypes
  <2> QED
    BY <2>1, <2>2
<1>5. CASE SendChunk(c)
  <2>1. sending[c] \in FilesOf(c)
    BY <1>5 DEF SendChunk, STypes, QueueInv
  <2>2. ToRecvOK'
    BY <1>5, <1>a, <2>1, PutFrames, Sendable DEF SendChunk
  <2>3. STypes'
    BY <1>5 DEF SendChunk, STypes, SenderTypeOK, PlacesTyped, QueueInv
  <2> QED
    BY <1>5, <1>a, <1>c, <1>e, <2>2, <2>3 DEF SendChunk
<1>6. CASE EndFile(c)
  <2>1. CASE todo[c] = {}
    <3>1. ToRecvOK'
      BY <1>6, <2>1, <1>a, PutFrames, Sendable DEF EndFile
    <3>2. STypes'
      BY <1>6, <2>1 DEF EndFile, Goto, STypes, SenderTypeOK, PlacesTyped, QueueInv, Main
    <3> QED
      BY <1>6, <1>a, <1>c, <1>e, <3>1, <3>2 DEF EndFile
  <2>2. CASE todo[c] # {}
    <3>1. PICK f \in todo[c] : /\ SendFrames(c, <<Header(f)>>)
                               /\ todo' = [todo EXCEPT ![c] = @ \ {f}]
                               /\ announced' = [announced EXCEPT ![c] = f]
      BY <1>6, <2>2 DEF EndFile
    <3>2. f \in FilesOf(c) /\ f \in File /\ f # None
      BY <1>f DEF STypes, QueueInv
    <3>3. ToRecvOK'
      BY <1>a, <3>1, <3>2, PutFrames, Sendable
    <3>4. QueueInv' /\ PlacesTyped'
      BY <1>6, <3>1, <3>2 DEF EndFile, Goto, STypes, SenderTypeOK, PlacesTyped, QueueInv
    <3>5. SenderTypeOK'
      BY <1>6, <3>1, <3>2 DEF EndFile, Goto, STypes, SenderTypeOK, Main
    <3> QED
      BY <1>6, <1>a, <1>c, <1>e, <3>3, <3>4, <3>5 DEF EndFile, STypes
  <2> QED
    BY <2>1, <2>2
<1>7. CASE TakeResult(c)
  <2>1. CASE GoodResult(c)
    <3>0. sending[c] \in File
      BY <1>7, <1>f DEF TakeResult, STypes, QueueInv
    <3>1. PlacesTyped' /\ QueueInv'
      BY <1>7, <2>1 DEF TakeResult, Goto, STypes, SenderTypeOK, PlacesTyped, QueueInv
    <3>2. SenderTypeOK'
      BY <1>7, <2>1, <3>0 DEF TakeResult, Goto, STypes, SenderTypeOK, PlacesTyped, Main
    <3> QED
      BY <1>7, <1>d, <3>1, <3>2 DEF TakeResult, STypes
  <2>2. CASE ~GoodResult(c)
    <3>1. STypes'
      BY <1>7, <2>2 DEF TakeResult, Goto, STypes, SenderTypeOK, PlacesTyped, QueueInv, Main
    <3> QED
      BY <1>7, <1>d, <3>1 DEF TakeResult
  <2> QED
    BY <2>1, <2>2
<1>8. CASE Flush(c)
  <2>1. STypes'
    BY <1>8 DEF Flush, Goto, SetState, STypes, SenderTypeOK, PlacesTyped, QueueInv, Main, SenderState
  <2> QED
    BY <1>8, <1>d, <2>1 DEF Flush
<1>9. CASE CloseSender(c) \/ SenderPeerClosed(c)
  <2>0. <<>> \in Seq(ToSendFrame)
    OBVIOUS
  <2>1. /\ sendEnd' = [sendEnd EXCEPT ![c] = "closed"] /\ toSend' = [toSend EXCEPT ![c] = <<>>]
        /\ UNCHANGED <<toRecv, recvEnd, opened>>
    BY <1>9 DEF CloseSender, SenderPeerClosed
  <2>2. ToSendOK' /\ sendEnd' \in [Conn -> {"open", "closed"}]
    BY <1>a, <1>e, <2>0, <2>1 DEF ToSendOK
  <2>3. STypes'
    <3>1. CASE CloseSender(c)
      BY <3>1 DEF CloseSender, STypes, SenderTypeOK, PlacesTyped, QueueInv
    <3>2. CASE SenderPeerClosed(c)
      BY <3>2 DEF SenderPeerClosed, SetState, STypes, SenderTypeOK, PlacesTyped, QueueInv, SenderState
    <3> QED
      BY <1>9, <3>1, <3>2
  <2> QED
    BY <1>a, <1>b, <1>e, <2>1, <2>2, <2>3
<1>10. CASE SCollectControl(c)
  <2>1. ToSendOK' /\ SFrame(c) \in ToSendFrame /\ UNCHANGED <<recvEnd, sendEnd, opened>>
    BY <1>10, <1>a, TakeReply DEF SCollectControl
  <2>2. STypes'
    BY <1>10, <2>1 DEF SCollectControl, STypes, SenderTypeOK, PlacesTyped, QueueInv
  <2> QED
    BY <1>10, <1>a, <1>b, <1>e, <2>1, <2>2 DEF SCollectControl
<1>11. CASE SIgnoreFrame(c)
  <2>1. ToSendOK' /\ UNCHANGED <<recvEnd, sendEnd, opened>>
    BY <1>11, <1>a, TakeReply DEF SIgnoreFrame
  <2>2. STypes'
    BY <1>11 DEF SIgnoreFrame, STypes, SenderTypeOK, PlacesTyped, QueueInv
  <2> QED
    BY <1>11, <1>a, <1>b, <1>e, <2>1, <2>2 DEF SIgnoreFrame
<1>g. ASSUME SControlMessage(c)
      PROVE  /\ ToSendOK' /\ SMessage(c) \in ToSendFrame /\ ReplyFields(SMessage(c))
             /\ sBuffer' \in [Conn -> {None} \cup {m \in ToSendFrame : Binary(m)}]
             /\ UNCHANGED <<recvEnd, sendEnd, opened>>
  BY <1>a, <1>g, TakeMessage
<1>12. CASE HandleFileResponse(c)
  <2>1. SControlMessage(c)
    BY <1>12 DEF HandleFileResponse
  <2>2. resultCh' \in [Conn -> {None} \cup {m \in ToSendFrame : m.t = "resp"}] /\ dropped' \subseteq Conn
    BY <1>12, <1>g, <2>1 DEF HandleFileResponse, STypes, PlacesTyped, SenderTypeOK
  <2>3. STypes'
    BY <1>12, <1>g, <2>1, <2>2 DEF HandleFileResponse, STypes, SenderTypeOK, PlacesTyped, QueueInv
  <2> QED
    BY <1>12, <1>a, <1>b, <1>e, <1>g, <2>1, <2>3 DEF HandleFileResponse
<1>13. CASE HandleNonceResponse(c)
  <2>1. SControlMessage(c) /\ SMessage(c).by \in Conn
    BY <1>13, <1>g DEF HandleNonceResponse, ReplyFields
  <2>2. ToRecvOK'
    BY <1>13, <1>a, <2>1, PutFrames, Sendable DEF HandleNonceResponse
  <2>3. <<c, SMessage(c).by>> \in Nonce
    BY <2>1 DEF Nonce
  <2>4. STypes'
    BY <1>13, <1>g, <2>1, <2>3 DEF HandleNonceResponse, SetState, STypes, SenderTypeOK, PlacesTyped, QueueInv,
       SenderState
  <2> QED
    BY <1>13, <1>a, <1>e, <1>g, <2>1, <2>2, <2>4
<1>14. CASE Refused(c)
  <2>1. SControlMessage(c)
    BY <1>14 DEF Refused
  <2>2. STypes'
    BY <1>14, <1>g, <2>1 DEF Refused, SetState, STypes, SenderTypeOK, PlacesTyped, QueueInv, SenderState
  <2> QED
    BY <1>14, <1>a, <1>b, <1>e, <1>g, <2>1, <2>2 DEF Refused
<1>15. CASE HandleTokenResponse(c)
  <2>1. SControlMessage(c)
    BY <1>15 DEF HandleTokenResponse
  <2>2. \E ms \in Seq(From(c)) : SendFrames(c, ms)
    <3>1. (c \in KnowsPin) \in BOOLEAN
      OBVIOUS
    <3>2. CASE SMessage(c).st = "PIN_REQUIRED"
      <4>1. PICK ok \in {FALSE, (c \in KnowsPin)} : SendFrames(c, <<PinMsg(ok)>>)
        BY <1>15, <3>2 DEF HandleTokenResponse
      <4>2. ok \in BOOLEAN
        BY <3>1, <4>1, Zenon
      <4> QED
        BY <4>1, <4>2, Sendable
    <3>3. CASE SMessage(c).st # "PIN_REQUIRED"
      BY <1>15, <3>3, Sendable DEF HandleTokenResponse
    <3> QED
      BY <3>2, <3>3
  <2>3. ToRecvOK'
    BY <1>a, <2>2, PutFrames
  <2>4. /\ receiverToken' \in [Conn -> Nonce \cup {None}]
        /\ sstate' \in [Conn -> SenderState]
    BY <1>15, <1>g, <2>1 DEF HandleTokenResponse, SetState, ReplyFields, STypes, SenderTypeOK, SenderState
  <2>5. STypes'
    BY <1>15, <1>g, <2>1, <2>4 DEF HandleTokenResponse, STypes, SenderTypeOK, PlacesTyped, QueueInv
  <2> QED
    BY <1>15, <1>a, <1>e, <1>g, <2>1, <2>3, <2>5
<1>16. CASE FilesAccepted(c)
  <2>1. SControlMessage(c)
    BY <1>16 DEF FilesAccepted
  <2>2. acceptedCh' \in [Conn -> {None} \cup SUBSET File]
    BY <1>16, <1>g, <2>1 DEF FilesAccepted, ReplyFields, STypes, PlacesTyped
  <2>3. STypes'
    BY <1>16, <1>g, <2>1, <2>2 DEF FilesAccepted, SetState, STypes, SenderTypeOK, PlacesTyped, QueueInv,
       SenderState
  <2> QED
    BY <1>16, <1>a, <1>b, <1>e, <1>g, <2>1, <2>3 DEF FilesAccepted
<1>17. CASE PairRequested(c)
  <2>1. SControlMessage(c)
    BY <1>17 DEF PairRequested
  <2>2. \E ms \in Seq(From(c)) : SendFrames(c, ms)
    BY <1>17, Sendable DEF PairRequested
  <2>3. ToRecvOK'
    BY <1>a, <2>2, PutFrames
  <2>4. sstate' \in [Conn -> SenderState] /\ paired' \subseteq Conn
    BY <1>17 DEF PairRequested, SetState, STypes, SenderTypeOK, SenderState
  <2>5. STypes'
    BY <1>17, <1>g, <2>1, <2>4 DEF PairRequested, STypes, SenderTypeOK, PlacesTyped, QueueInv
  <2> QED
    BY <1>17, <1>a, <1>e, <1>g, <2>1, <2>3, <2>5
<1> QED
  BY <1>1, <1>2, <1>3, <1>4, <1>5, <1>6, <1>7, <1>8, <1>9, <1>10, <1>11, <1>12, <1>13, <1>14,
     <1>15, <1>16, <1>17 DEF SenderStep, MainStep, HandlerStep

-----------------------------------------------------------------------------
(* The receiver.                                                           *)

RCore == EndsInv /\ ReservedInv /\ PinInv

\* What the message that a frame completes holds.
MessageIs(c) ==
    /\ Message(c).t = "nonce" => Message(c).by = c
    /\ Message(c).t = "token" => Message(c).key = PeerOf[c] /\ Message(c).nonce \in Nonce
    /\ Message(c).t = "list" => \E d \in Conn : Message(c).files = FilesOf(d)
    /\ Message(c).t = "pair" => Message(c) = Frame(c)
    /\ Message(c).t = "pair" /\ Message(c).st = "OK" => Message(c).key \in {PeerOf[c], None}
    /\ Message(c).t = "header" => /\ Message(c).file \in FilesOf(c)
                                  /\ Frame(c) = Header(Message(c).file)
    /\ Message(c) = Garbage => Frame(c) = Delimiter

Buffered == {None, Garbage} \cup {ListMsg(FilesOf(c)) : c \in Conn}

\* A handler runs for a connection that has been installed, with a session.
LEMMA IncomingFrame ==
    ASSUME WTypes, ReceiverTypeOK, RCore, NEW c \in Conn, Incoming(c)
    PROVE  /\ ToRecvOK' /\ Frame(c) \in From(c) /\ FieldsOf(Frame(c), c)
           /\ session \in Conn /\ accepting # c
<1>1. ToRecvOK
  BY DEF WTypes, WireTypeOK, ToRecvOK
<1>2. ToRecvOK' /\ Frame(c) \in From(c) /\ FieldsOf(Frame(c), c)
  BY <1>1, TakeFrame DEF Incoming
<1>3. recvEnd[c] # "none"
  BY DEF Incoming
<1> QED
  BY <1>2, <1>3, WireAssumption DEF RCore, EndsInv, ReceiverTypeOK

\* A message is a frame of this connection, or what the control buffer held.
LEMMA MessageFields ==
    ASSUME ReceiverTypeOK, NEW c \in Conn, FieldsOf(Frame(c), c), Message(c) # None
    PROVE  MessageIs(c)
<1>1. CASE Frame(c) = Delimiter
  <2>1. Message(c) = controlBuffer
    BY <1>1 DEF Message
  <2>2. CASE controlBuffer = Garbage
    BY <1>1, <2>1, <2>2 DEF MessageIs, Garbage
  <2>3. CASE controlBuffer \in {ListMsg(FilesOf(d)) : d \in Conn}
    BY <1>1, <2>1, <2>3 DEF MessageIs, ListMsg, Garbage
  <2> QED
    BY <2>1, <2>2, <2>3 DEF ReceiverTypeOK
<1>2. CASE Frame(c) # Delimiter
  <2>1. Message(c) = Frame(c)
    BY <1>2 DEF Message
  <2>2. Frame(c).t = "list" => Frame(c).files = FilesOf(c)
    BY DEF FieldsOf
  <2>3. Frame(c) # Garbage
    BY DEF FieldsOf, Garbage
  <2> QED
    BY <2>1, <2>2, <2>3 DEF MessageIs, FieldsOf
<1> QED
  BY <1>1, <1>2

\* The receiver lets go of its connection.
LEMMA DropEnds ==
    ASSUME WTypes, ReceiverTypeOK, EndsInv, DropPeer, UNCHANGED session, accepting' \in {accepting, None}
    PROVE  EndsInv' /\ recvEnd' \in [Conn -> {"none", "open", "dropped", "closed"}]
<1> USE WireAssumption
<1>1. CASE peer = None
  BY <1>1 DEF DropPeer, EndsInv, WTypes, WireTypeOK, ReceiverTypeOK
<1>2. CASE peer # None
  <2>1. peer \in Conn /\ recvEnd' = [recvEnd EXCEPT ![peer] = "dropped"] /\ peer' = None /\ accepting = None
    BY <1>2 DEF DropPeer, ReceiverTypeOK, EndsInv
  <2> QED
    BY <1>2, <2>1 DEF EndsInv, WTypes, WireTypeOK, ReceiverTypeOK
<1> QED
  BY <1>1, <1>2

\* The parts of the types of what travels.
LEMMA WireParts ==
    ASSUME WTypes, ToRecvOK', ToSendOK', UNCHANGED <<sendEnd, opened>>,
           recvEnd' \in [Conn -> {"none", "open", "dropped", "closed"}]
    PROVE  WTypes'
BY DEF WTypes, WireTypeOK, ToRecvOK, ToSendOK

\* Replies of the kinds that the receiver sends.
LEMMA Replyable ==
    /\ \A d \in Conn : <<NonceMsg(d)>> \in Seq(ToSendFrame)
    /\ \A st \in {"OK", "PIN_REQUIRED", "TOO_MANY_ATTEMPTS"} : \A n \in Nonce \cup {None} :
          <<Status(st, n)>> \in Seq(ToSendFrame)
    /\ \A st \in {"OK", "PAIR", "DECLINED"} : \A F \in SUBSET File :
          <<Answer(st, F), Delimiter>> \in Seq(ToSendFrame)
    /\ \A f \in File : \A ok \in BOOLEAN : <<FileResponse(f, ok)>> \in Seq(ToSendFrame)
<1>1. /\ \A d \in Conn : NonceMsg(d) \in ToSendFrame
      /\ \A st \in {"OK", "PIN_REQUIRED", "TOO_MANY_ATTEMPTS"} : \A n \in Nonce \cup {None} :
            Status(st, n) \in ToSendFrame
      /\ \A st \in {"OK", "PAIR", "DECLINED"} : \A F \in SUBSET File : Answer(st, F) \in ToSendFrame
      /\ Delimiter \in ToSendFrame
      /\ \A f \in File : \A ok \in BOOLEAN : FileResponse(f, ok) \in ToSendFrame
  BY DEF ToSendFrame
<1> QED
  BY <1>1

\* The handlers keep the types and the relation between sessions and connections.
LEMMA FrameTypes ==
    ASSUME WTypes, ReceiverTypeOK, RCore, NEW c \in Conn, HandleFrame(c)
    PROVE  WTypes' /\ ReceiverTypeOK' /\ RCore'
<1> USE WireAssumption, ReceiverAssumption DEF handshakeVars, listVars, writeVars, watchVars, storeVars
<1>a. ToSendOK /\ peer \in Conn \cup {None} /\ recvEnd \in [Conn -> {"none", "open", "dropped", "closed"}]
  BY DEF ToSendOK, WTypes, WireTypeOK, ReceiverTypeOK
<1>b. UNCHANGED toSend => ToSendOK'
  BY <1>a DEF ToSendOK
<1>c. ASSUME UNCHANGED <<recvEnd, peer, accepting, session>>
      PROVE  EndsInv' /\ recvEnd' \in [Conn -> {"none", "open", "dropped", "closed"}]
  BY <1>c, <1>a DEF RCore, EndsInv
<1>d. Incoming(c) => /\ ToRecvOK' /\ Frame(c) \in From(c) /\ FieldsOf(Frame(c), c)
                     /\ session \in Conn /\ accepting # c
  BY IncomingFrame
<1>e. ControlMessage(c) => MessageIs(c) /\ controlBuffer' \in Buffered
  BY <1>d, MessageFields DEF ControlMessage, ReceiverTypeOK, Buffered
<1>f. ASSUME NEW ms \in Seq(ToSendFrame), Reply(ms)
      PROVE  ToSendOK'
  BY <1>a, <1>f, PutReplies
<1>g. DropPeer /\ UNCHANGED <<session, accepting>> =>
         EndsInv' /\ recvEnd' \in [Conn -> {"none", "open", "dropped", "closed"}] /\ peer' = None
  BY DropEnds DEF RCore, DropPeer
<1>h. \A t : Handle(c, t) => ControlMessage(c) /\ Message(c).t = t /\ Expected = t /\ Incoming(c)
  BY DEF Handle, ControlMessage
<1>i. state # "waitNonce" => accepting = None
  BY DEF RCore, ReservedInv
<1>j. EndsInv /\ (ReservedInv' /\ PinInv' /\ EndsInv' => RCore')
  BY DEF RCore
<1>k. \A d \in Conn : FilesOf(d) \subseteq File
  BY DEF FilesOf
<1>1. CASE HandleNonce(c)
  <2>0. /\ ControlMessage(c) /\ Incoming(c) /\ Message(c).t = "nonce" /\ state = "waitNonce"
        /\ MessageIs(c) /\ controlBuffer' \in Buffered /\ ToRecvOK' /\ session \in Conn
    <3>1. Handle(c, "nonce")
      BY <1>1 DEF HandleNonce
    <3> QED
      BY <1>d, <1>e, <1>h, <3>1 DEF Expected, ReceiverTypeOK, State
  <2>1. ToSendOK'
    BY <1>1, <1>f, <2>0, Replyable DEF HandleNonce
  <2>2. EndsInv' /\ recvEnd' \in [Conn -> {"none", "open", "dropped", "closed"}]
    BY <1>1, <1>c DEF HandleNonce
  <2>3. WTypes'
    BY <1>1, <2>0, <2>1, <2>2, WireParts DEF HandleNonce
  <2>4. ReceiverTypeOK'
    BY <1>1, <2>0 DEF HandleNonce, MessageIs, Nonce, ReceiverTypeOK, Buffered, State
  <2>5. ReservedInv' /\ PinInv'
    BY <1>1, <1>i, <2>0 DEF HandleNonce, CanSend, RCore, ReservedInv, PinInv, EndsInv,
       ReceiverTypeOK
  <2> QED
    BY <1>j, <2>2, <2>3, <2>4, <2>5
<1>2. CASE HandleToken(c)
  <2>0. /\ ControlMessage(c) /\ Incoming(c) /\ Message(c).t = "token" /\ state = "waitToken"
        /\ MessageIs(c) /\ controlBuffer' \in Buffered /\ ToRecvOK' /\ session \in Conn
    <3>1. Handle(c, "token")
      BY <1>2 DEF HandleToken
    <3> QED
      BY <1>d, <1>e, <1>h, <3>1 DEF Expected, ReceiverTypeOK, State
  <2>1. ToSendOK'
    <3>1. finalNonce \in Nonce \cup {None}
      BY DEF ReceiverTypeOK
    <3> QED
      BY <1>2, <1>f, <3>1, Replyable DEF HandleToken
  <2>2. EndsInv' /\ recvEnd' \in [Conn -> {"none", "open", "dropped", "closed"}]
    BY <1>2, <1>c DEF HandleToken
  <2>3. WTypes'
    BY <1>2, <2>0, <2>1, <2>2, WireParts DEF HandleToken
  <2>4. ReceiverTypeOK'
    BY <1>2, <2>0 DEF HandleToken, MessageIs, ReceiverTypeOK, Buffered, State
  <2>5. ReservedInv' /\ PinInv'
    BY <1>2, <1>i, <2>0 DEF HandleToken, RCore, ReservedInv, PinInv, EndsInv, ReceiverTypeOK
  <2> QED
    BY <1>j, <2>2, <2>3, <2>4, <2>5
<1>3. CASE PinCorrect(c)
  <2>0. /\ ControlMessage(c) /\ Incoming(c) /\ Message(c).t = "pin" /\ state = "waitPin"
        /\ MessageIs(c) /\ controlBuffer' \in Buffered /\ ToRecvOK' /\ session \in Conn
    <3>1. Handle(c, "pin")
      BY <1>3 DEF PinCorrect
    <3> QED
      BY <1>d, <1>e, <1>h, <3>1 DEF Expected, ReceiverTypeOK, State
  <2>1. ToSendOK'
    BY <1>3, <1>f, Replyable DEF PinCorrect
  <2>2. EndsInv' /\ recvEnd' \in [Conn -> {"none", "open", "dropped", "closed"}]
    BY <1>3, <1>c DEF PinCorrect
  <2>3. WTypes'
    BY <1>3, <2>0, <2>1, <2>2, WireParts DEF PinCorrect
  <2>4. ReceiverTypeOK'
    BY <1>3, <2>0 DEF PinCorrect, ReceiverTypeOK, Buffered, State
  <2>5. ReservedInv' /\ PinInv'
    BY <1>3, <1>i, <2>0 DEF PinCorrect, RCore, ReservedInv, PinInv, EndsInv, ReceiverTypeOK
  <2> QED
    BY <1>j, <2>2, <2>3, <2>4, <2>5
<1>4. CASE PinWrong(c)
  <2>0. /\ ControlMessage(c) /\ Incoming(c) /\ Message(c).t = "pin" /\ state = "waitPin"
        /\ MessageIs(c) /\ controlBuffer' \in Buffered /\ ToRecvOK' /\ session \in Conn
    <3>1. Handle(c, "pin")
      BY <1>4 DEF PinWrong
    <3> QED
      BY <1>d, <1>e, <1>h, <3>1 DEF Expected, ReceiverTypeOK, State
  <2>1. ToSendOK'
    BY <1>4, <1>f, Replyable DEF PinWrong
  <2>2. UNCHANGED <<session, accepting, sendEnd, opened>> /\ pinAttempts < MaxPINAttempts
    BY <1>4, <2>0 DEF PinWrong, RCore, PinInv, ReceiverTypeOK
  <2>3. CASE LastAttempt
    <3>1. Terminate /\ blockedPeers' = blockedPeers \cup {PeerOf[session]}
      BY <1>4, <2>3 DEF PinWrong
    <3>2. EndsInv' /\ recvEnd' \in [Conn -> {"none", "open", "dropped", "closed"}] /\ peer' = None
      BY <1>g, <2>2, <3>1 DEF Terminate
    <3>3. WTypes'
      BY <2>0, <2>1, <2>2, <3>2, WireParts
    <3>4. ReceiverTypeOK'
      <4>1. PeerOf[session] \in Peer
        BY <2>0
      <4>2. blockedPeers' \subseteq Peer
        BY <3>1, <4>1 DEF ReceiverTypeOK
      <4>3. pinAttempts' \in 0 .. MaxPINAttempts
        BY <1>4, <2>2 DEF PinWrong, ReceiverTypeOK
      <4> QED
        BY <1>4, <2>0, <3>1, <3>2, <4>2, <4>3 DEF PinWrong, Terminate, CleanupPartialFiles,
           ReceiverTypeOK, Buffered, State
    <3>5. ReservedInv' /\ PinInv'
      BY <1>4, <1>i, <2>0, <2>2, <3>1, <3>2 DEF Terminate, ReservedInv, PinInv
    <3> QED
      BY <1>j, <3>2, <3>3, <3>4, <3>5
  <2>4. CASE ~LastAttempt
    <3>1. UNCHANGED <<blockedPeers, recvEnd, state, peer, writeVars>>
      BY <1>4, <2>4 DEF PinWrong
    <3>2. EndsInv' /\ recvEnd' \in [Conn -> {"none", "open", "dropped", "closed"}]
      BY <1>c, <2>2, <3>1
    <3>3. WTypes'
      BY <2>0, <2>1, <2>2, <3>2, WireParts
    <3>4. ReceiverTypeOK'
      BY <1>4, <2>0, <2>2, <3>1 DEF PinWrong, ReceiverTypeOK, Buffered
    <3>5. ReservedInv' /\ PinInv'
      BY <1>4, <1>i, <2>0, <2>2, <2>4 DEF PinWrong, LastAttempt, ReservedInv, PinInv, ReceiverTypeOK
    <3> QED
      BY <1>j, <3>2, <3>3, <3>4, <3>5
  <2> QED
    BY <2>3, <2>4
<1>5. CASE HandleFileList(c)
  <2>0. /\ ControlMessage(c) /\ Incoming(c) /\ Message(c).t = "list" /\ state = "waitFileList"
        /\ MessageIs(c) /\ controlBuffer' \in Buffered /\ ToRecvOK' /\ session \in Conn
    <3>1. Handle(c, "list")
      BY <1>5 DEF HandleFileList
    <3> QED
      BY <1>d, <1>e, <1>h, <3>1 DEF Expected, ReceiverTypeOK, State
  <2>1. ToSendOK'
    BY <1>5, <1>b DEF HandleFileList
  <2>2. EndsInv' /\ recvEnd' \in [Conn -> {"none", "open", "dropped", "closed"}]
    BY <1>5, <1>c DEF HandleFileList
  <2>3. WTypes'
    BY <1>5, <2>0, <2>1, <2>2, WireParts DEF HandleFileList
  <2>4. ReceiverTypeOK'
    BY <1>5, <1>k, <2>0 DEF HandleFileList, MessageIs, ReceiverTypeOK, Buffered, State
  <2>5. ReservedInv' /\ PinInv'
    BY <1>5, <1>i, <2>0 DEF HandleFileList, RCore, ReservedInv, PinInv, EndsInv, ReceiverTypeOK
  <2> QED
    BY <1>j, <2>2, <2>3, <2>4, <2>5
<1>6. CASE TooManyFiles(c)
  <2>0. /\ ControlMessage(c) /\ Incoming(c) /\ Message(c).t = "list" /\ state = "waitFileList"
        /\ MessageIs(c) /\ controlBuffer' \in Buffered /\ ToRecvOK' /\ session \in Conn
    <3>1. Handle(c, "list")
      BY <1>6 DEF TooManyFiles
    <3> QED
      BY <1>d, <1>e, <1>h, <3>1 DEF Expected, ReceiverTypeOK, State
  <2>1. ToSendOK'
    BY <1>6, <1>f, Replyable DEF TooManyFiles
  <2>2. EndsInv' /\ recvEnd' \in [Conn -> {"none", "open", "dropped", "closed"}]
    BY <1>6, <1>c DEF TooManyFiles
  <2>3. WTypes'
    BY <1>6, <2>0, <2>1, <2>2, WireParts DEF TooManyFiles
  <2>4. ReceiverTypeOK'
    BY <1>6, <2>0 DEF TooManyFiles, ReceiverTypeOK, Buffered, State
  <2>5. ReservedInv' /\ PinInv'
    BY <1>6, <1>i, <2>0 DEF TooManyFiles, RCore, ReservedInv, PinInv, EndsInv, ReceiverTypeOK
  <2> QED
    BY <1>j, <2>2, <2>3, <2>4, <2>5
<1>7. CASE PairAccepted(c)
  <2>0. /\ ControlMessage(c) /\ Incoming(c) /\ Message(c).t = "pair" /\ state = "waitPairResponse"
        /\ MessageIs(c) /\ controlBuffer' \in Buffered /\ ToRecvOK' /\ session \in Conn
    <3>1. Handle(c, "pair")
      BY <1>7 DEF PairAccepted
    <3> QED
      BY <1>d, <1>e, <1>h, <3>1 DEF Expected, ReceiverTypeOK, State
  <2>1. ToSendOK'
    <3>1. PreparedFiles(acceptedIDs) \in SUBSET File
      BY DEF PreparedFiles, ReceiverTypeOK
    <3> QED
      BY <1>7, <1>f, <3>1, Replyable DEF PairAccepted, AcceptFiles
  <2>2. EndsInv' /\ recvEnd' \in [Conn -> {"none", "open", "dropped", "closed"}]
    BY <1>7, <1>c DEF PairAccepted
  <2>3. WTypes'
    BY <1>7, <2>0, <2>1, <2>2, WireParts DEF PairAccepted
  <2>4. ReceiverTypeOK'
    BY <1>7, <2>0 DEF PairAccepted, AcceptFiles, PreparedFiles, MessageIs, ReceiverTypeOK,
       Buffered, State
  <2>5. ReservedInv' /\ PinInv'
    BY <1>7, <1>i, <2>0 DEF PairAccepted, AcceptFiles, RCore, ReservedInv, PinInv, EndsInv,
       ReceiverTypeOK
  <2> QED
    BY <1>j, <2>2, <2>3, <2>4, <2>5
<1>8. CASE PairDeclined(c)
  <2>0. /\ ControlMessage(c) /\ Incoming(c) /\ Message(c).t = "pair" /\ state = "waitPairResponse"
        /\ MessageIs(c) /\ controlBuffer' \in Buffered /\ ToRecvOK' /\ session \in Conn
    <3>1. Handle(c, "pair")
      BY <1>8 DEF PairDeclined
    <3> QED
      BY <1>d, <1>e, <1>h, <3>1 DEF Expected, ReceiverTypeOK, State
  <2>1. ToSendOK'
    BY <1>8, <1>b DEF PairDeclined
  <2>2. EndsInv' /\ recvEnd' \in [Conn -> {"none", "open", "dropped", "closed"}] /\ peer' = None
    BY <1>8, <1>g DEF PairDeclined, Terminate
  <2>3. WTypes'
    BY <1>8, <2>0, <2>1, <2>2, WireParts DEF PairDeclined
  <2>4. ReceiverTypeOK'
    BY <1>8, <2>0, <2>2 DEF PairDeclined, Terminate, CleanupPartialFiles, ReceiverTypeOK,
       Buffered, State
  <2>5. ReservedInv' /\ PinInv'
    BY <1>8, <1>i, <2>0, <2>2 DEF PairDeclined, Terminate, RCore, ReservedInv, PinInv, EndsInv,
       ReceiverTypeOK
  <2> QED
    BY <1>j, <2>2, <2>3, <2>4, <2>5
<1>9. CASE PairFailed(c)
  <2>0. /\ ControlMessage(c) /\ Incoming(c) /\ Message(c).t = "pair" /\ state = "waitPairResponse"
        /\ MessageIs(c) /\ controlBuffer' \in Buffered /\ ToRecvOK' /\ session \in Conn
    <3>1. Handle(c, "pair")
      BY <1>9 DEF PairFailed
    <3> QED
      BY <1>d, <1>e, <1>h, <3>1 DEF Expected, ReceiverTypeOK, State
  <2>1. ToSendOK'
    BY <1>9, <1>b DEF PairFailed
  <2>2. EndsInv' /\ recvEnd' \in [Conn -> {"none", "open", "dropped", "closed"}]
    BY <1>9, <1>c DEF PairFailed
  <2>3. WTypes'
    BY <1>9, <2>0, <2>1, <2>2, WireParts DEF PairFailed
  <2>4. ReceiverTypeOK'
    BY <1>9, <2>0 DEF PairFailed, ReceiverTypeOK, Buffered, State
  <2>5. ReservedInv' /\ PinInv'
    BY <1>9, <1>i, <2>0 DEF PairFailed, RCore, ReservedInv, PinInv, EndsInv, ReceiverTypeOK
  <2> QED
    BY <1>j, <2>2, <2>3, <2>4, <2>5
<1>10. CASE HandleFileHeader(c)
  <2>0. /\ ControlMessage(c) /\ Incoming(c) /\ Message(c).t = "header" /\ state = "waitFiles"
        /\ MessageIs(c) /\ controlBuffer' \in Buffered /\ ToRecvOK' /\ session \in Conn
    <3>1. Handle(c, "header")
      BY <1>10 DEF HandleFileHeader
    <3> QED
      BY <1>d, <1>e, <1>h, <3>1 DEF Expected, ReceiverTypeOK, State
  <2>1. ToSendOK'
    BY <1>10, <1>b DEF HandleFileHeader
  <2>2. EndsInv' /\ recvEnd' \in [Conn -> {"none", "open", "dropped", "closed"}]
    BY <1>10, <1>c DEF HandleFileHeader, StartReceivingFile
  <2>3. WTypes'
    BY <1>10, <2>0, <2>1, <2>2, WireParts DEF HandleFileHeader
  <2>4. ReceiverTypeOK'
    BY <1>10, <1>k, <2>0 DEF HandleFileHeader, StartReceivingFile, MarkTransferStarted,
       MessageIs, ReceiverTypeOK, Buffered, State
  <2>5. ReservedInv' /\ PinInv'
    BY <1>10, <1>i, <2>0 DEF HandleFileHeader, StartReceivingFile, RCore, ReservedInv, PinInv,
       EndsInv, ReceiverTypeOK
  <2> QED
    BY <1>j, <2>2, <2>3, <2>4, <2>5
<1>11. CASE RejectHeader(c)
  <2>0. /\ ControlMessage(c) /\ Incoming(c) /\ Message(c).t = "header" /\ state = "waitFiles"
        /\ MessageIs(c) /\ controlBuffer' \in Buffered /\ ToRecvOK' /\ session \in Conn
    <3>1. Handle(c, "header")
      BY <1>11 DEF RejectHeader
    <3> QED
      BY <1>d, <1>e, <1>h, <3>1 DEF Expected, ReceiverTypeOK, State
  <2>1. ToSendOK'
    BY <1>11, <1>b DEF RejectHeader
  <2>2. EndsInv' /\ recvEnd' \in [Conn -> {"none", "open", "dropped", "closed"}] /\ peer' = None
    BY <1>11, <1>g DEF RejectHeader, RejectFileTransfer
  <2>3. WTypes'
    BY <1>11, <2>0, <2>1, <2>2, WireParts DEF RejectHeader
  <2>4. ReceiverTypeOK'
    BY <1>11, <2>0, <2>2 DEF RejectHeader, RejectFileTransfer, ReceiverTypeOK, Buffered, State
  <2>5. ReservedInv' /\ PinInv'
    BY <1>11, <1>i, <2>0, <2>2 DEF RejectHeader, RejectFileTransfer, RCore, ReservedInv, PinInv,
       EndsInv, ReceiverTypeOK
  <2> QED
    BY <1>j, <2>2, <2>3, <2>4, <2>5
<1>12. CASE HandleBinaryData(c)
  <2>0. Incoming(c) /\ Receiving /\ ToRecvOK' /\ state = "receivingFiles" /\ currentFileID \in File
    BY <1>12, <1>d DEF HandleBinaryData, Receiving, ReceiverTypeOK
  <2>1. ToSendOK'
    BY <1>12, <1>b DEF HandleBinaryData
  <2>2. EndsInv' /\ recvEnd' \in [Conn -> {"none", "open", "dropped", "closed"}]
    BY <1>12, <1>c DEF HandleBinaryData
  <2>3. WTypes'
    BY <1>12, <2>0, <2>1, <2>2, WireParts DEF HandleBinaryData
  <2>4. ReceiverTypeOK'
    <3>1. currentBytes' \in Nat /\ pure' \in BOOLEAN
      <4>1. PICK ok \in DiskOutcome : /\ currentBytes' = IF ok THEN currentBytes + 1 ELSE currentBytes
                                      /\ pure' = (pure /\ ok /\ Frame(c) = Chunk(currentFileID))
        BY <1>12 DEF HandleBinaryData
      <4>2. currentBytes' \in Nat
        BY <4>1 DEF ReceiverTypeOK
      <4>3. (pure /\ ok /\ Frame(c) = Chunk(currentFileID)) \in BOOLEAN
        BY SMT
      <4> QED
        BY <4>1, <4>2, <4>3, Zenon
    <3> QED
      BY <1>12, <3>1 DEF HandleBinaryData, ReceiverTypeOK
  <2>5. ReservedInv' /\ PinInv'
    BY <1>12, <1>i, <2>0, <2>2 DEF HandleBinaryData, RCore, ReservedInv, PinInv, EndsInv,
       ReceiverTypeOK
  <2> QED
    BY <1>j, <2>2, <2>3, <2>4, <2>5
<1>13. CASE TooMuchData(c)
  <2>0. Incoming(c) /\ Receiving /\ ToRecvOK' /\ state = "receivingFiles" /\ currentFileID \in File
    BY <1>13, <1>d DEF TooMuchData, Receiving, ReceiverTypeOK
  <2>1. ToSendOK'
    BY <1>13, <1>b DEF TooMuchData
  <2>2. EndsInv' /\ recvEnd' \in [Conn -> {"none", "open", "dropped", "closed"}] /\ peer' = None
    BY <1>13, <1>g DEF TooMuchData, RejectData, RejectFileTransfer
  <2>3. WTypes'
    BY <1>13, <2>0, <2>1, <2>2, WireParts DEF TooMuchData
  <2>4. ReceiverTypeOK'
    BY <1>13, <2>0, <2>2 DEF TooMuchData, RejectData, CleanupCurrentFile, RejectFileTransfer, ReceiverTypeOK, State
  <2>5. ReservedInv' /\ PinInv'
    BY <1>13, <1>i, <2>0, <2>2 DEF TooMuchData, RejectData, CleanupCurrentFile,
       RejectFileTransfer, RCore, ReservedInv, PinInv, EndsInv, ReceiverTypeOK
  <2> QED
    BY <1>j, <2>2, <2>3, <2>4, <2>5
<1>14. CASE RejectGarbage(c)
  <2>0. /\ GarbageAsData(c) /\ Incoming(c) /\ ToRecvOK' /\ state = "waitFiles" /\ controlBuffer' \in Buffered
    BY <1>14, <1>d, <1>e DEF RejectGarbage, GarbageAsData, ControlMessage
  <2>1. ToSendOK'
    BY <2>0, <1>b DEF GarbageAsData
  <2>2. EndsInv' /\ recvEnd' \in [Conn -> {"none", "open", "dropped", "closed"}] /\ peer' = None
    BY <1>14, <1>g, <2>0 DEF RejectGarbage, GarbageAsData, RejectData, RejectFileTransfer
  <2>3. WTypes'
    BY <2>0, <2>1, <2>2, WireParts DEF GarbageAsData
  <2>4. ReceiverTypeOK'
    BY <1>14, <2>0, <2>2 DEF RejectGarbage, GarbageAsData, RejectData, CleanupCurrentFile, RejectFileTransfer,
       ReceiverTypeOK, Buffered, State
  <2>5. ReservedInv' /\ PinInv'
    BY <1>14, <1>i, <2>0, <2>2 DEF RejectGarbage, GarbageAsData, RejectData, RejectFileTransfer,
       RCore, ReservedInv, PinInv, EndsInv, ReceiverTypeOK
  <2> QED
    BY <1>j, <2>2, <2>3, <2>4, <2>5
<1>15. CASE WriteGarbage(c)
  <2>0. /\ GarbageAsData(c) /\ Incoming(c) /\ ToRecvOK' /\ state = "waitFiles" /\ controlBuffer' \in Buffered
    BY <1>15, <1>d, <1>e DEF WriteGarbage, GarbageAsData, ControlMessage
  <2>1. ToSendOK'
    BY <2>0, <1>b DEF GarbageAsData
  <2>2. EndsInv' /\ recvEnd' \in [Conn -> {"none", "open", "dropped", "closed"}]
    BY <1>15, <1>c, <2>0 DEF WriteGarbage, GarbageAsData
  <2>3. WTypes'
    BY <2>0, <2>1, <2>2, WireParts DEF GarbageAsData
  <2>4. ReceiverTypeOK'
    <3>1. currentBytes \in Nat /\ currentFileID \in File /\ Size[currentFileID] \in Nat
      BY <1>15 DEF WriteGarbage, ReceiverTypeOK
    <3>2. currentBytes' \in Nat
      BY <1>15, <3>1 DEF WriteGarbage
    <3> QED
      BY <1>15, <2>0, <3>2 DEF WriteGarbage, GarbageAsData, ReceiverTypeOK, Buffered
  <2>5. ReservedInv' /\ PinInv'
    BY <1>15, <1>i, <2>0 DEF WriteGarbage, GarbageAsData, RCore, ReservedInv, PinInv, EndsInv,
       ReceiverTypeOK
  <2> QED
    BY <1>j, <2>2, <2>3, <2>4, <2>5
<1>l. ASSUME FinishCurrentFile(c)
      PROVE  /\ Incoming(c) /\ ToRecvOK' /\ ToSendOK' /\ state = "receivingFiles" /\ currentFileID \in File
             /\ saved' \subseteq File /\ refused' \subseteq File /\ accepting = None
             /\ UNCHANGED <<session, accepting, sendEnd, opened>>
  <2>1. Incoming(c) /\ ToRecvOK' /\ state = "receivingFiles" /\ currentFileID \in File
    BY <1>d, <1>l DEF FinishCurrentFile, Receiving, ReceiverTypeOK
  <2>2. PICK flushed \in DiskOutcome :
            /\ Reply(Acknowledge(currentFileID, Success(flushed)))
            /\ saved' = IF Success(flushed) THEN saved \cup {currentFileID} ELSE saved
            /\ refused' = IF Success(flushed) THEN refused ELSE refused \cup {currentFileID}
    BY <1>l DEF FinishCurrentFile
  <2>3. saved' \subseteq File /\ refused' \subseteq File
    BY <2>1, <2>2 DEF ReceiverTypeOK
  <2>4. Success(flushed) \in BOOLEAN
    BY <2>2 DEF Success, DiskOutcome
  <2>5. Acknowledge(currentFileID, Success(flushed)) \in Seq(ToSendFrame)
    BY <2>1, <2>4, Replyable DEF Acknowledge
  <2>6. ToSendOK'
    BY <1>f, <2>2, <2>5
  <2> QED
    BY <1>i, <1>l, <2>1, <2>3, <2>6 DEF FinishCurrentFile
<1>16. CASE FinishLast(c)
  <2>0. /\ FinishCurrentFile(c) /\ Incoming(c) /\ ToRecvOK' /\ ToSendOK' /\ state = "receivingFiles"
        /\ currentFileID \in File /\ saved' \subseteq File /\ refused' \subseteq File /\ accepting = None
        /\ UNCHANGED <<session, accepting, sendEnd, opened>>
    BY <1>16, <1>l DEF FinishLast
  <2>2. EndsInv' /\ recvEnd' \in [Conn -> {"none", "open", "dropped", "closed"}] /\ peer' = None
    BY <1>16, <1>g, <2>0 DEF FinishLast
  <2>3. WTypes'
    BY <2>0, <2>2, WireParts
  <2>4. ReceiverTypeOK'
    BY <1>16, <2>0, <2>2 DEF FinishLast, FinishCurrentFile, NothingCurrent, ReceiverTypeOK,
       State
  <2>5. ReservedInv' /\ PinInv'
    BY <1>16, <1>i, <2>0, <2>2 DEF FinishLast, FinishCurrentFile, NothingCurrent, RCore,
       ReservedInv, PinInv, EndsInv, ReceiverTypeOK
  <2> QED
    BY <1>j, <2>2, <2>3, <2>4, <2>5
<1>17. CASE FinishThenNext(c)
  <2>0. /\ FinishCurrentFile(c) /\ Incoming(c) /\ ToRecvOK' /\ ToSendOK' /\ state = "receivingFiles"
        /\ currentFileID \in File /\ saved' \subseteq File /\ refused' \subseteq File /\ accepting = None
        /\ UNCHANGED <<session, accepting, sendEnd, opened>>
    BY <1>17, <1>l DEF FinishThenNext
  <2>2. EndsInv' /\ recvEnd' \in [Conn -> {"none", "open", "dropped", "closed"}]
    BY <1>17, <1>c, <2>0 DEF FinishThenNext, StartReceivingFile
  <2>3. WTypes'
    BY <2>0, <2>2, WireParts
  <2>4. ReceiverTypeOK'
    BY <1>17, <2>0, <2>2 DEF FinishThenNext, FinishCurrentFile, StartReceivingFile,
       MarkTransferStarted, ReceiverTypeOK, State
  <2>5. ReservedInv' /\ PinInv'
    BY <1>17, <1>i, <2>0, <2>2 DEF FinishThenNext, FinishCurrentFile, StartReceivingFile,
       MarkTransferStarted, RCore, ReservedInv, PinInv, EndsInv, ReceiverTypeOK
  <2> QED
    BY <1>j, <2>2, <2>3, <2>4, <2>5
<1>18. CASE FinishThenReject(c)
  <2>0. /\ FinishCurrentFile(c) /\ Incoming(c) /\ ToRecvOK' /\ ToSendOK' /\ state = "receivingFiles"
        /\ currentFileID \in File /\ saved' \subseteq File /\ refused' \subseteq File /\ accepting = None
        /\ UNCHANGED <<session, accepting, sendEnd, opened>>
    BY <1>18, <1>l DEF FinishThenReject
  <2>2. EndsInv' /\ recvEnd' \in [Conn -> {"none", "open", "dropped", "closed"}] /\ peer' = None
    BY <1>18, <1>g, <2>0 DEF FinishThenReject, RejectFileTransfer
  <2>3. WTypes'
    BY <2>0, <2>2, WireParts
  <2>4. ReceiverTypeOK'
    BY <1>18, <2>0, <2>2 DEF FinishThenReject, FinishCurrentFile, NothingCurrent,
       RejectFileTransfer, ReceiverTypeOK, State
  <2>5. ReservedInv' /\ PinInv'
    BY <1>18, <1>i, <2>0, <2>2 DEF FinishThenReject, FinishCurrentFile, NothingCurrent,
       RejectFileTransfer, RCore, ReservedInv, PinInv, EndsInv, ReceiverTypeOK
  <2> QED
    BY <1>j, <2>2, <2>3, <2>4, <2>5
<1>19. CASE FinishThenStop(c)
  <2>0. /\ FinishCurrentFile(c) /\ Incoming(c) /\ ToRecvOK' /\ ToSendOK' /\ state = "receivingFiles"
        /\ currentFileID \in File /\ saved' \subseteq File /\ refused' \subseteq File /\ accepting = None
        /\ UNCHANGED <<session, accepting, sendEnd, opened>>
    BY <1>19, <1>l DEF FinishThenStop
  <2>2. EndsInv' /\ recvEnd' \in [Conn -> {"none", "open", "dropped", "closed"}] /\ peer' = None
    BY <1>19, <1>g, <2>0 DEF FinishThenStop, Terminate
  <2>3. WTypes'
    BY <2>0, <2>2, WireParts
  <2>4. ReceiverTypeOK'
    BY <1>19, <2>0, <2>2 DEF FinishThenStop, FinishCurrentFile, Terminate, CleanupPartialFiles,
       ReceiverTypeOK, State
  <2>5. ReservedInv' /\ PinInv'
    BY <1>19, <1>i, <2>0, <2>2 DEF FinishThenStop, FinishCurrentFile, Terminate, CleanupPartialFiles,
       RCore, ReservedInv, PinInv, EndsInv, ReceiverTypeOK
  <2> QED
    BY <1>j, <2>2, <2>3, <2>4, <2>5
<1>20. CASE CollectControl(c)
  <2>0. Incoming(c) /\ ToRecvOK' /\ controlBuffer' \in Buffered
    <3>1. Incoming(c) /\ ToRecvOK' /\ FieldsOf(Frame(c), c)
      BY <1>20, <1>d DEF CollectControl
    <3> QED
      BY <1>20, <3>1 DEF CollectControl, Buffered, FieldsOf, ReceiverTypeOK
  <2>1. ToSendOK'
    BY <1>20, <1>b DEF CollectControl
  <2>2. EndsInv' /\ recvEnd' \in [Conn -> {"none", "open", "dropped", "closed"}]
    BY <1>20, <1>c DEF CollectControl
  <2>3. WTypes'
    BY <1>20, <2>0, <2>1, <2>2, WireParts DEF CollectControl
  <2>4. ReceiverTypeOK'
    BY <1>20, <2>0 DEF CollectControl, ReceiverTypeOK, Buffered
  <2>5. ReservedInv' /\ PinInv'
    BY <1>20, <1>i, <2>0 DEF CollectControl, RCore, ReservedInv, PinInv, EndsInv, ReceiverTypeOK
  <2> QED
    BY <1>j, <2>2, <2>3, <2>4, <2>5
<1>21. CASE IgnoreFrame(c)
  <2>0. Incoming(c) /\ ToRecvOK' /\ controlBuffer' \in Buffered
    <3>1. Incoming(c) /\ ToRecvOK' /\ FieldsOf(Frame(c), c)
      BY <1>21, <1>d DEF IgnoreFrame
    <3> QED
      BY <1>21, <3>1 DEF IgnoreFrame, Buffered, FieldsOf, ReceiverTypeOK
  <2>1. ToSendOK'
    BY <1>21, <1>b DEF IgnoreFrame
  <2>2. EndsInv' /\ recvEnd' \in [Conn -> {"none", "open", "dropped", "closed"}]
    BY <1>21, <1>c DEF IgnoreFrame
  <2>3. WTypes'
    BY <1>21, <2>0, <2>1, <2>2, WireParts DEF IgnoreFrame
  <2>4. ReceiverTypeOK'
    BY <1>21, <2>0 DEF IgnoreFrame, ReceiverTypeOK, Buffered
  <2>5. ReservedInv' /\ PinInv'
    BY <1>21, <1>i, <2>0 DEF IgnoreFrame, RCore, ReservedInv, PinInv, EndsInv, ReceiverTypeOK
  <2> QED
    BY <1>j, <2>2, <2>3, <2>4, <2>5
<1>22. CASE PairUnverified(c)
  <2>0. /\ ControlMessage(c) /\ Incoming(c) /\ Message(c).t = "pair" /\ state = "waitPairResponse"
        /\ MessageIs(c) /\ controlBuffer' \in Buffered /\ ToRecvOK' /\ session \in Conn
    <3>1. Handle(c, "pair")
      BY <1>22 DEF PairUnverified
    <3> QED
      BY <1>d, <1>e, <1>h, <3>1 DEF Expected, ReceiverTypeOK, State
  <2>1. ToSendOK'
    <3>1. PreparedFiles(acceptedIDs) \in SUBSET File
      BY DEF PreparedFiles, ReceiverTypeOK
    <3> QED
      BY <1>22, <1>f, <3>1, Replyable DEF PairUnverified, AcceptFiles
  <2>2. EndsInv' /\ recvEnd' \in [Conn -> {"none", "open", "dropped", "closed"}]
    BY <1>22, <1>c DEF PairUnverified
  <2>3. WTypes'
    BY <1>22, <2>0, <2>1, <2>2, WireParts DEF PairUnverified
  <2>4. ReceiverTypeOK'
    BY <1>22, <2>0 DEF PairUnverified, AcceptFiles, PreparedFiles, MessageIs, ReceiverTypeOK,
       Buffered, State
  <2>5. ReservedInv' /\ PinInv'
    BY <1>22, <1>i, <2>0 DEF PairUnverified, AcceptFiles, RCore, ReservedInv, PinInv, EndsInv,
       ReceiverTypeOK
  <2> QED
    BY <1>j, <2>2, <2>3, <2>4, <2>5
<1>23. CASE EmptyList(c)
  <2>0. /\ ControlMessage(c) /\ Incoming(c) /\ state = "waitFileList"
        /\ controlBuffer' \in Buffered /\ ToRecvOK' /\ session \in Conn
    <3>1. ControlMessage(c) /\ Incoming(c) /\ Expected = "list"
      BY <1>23 DEF EmptyList, LooksEmpty, ControlMessage
    <3> QED
      BY <1>d, <1>e, <3>1 DEF Expected, ReceiverTypeOK, State
  <2>1. ToSendOK'
    BY <1>23, <1>f, Replyable DEF EmptyList
  <2>2. EndsInv' /\ recvEnd' \in [Conn -> {"none", "open", "dropped", "closed"}]
    BY <1>23, <1>c DEF EmptyList
  <2>3. WTypes'
    BY <1>23, <2>0, <2>1, <2>2, WireParts DEF EmptyList
  <2>4. ReceiverTypeOK'
    BY <1>23, <2>0 DEF EmptyList, ReceiverTypeOK, Buffered, State
  <2>5. ReservedInv' /\ PinInv'
    BY <1>23, <1>i, <2>0 DEF EmptyList, RCore, ReservedInv, PinInv, EndsInv, ReceiverTypeOK
  <2> QED
    BY <1>j, <2>2, <2>3, <2>4, <2>5
<1> QED
  BY <1>1, <1>2, <1>3, <1>4, <1>5, <1>6, <1>7, <1>8, <1>9, <1>10, <1>11, <1>12, <1>13,
     <1>14, <1>15, <1>16, <1>17, <1>18, <1>19, <1>20, <1>21, <1>22, <1>23
  DEF HandleFrame

\* So do offers, the selection of files, the closing of connections and the timers.
LEMMA OtherTypes ==
    ASSUME WTypes, ReceiverTypeOK, RCore,
           \/ \E c \in Conn : \/ ReserveSession(c) \/ FailAccept(c) \/ InstallPeer(c) \/ SelectFiles(c)
                              \/ HandlePeerClosed(c) \/ CloseRecvEnd(c)
           \/ CloseReceiver
           \/ \E f \in File : StaleWatchdog(f) \/ CheckTransferWatchdog(f)
           \/ \E p \in Peer : BlockExpires(p)
    PROVE  WTypes' /\ ReceiverTypeOK' /\ RCore'
<1> USE WireAssumption, ReceiverAssumption
    DEF handshakeVars, listVars, writeVars, watchVars, storeVars, wireVars, receiverVars
<1>a. ToSendOK /\ ToRecvOK /\ recvEnd \in [Conn -> {"none", "open", "dropped", "closed"}]
  BY DEF ToSendOK, ToRecvOK, WTypes, WireTypeOK
<1>b. (UNCHANGED toSend => ToSendOK') /\ (UNCHANGED toRecv => ToRecvOK')
  BY <1>a DEF ToSendOK, ToRecvOK, FramesInv
<1>c. ASSUME UNCHANGED <<recvEnd, peer, accepting, session>>
      PROVE  EndsInv' /\ recvEnd' \in [Conn -> {"none", "open", "dropped", "closed"}]
  BY <1>c, <1>a DEF RCore, EndsInv
<1>d. UNCHANGED wireVars => WTypes'
  BY DEF WTypes, WireTypeOK, FramesInv
<1>e. 0 \in 0 .. MaxPINAttempts /\ 0 \in 0 .. IdleChecks /\ 0 \in Nat
  OBVIOUS
<1>1. ASSUME NEW c \in Conn, ReserveSession(c)
      PROVE  WTypes' /\ ReceiverTypeOK' /\ RCore'
  <2>1. recvEnd' \in [Conn -> {"none", "open", "dropped", "closed"}] /\ peer' = None
    BY <1>1, <1>a DEF ReserveSession, DropPeer, ReceiverTypeOK
  <2>2. EndsInv'
    <3>1. peer # c /\ recvEnd'[c] = "none"
      BY <1>1, <1>a DEF ReserveSession, DropPeer, RCore, EndsInv, ReceiverTypeOK
    <3>2. \A d \in Conn : recvEnd'[d] # "open"
      BY <1>1, <1>a DEF ReserveSession, DropPeer, RCore, EndsInv, ReceiverTypeOK
    <3> QED
      BY <1>1, <2>1, <3>1, <3>2 DEF ReserveSession, EndsInv
  <2>3. WTypes'
    BY <1>1, <1>b, <2>1, WireParts DEF ReserveSession
  <2>4. ReceiverTypeOK'
    BY <1>1, <1>e, <2>1 DEF ReserveSession, CleanupPartialFiles, NoTokens, ReceiverTypeOK, State
  <2>5. ReservedInv' /\ PinInv'
    BY <1>1 DEF ReserveSession, CleanupPartialFiles, ReservedInv, PinInv
  <2> QED
    BY <2>2, <2>3, <2>4, <2>5 DEF RCore
<1>2. ASSUME NEW c \in Conn, FailAccept(c)
      PROVE  WTypes' /\ ReceiverTypeOK' /\ RCore'
  <2>1. recvEnd' \in [Conn -> {"none", "open", "dropped", "closed"}] /\ EndsInv'
    BY <1>2, <1>a DEF FailAccept, RCore, EndsInv, ReceiverTypeOK
  <2>2. WTypes'
    BY <1>2, <1>b, <2>1, WireParts DEF FailAccept
  <2>3. ReceiverTypeOK'
    BY <1>2 DEF FailAccept, ReceiverTypeOK, State
  <2>4. ReservedInv' /\ PinInv'
    BY <1>2 DEF FailAccept, RCore, ReservedInv, PinInv, EndsInv
  <2> QED
    BY <2>1, <2>2, <2>3, <2>4 DEF RCore
<1>3. ASSUME NEW c \in Conn, InstallPeer(c)
      PROVE  WTypes' /\ ReceiverTypeOK' /\ RCore'
  <2>1. recvEnd' \in [Conn -> {"none", "open", "dropped", "closed"}] /\ EndsInv'
    BY <1>3, <1>a DEF InstallPeer, RCore, EndsInv, ReceiverTypeOK
  <2>2. WTypes'
    BY <1>3, <1>b, <2>1, WireParts DEF InstallPeer
  <2>3. ReceiverTypeOK'
    BY <1>3 DEF InstallPeer, ReceiverTypeOK
  <2>4. ReservedInv' /\ PinInv'
    BY <1>3 DEF InstallPeer, RCore, ReservedInv, PinInv
  <2> QED
    BY <2>1, <2>2, <2>3, <2>4 DEF RCore
<1>4. ASSUME NEW c \in Conn, SelectFiles(c)
      PROVE  WTypes' /\ ReceiverTypeOK' /\ RCore'
  <2> DEFINE chosen == FilesOf(c) \cap Allowed
  <2>0. chosen \subseteq File /\ PreparedFiles(chosen) \in SUBSET File /\ {} \in SUBSET File
    BY DEF FilesOf, PreparedFiles, ReceiverTypeOK
  <2>1. /\ selecting' = selecting \ {c} /\ acceptedIDs' = chosen
        /\ UNCHANGED <<toRecv, recvEnd, sendEnd, opened, peer, accepting, handshakeVars,
                       controlBuffer, files, writeVars, watchVars, storeVars, saved, refused>>
    BY <1>4 DEF SelectFiles
  <2>2. \/ UNCHANGED <<toSend, state, fileTokens>>
        \/ peer # None /\ Reply(<<Answer("DECLINED", {}), Delimiter>>) /\ UNCHANGED <<state, fileTokens>>
        \/ /\ peer # None /\ Reply(<<Answer("PAIR", {}), Delimiter>>)
           /\ state' = IF CanSend THEN "waitPairResponse" ELSE state
           /\ UNCHANGED fileTokens
        \/ peer # None /\ AcceptFiles(chosen)
    BY <1>4 DEF SelectFiles
  <2>3. ToSendOK'
    BY <1>a, <1>b, <2>0, <2>2, PutReplies, Replyable DEF AcceptFiles, ReceiverTypeOK
  <2>4. EndsInv' /\ recvEnd' \in [Conn -> {"none", "open", "dropped", "closed"}]
    BY <1>c, <2>1
  <2>5. WTypes'
    BY <1>b, <2>1, <2>3, <2>4, WireParts
  <2>6. state' \in State /\ fileTokens' \subseteq File /\ (state' # state => peer # None)
    BY <2>0, <2>2 DEF AcceptFiles, State, ReceiverTypeOK
  <2>7. ReceiverTypeOK'
    BY <2>0, <2>1, <2>6 DEF ReceiverTypeOK
  <2>8. ReservedInv' /\ PinInv'
    BY <2>1, <2>6 DEF RCore, ReservedInv, PinInv, EndsInv
  <2> QED
    BY <2>4, <2>5, <2>7, <2>8 DEF RCore
<1>5. ASSUME NEW c \in Conn, HandlePeerClosed(c)
      PROVE  WTypes' /\ ReceiverTypeOK' /\ RCore'
  <2>1. EndsInv' /\ recvEnd' \in [Conn -> {"none", "open", "dropped", "closed"}] /\ peer' = None
    BY <1>5, DropEnds DEF HandlePeerClosed, Terminate, DropPeer, RCore
  <2>2. WTypes'
    BY <1>5, <1>b, <2>1, WireParts DEF HandlePeerClosed
  <2>3. ReceiverTypeOK'
    BY <1>5, <2>1 DEF HandlePeerClosed, Terminate, CleanupPartialFiles, ReceiverTypeOK, State
  <2>4. ReservedInv' /\ PinInv'
    BY <1>5, <2>1 DEF HandlePeerClosed, Terminate, ReservedInv, PinInv
  <2> QED
    BY <2>1, <2>2, <2>3, <2>4 DEF RCore
<1>6. ASSUME NEW c \in Conn, CloseRecvEnd(c)
      PROVE  WTypes' /\ ReceiverTypeOK' /\ RCore'
  <2>1. recvEnd' \in [Conn -> {"none", "open", "dropped", "closed"}] /\ EndsInv'
    BY <1>6, <1>a DEF CloseRecvEnd, RCore, EndsInv, ReceiverTypeOK
  <2>2. ToRecvOK'
    <3>1. <<>> \in Seq(From(c))
      OBVIOUS
    <3> QED
      BY <1>6, <1>a, <3>1, QueueChanges DEF CloseRecvEnd
  <2>3. WTypes'
    BY <1>6, <1>b, <2>1, <2>2, WireParts DEF CloseRecvEnd
  <2>4. ReceiverTypeOK' /\ ReservedInv' /\ PinInv'
    BY <1>6 DEF CloseRecvEnd, ReceiverTypeOK, RCore, ReservedInv, PinInv
  <2> QED
    BY <2>1, <2>3, <2>4 DEF RCore
<1>7. CASE CloseReceiver
  <2>1. recvEnd' \in [Conn -> {"none", "open", "dropped", "closed"}] /\ EndsInv'
    BY <1>7, <1>a DEF CloseReceiver, RCore, EndsInv, ReceiverTypeOK
  <2>2. WTypes'
    BY <1>7, <1>b, <2>1, WireParts DEF CloseReceiver
  <2>3. ReceiverTypeOK'
    BY <1>7 DEF CloseReceiver, CleanupPartialFiles, ReceiverTypeOK, State
  <2>4. ReservedInv' /\ PinInv'
    BY <1>7 DEF CloseReceiver, ReservedInv, PinInv
  <2> QED
    BY <2>1, <2>2, <2>3, <2>4 DEF RCore
<1>8. ASSUME NEW f \in File, StaleWatchdog(f)
      PROVE  WTypes' /\ ReceiverTypeOK' /\ RCore'
  <2>1. ReceiverTypeOK' /\ EndsInv' /\ ReservedInv' /\ PinInv'
    BY <1>8, <1>c DEF StaleWatchdog, ReceiverTypeOK, RCore, ReservedInv, PinInv
  <2> QED
    BY <1>8, <1>d, <2>1 DEF StaleWatchdog, RCore
<1>9. ASSUME NEW f \in File, CheckTransferWatchdog(f)
      PROVE  WTypes' /\ ReceiverTypeOK' /\ RCore'
  <2>0. accepting = None /\ lastSeen' \in (File \cup {None}) \X Nat
    BY <1>9 DEF CheckTransferWatchdog, Stale, RCore, ReservedInv, ReceiverTypeOK
  <2>1. CASE IdleFor >= IdleChecks
    <3>1. Terminate /\ timers' = timers \ {f} /\ idleChecks' = 0
      BY <1>9, <2>1 DEF CheckTransferWatchdog
    <3>2. EndsInv' /\ recvEnd' \in [Conn -> {"none", "open", "dropped", "closed"}] /\ peer' = None
      BY <1>9, <3>1, DropEnds DEF CheckTransferWatchdog, Terminate, DropPeer, RCore
    <3>3. WTypes'
      BY <1>9, <1>b, <3>2, WireParts DEF CheckTransferWatchdog
    <3>4. ReceiverTypeOK'
      BY <1>9, <1>e, <2>0, <3>1, <3>2 DEF CheckTransferWatchdog, Terminate, CleanupPartialFiles,
         ReceiverTypeOK, State
    <3>5. ReservedInv' /\ PinInv'
      BY <1>9, <2>0, <3>1, <3>2 DEF CheckTransferWatchdog, Terminate, ReservedInv, PinInv
    <3> QED
      BY <3>2, <3>3, <3>4, <3>5 DEF RCore
  <2>2. CASE ~(IdleFor >= IdleChecks)
    <3>1. idleChecks' = IdleFor /\ UNCHANGED <<state, peer, recvEnd, writeVars, timers>>
      BY <1>9, <2>2 DEF CheckTransferWatchdog
    <3>2. IdleFor \in 0 .. IdleChecks
      <4>1. IdleFor \in Nat
        BY DEF IdleFor, ReceiverTypeOK
      <4> QED
        BY <2>2, <4>1
    <3>3. ReceiverTypeOK'
      BY <1>9, <2>0, <3>1, <3>2 DEF CheckTransferWatchdog, ReceiverTypeOK
    <3>4. EndsInv' /\ ReservedInv' /\ PinInv' /\ recvEnd' \in [Conn -> {"none", "open", "dropped", "closed"}]
      BY <1>9, <1>c, <3>1 DEF CheckTransferWatchdog, RCore, ReservedInv, PinInv
    <3>5. WTypes'
      BY <1>9, <1>b, <3>4, WireParts DEF CheckTransferWatchdog
    <3> QED
      BY <3>3, <3>4, <3>5 DEF RCore
  <2> QED
    BY <2>1, <2>2
<1>10. ASSUME NEW p \in Peer, BlockExpires(p)
      PROVE  WTypes' /\ ReceiverTypeOK' /\ RCore'
  <2>1. ReceiverTypeOK' /\ EndsInv' /\ ReservedInv' /\ PinInv'
    BY <1>10, <1>c DEF BlockExpires, ReceiverTypeOK, RCore, ReservedInv, PinInv
  <2> QED
    BY <1>10, <1>d, <2>1 DEF BlockExpires, RCore
<1> QED
  BY <1>1, <1>2, <1>3, <1>4, <1>5, <1>6, <1>7, <1>8, <1>9, <1>10

\* The types, with what the connections and the senders need.
BaseInv == WTypes /\ STypes /\ ReceiverTypeOK /\ RCore

\* It holds at the start.
LEMMA BaseInit == Init => BaseInv
<1> SUFFICES ASSUME Init PROVE BaseInv
  OBVIOUS
<1> USE WireAssumption, SenderAssumption, ReceiverAssumption
<1>1. WTypes
  BY DEF Init, WireInit, WTypes, WireTypeOK, FramesInv
<1>2. STypes
  BY DEF Init, SenderInit, STypes, SenderTypeOK, PlacesTyped, QueueInv, Main, SenderState
<1>3. ReceiverTypeOK
  <2>1. 0 \in 0 .. MaxPINAttempts /\ 0 \in 0 .. IdleChecks /\ 0 \in Nat
    OBVIOUS
  <2> QED
    BY <2>1 DEF Init, ReceiverInit, ReceiverTypeOK, State
<1>4. RCore
  BY DEF Init, ReceiverInit, WireInit, RCore, EndsInv, ReservedInv, PinInv
<1> QED
  BY <1>1, <1>2, <1>3, <1>4 DEF BaseInv

\* Every step keeps it.
LEMMA BaseStep == BaseInv /\ [Next]_vars => BaseInv'
<1> SUFFICES ASSUME BaseInv, [Next]_vars PROVE BaseInv'
  OBVIOUS
<1>a. UNCHANGED senderVars => STypes'
  BY DEF BaseInv, STypes, SenderTypeOK, PlacesTyped, QueueInv, senderVars, queueVars
<1>b. UNCHANGED receiverVars => ReceiverTypeOK' /\ ReservedInv' /\ PinInv'
  BY DEF BaseInv, ReceiverTypeOK, RCore, ReservedInv, PinInv, receiverVars, handshakeVars, listVars,
     writeVars, watchVars, storeVars
<1>c. UNCHANGED <<receiverVars, recvEnd>> => EndsInv'
  BY DEF BaseInv, RCore, EndsInv, receiverVars, handshakeVars
<1>1. ASSUME NEW c \in Conn, Offer(c)
      PROVE  BaseInv'
  BY <1>1, <1>a, OtherTypes DEF Offer, BaseInv
<1>2. CASE ReceiverStep /\ UNCHANGED senderVars
  BY <1>2, <1>a, FrameTypes, OtherTypes DEF ReceiverStep, BaseInv
<1>3. ASSUME NEW c \in Conn, SenderStep(c), UNCHANGED receiverVars
      PROVE  BaseInv'
  <2>1. WTypes' /\ STypes' /\ UNCHANGED recvEnd
    BY <1>3, SenderTypes DEF BaseInv
  <2> QED
    BY <1>3, <1>b, <1>c, <2>1 DEF BaseInv, RCore
<1>4. CASE UNCHANGED vars
  <2>1. WTypes'
    BY <1>4 DEF BaseInv, WTypes, WireTypeOK, FramesInv, vars, wireVars
  <2> QED
    BY <1>4, <1>a, <1>b, <1>c, <2>1 DEF vars, wireVars, BaseInv, RCore
<1> QED
  BY <1>1, <1>2, <1>3, <1>4 DEF Next

\* So it always holds.
LEMMA BaseInvariant == Spec => []BaseInv
BY BaseInit, BaseStep, PTL DEF Spec

\* Senders, receiver and what travels between them keep their types; in particular, the
\* counters of wrong PINs and of idle checks never exceed their limits, whichever
\* connection's handlers run (receiver.go, sender.go).
THEOREM RTCTypes == Spec => []TypeOK
<1>1. BaseInv => TypeOK
  BY DEF BaseInv, WTypes, STypes, TypeOK
<1> QED
  BY <1>1, BaseInvariant, PTL

-----------------------------------------------------------------------------
(* Every file is in one place.                                             *)

\* Headers tell files apart.
LEMMA HeaderOf ==
    ASSUME NEW f, NEW g
    PROVE  /\ Header(f) = Header(g) <=> f = g
           /\ Header(f) # Delimiter /\ \A h : Header(f) # Chunk(h)
<1>1. Header(f).t = "header" /\ Header(f).file = f /\ Header(g).file = g /\ Delimiter.t = "0"
      /\ \A h : Chunk(h).t = "chunk"
  BY DEF Header, Delimiter, Chunk
<1> QED
  BY <1>1

\* A file moves on from the queue to its header, to the receiver, and out, or stays.
LEMMA PlaceMoves ==
    ASSUME NEW f \in File, PlaceOf(f), Unique(f)',
           Early(f)' => Early(f),
           f \in todo'[ConnOf[f]] => f \in todo[ConnOf[f]] \/ (Early(f) /\ ~Early(f)'),
           Announced(f)' => Announced(f) \/ (f \in todo[ConnOf[f]] /\ f \notin todo'[ConnOf[f]]),
           currentFileID' = f => currentFileID = f \/ (Announced(f) /\ ~Announced(f)'),
           Settled(f)' => Settled(f) \/ (currentFileID = f /\ currentFileID' # f)
    PROVE  PlaceOf(f)'
BY DEF PlaceOf

\* Nothing happens to a file's header while its connection's queue stays.
LEMMA SameQueue ==
    ASSUME NEW f \in File, toRecv'[ConnOf[f]] = toRecv[ConnOf[f]]
    PROVE  (Unique(f) => Unique(f)') /\ (Announced(f)' <=> Announced(f))
BY DEF Unique, Announced

\* The receiver takes a frame: a header under way is gone once it is taken.
LEMMA AfterTake ==
    ASSUME ToRecvOK, NEW c \in Conn, toRecv[c] # <<>>, toRecv' = [toRecv EXCEPT ![c] = Tail(@)],
           NEW f \in File, Unique(f)
    PROVE  /\ Unique(f)' /\ (Announced(f)' => Announced(f))
           /\ Frame(c) = Header(f) /\ ConnOf[f] = c => Announced(f) /\ ~Announced(f)'
<1>1. CASE ConnOf[f] # c
  BY <1>1, SameQueue, WireAssumption DEF ToRecvOK
<1>2. CASE ConnOf[f] = c
  <2>1. toRecv[c] \in Seq(From(c)) /\ toRecv'[c] = Tail(toRecv[c])
    BY DEF ToRecvOK, FramesInv
  <2>2. /\ Head(toRecv[c]) = toRecv[c][1] /\ Len(toRecv[c]) \in Nat \ {0}
        /\ Len(Tail(toRecv[c])) = Len(toRecv[c]) - 1
        /\ \A i \in 1 .. Len(Tail(toRecv[c])) :
              i + 1 \in 1 .. Len(toRecv[c]) /\ Tail(toRecv[c])[i] = toRecv[c][i + 1]
    BY <2>1, TailAt
  <2>3. Announced(f)' => Announced(f)
    BY <1>2, <2>1, <2>2 DEF Announced
  <2>4. Unique(f)'
    <3>1. ASSUME NEW i \in 1 .. Len(toRecv'[c]), NEW j \in 1 .. Len(toRecv'[c]),
                 toRecv'[c][i] = Header(f), toRecv'[c][j] = Header(f)
          PROVE  i = j
      <4>1. /\ i + 1 \in 1 .. Len(toRecv[c]) /\ j + 1 \in 1 .. Len(toRecv[c])
            /\ toRecv[c][i + 1] = Header(f) /\ toRecv[c][j + 1] = Header(f)
        BY <2>1, <2>2, <3>1
      <4>2. i + 1 = j + 1
        BY <1>2, <4>1 DEF Unique
      <4> QED
        BY <4>2
    <3> QED
      BY <1>2, <3>1 DEF Unique
  <2>5. ASSUME Frame(c) = Header(f)
        PROVE  Announced(f) /\ ~Announced(f)'
    <3>1. 1 \in 1 .. Len(toRecv[c]) /\ toRecv[c][1] = Header(f)
      BY <2>2, <2>5 DEF Frame
    <3>2. ASSUME NEW i \in 1 .. Len(toRecv'[c]), toRecv'[c][i] = Header(f)
          PROVE  FALSE
      <4>1. i + 1 \in 1 .. Len(toRecv[c]) /\ toRecv[c][i + 1] = Header(f)
        BY <2>1, <2>2, <3>2
      <4>2. i + 1 = 1
        BY <1>2, <3>1, <4>1 DEF Unique
      <4> QED
        BY <4>2
    <3> QED
      BY <1>2, <3>1, <3>2 DEF Announced
  <2> QED
    BY <2>3, <2>4, <2>5
<1> QED
  BY <1>1, <1>2

\* A sender sends frames, at most one of them the header of f, and that for the first time.
LEMMA AfterPut ==
    ASSUME ToRecvOK, NEW c \in Conn, NEW ms \in Seq(From(c)), SendFrames(c, ms),
           NEW f \in File, Unique(f), NEW new \in BOOLEAN,
           \A i \in 1 .. Len(ms) : ms[i] = Header(f) => new /\ Len(ms) = 1,
           new => ~Announced(f)
    PROVE  Unique(f)' /\ (Announced(f)' => Announced(f) \/ new)
<1>1. CASE toRecv'[ConnOf[f]] = toRecv[ConnOf[f]]
  BY <1>1, SameQueue
<1>2. CASE ConnOf[f] = c /\ toRecv'[c] = toRecv[c] \o ms
  <2>1. toRecv[c] \in Seq(From(c))
    BY DEF ToRecvOK, FramesInv
  <2>2. /\ Len(toRecv[c]) \in Nat /\ Len(ms) \in Nat
        /\ Len(toRecv[c] \o ms) = Len(toRecv[c]) + Len(ms)
        /\ \A i \in 1 .. Len(toRecv[c]) : (toRecv[c] \o ms)[i] = toRecv[c][i]
        /\ \A i \in 1 .. Len(toRecv[c] \o ms) :
              \/ i \in 1 .. Len(toRecv[c])
              \/ /\ i - Len(toRecv[c]) \in 1 .. Len(ms)
                 /\ (toRecv[c] \o ms)[i] = ms[i - Len(toRecv[c])]
    BY <2>1, ConcatAt
  <2>3. ASSUME NEW i \in 1 .. Len(toRecv'[c]), toRecv'[c][i] = Header(f)
        PROVE  \/ i \in 1 .. Len(toRecv[c]) /\ toRecv[c][i] = Header(f)
               \/ new /\ i = Len(toRecv[c]) + 1
    BY <1>2, <2>2, <2>3
  <2>4. Announced(f)' => Announced(f) \/ new
    BY <1>2, <2>3 DEF Announced
  <2>5. ASSUME NEW i \in 1 .. Len(toRecv'[c]), NEW j \in 1 .. Len(toRecv'[c]),
               toRecv'[c][i] = Header(f), toRecv'[c][j] = Header(f)
        PROVE  i = j
    <3>1. CASE new
      BY <1>2, <2>3, <2>5, <3>1 DEF Announced
    <3>2. CASE ~new
      BY <1>2, <2>3, <2>5, <3>2 DEF Unique
    <3> QED
      BY <3>1, <3>2
  <2> QED
    BY <1>2, <2>4, <2>5 DEF Unique
<1> QED
  BY <1>1, <1>2, WireAssumption DEF SendFrames, ToRecvOK

\* What the senders do to the places of files.
LEMMA SenderPlaces ==
    ASSUME BaseInv, PlaceInv, NEW c \in Conn, SenderStep(c), UNCHANGED receiverVars
    PROVE  PlaceInv'
<1> USE WireAssumption DEF queueVars, wireVars, senderVars, receiverVars
<1>a. ToRecvOK /\ STypes /\ SenderTypeOK /\ QueueInv
  BY DEF BaseInv, WTypes, WireTypeOK, ToRecvOK, STypes
<1>b. ASSUME NEW f \in File, Unique(f)', Announced(f)' => Announced(f), Early(f)' => Early(f),
             todo'[ConnOf[f]] = todo[ConnOf[f]]
      PROVE  PlaceOf(f)'
  BY <1>b, PlaceMoves DEF PlaceInv, Settled, writeVars
<1>c. \A f \in File : Unique(f) /\ PlaceOf(f) /\ ConnOf[f] \in Conn
  BY DEF PlaceInv, PlaceOf
<1>d. ASSUME NEW ms \in Seq(From(c)), SendFrames(c, ms), \A i \in 1 .. Len(ms) : ms[i].t # "header",
             UNCHANGED todo, \A d \in Conn : main'[d] \in {"waitAnswer", "waitAccept"} =>
                                             main[d] \in {"waitAnswer", "waitAccept"}
      PROVE  PlaceInv'
  <2>1. ASSUME NEW f \in File
        PROVE  Unique(f)' /\ (Announced(f)' => Announced(f))
    <3>1. \A i \in 1 .. Len(ms) : ms[i] # Header(f)
      BY <1>d DEF Header
    <3> QED
      BY <1>a, <1>c, <1>d, <3>1, AfterPut
  <2> QED
    BY <1>b, <1>c, <1>d, <2>1 DEF PlaceInv, Early
<1>e. ASSUME UNCHANGED <<toRecv, todo>>, \A d \in Conn : main'[d] \in {"waitAnswer", "waitAccept"} =>
                                             main[d] \in {"waitAnswer", "waitAccept"}
      PROVE  PlaceInv'
  BY <1>b, <1>c, <1>e, SameQueue DEF PlaceInv, Early
<1>f. ASSUME NEW g \in todo[c], SendFrames(c, <<Header(g)>>), todo' = [todo EXCEPT ![c] = @ \ {g}],
             \A d \in Conn : main'[d] \in {"waitAnswer", "waitAccept"} =>
                             main[d] \in {"waitAnswer", "waitAccept"}
      PROVE  PlaceInv'
  <2>1. g \in FilesOf(c) /\ g \in File /\ ConnOf[g] = c
    BY <1>a DEF QueueInv, FilesOf
  <2>2. <<Header(g)>> \in Seq(From(c))
    BY <2>1, Sendable
  <2>3. ~Announced(g)
    BY <1>c, <2>1 DEF PlaceOf
  <2>4. ASSUME NEW f \in File
        PROVE  PlaceOf(f)'
    <3>1. Unique(f)' /\ (Announced(f)' => Announced(f) \/ f = g)
      <4>1. (f = g) \in BOOLEAN
        OBVIOUS
      <4>2. \A i \in 1 .. Len(<<Header(g)>>) : <<Header(g)>>[i] = Header(f) => f = g /\ Len(<<Header(g)>>) = 1
        BY HeaderOf
      <4> QED
        BY <1>a, <1>c, <1>f, <2>2, <2>3, <4>1, <4>2, AfterPut
    <3>2. f \in todo'[ConnOf[f]] => f \in todo[ConnOf[f]] /\ f # g
      BY <1>a, <1>c, <1>f, <2>1 DEF SenderTypeOK
    <3>3. f = g => f \in todo[ConnOf[f]]
      BY <2>1
    <3>4. Early(f)' => Early(f)
      BY <1>c, <1>f DEF Early
    <3> QED
      BY <1>c, <3>1, <3>2, <3>3, <3>4, PlaceMoves DEF Settled, writeVars
  <2> QED
    BY <2>4 DEF PlaceInv
<1>g. /\ NonceMsg(c).t # "header" /\ Delimiter.t # "header" /\ ListMsg(FilesOf(c)).t # "header"
      /\ \A d : TokenMsg(PeerOf[c], <<c, d>>).t # "header"
      /\ \A st, p : PairMsg(st, p).t # "header"
  BY DEF NonceMsg, Delimiter, ListMsg, TokenMsg, PairMsg
<1>1. CASE AnswerArrives(c)
  <2>1. \A i \in 1 .. Len(<<NonceMsg(c)>>) : <<NonceMsg(c)>>[i].t # "header"
    BY <1>g
  <2> QED
    BY <1>1, <1>a, <1>d, <2>1, Sendable DEF AnswerArrives, Goto, SenderTypeOK
<1>2. CASE TakeAccepted(c)
  <2>1. ASSUME NEW f \in File
        PROVE  PlaceOf(f)'
    <3>1. CASE ConnOf[f] = c
      BY <1>2, <1>a, <1>c, <3>1, SameQueue, PlaceMoves
      DEF TakeAccepted, Goto, SenderTypeOK, Early, Settled, writeVars
    <3>2. CASE ConnOf[f] # c
      BY <1>2, <1>a, <1>b, <1>c, <3>2, SameQueue DEF TakeAccepted, Goto, SenderTypeOK, Early
    <3> QED
      BY <3>1, <3>2
  <2> QED
    BY <2>1 DEF PlaceInv
<1>3. CASE GiveUp(c) \/ TakeResult(c) \/ Flush(c)
  <2>1. UNCHANGED <<toRecv, todo>> /\ \E m \in {"failed", "flush", "data", "success"} : main' = [main EXCEPT ![c] = m]
    BY <1>3 DEF GiveUp, TakeResult, Flush, Goto
  <2> QED
    BY <1>a, <1>e, <2>1 DEF SenderTypeOK
<1>4. CASE StartQueue(c)
  <2>1. CASE todo[c] = {}
    <3>1. \A i \in 1 .. Len(<<Delimiter>>) : <<Delimiter>>[i].t # "header"
      BY <1>g
    <3> QED
      BY <1>4, <1>a, <1>d, <2>1, <3>1, Sendable DEF StartQueue, Goto, SenderTypeOK
  <2>2. CASE todo[c] # {}
    BY <1>4, <1>a, <1>f, <2>2 DEF StartQueue, Goto, SenderTypeOK
  <2> QED
    BY <2>1, <2>2
<1>5. CASE SendChunk(c)
  <2>0. Chunk(sending[c]).t # "header"
    BY DEF Chunk
  <2>1. \A i \in 1 .. Len(<<Chunk(sending[c])>>) : <<Chunk(sending[c])>>[i].t # "header"
    BY <2>0
  <2>2. sending[c] \in FilesOf(c)
    BY <1>5, <1>a DEF SendChunk, QueueInv
  <2> QED
    BY <1>5, <1>d, <2>1, <2>2, Sendable DEF SendChunk
<1>6. CASE EndFile(c)
  <2>1. CASE todo[c] = {}
    <3>1. \A i \in 1 .. Len(<<Delimiter>>) : <<Delimiter>>[i].t # "header"
      BY <1>g
    <3> QED
      BY <1>6, <1>a, <1>d, <2>1, <3>1, Sendable DEF EndFile, Goto, SenderTypeOK
  <2>2. CASE todo[c] # {}
    BY <1>6, <1>a, <1>f, <2>2 DEF EndFile, Goto, SenderTypeOK
  <2> QED
    BY <2>1, <2>2
<1>7. CASE \/ CloseSender(c) \/ SenderPeerClosed(c) \/ SCollectControl(c) \/ SIgnoreFrame(c)
           \/ HandleFileResponse(c) \/ Refused(c) \/ FilesAccepted(c)
  <2>1. UNCHANGED <<toRecv, todo, main>>
    BY <1>7 DEF CloseSender, SenderPeerClosed, SCollectControl, SIgnoreFrame, HandleFileResponse, Refused,
       FilesAccepted
  <2> QED
    BY <1>e, <2>1
<1>8. CASE HandleNonceResponse(c) \/ HandleTokenResponse(c) \/ PairRequested(c)
  <2>1. UNCHANGED <<todo, main>>
    BY <1>8 DEF HandleNonceResponse, HandleTokenResponse, PairRequested
  <2>2. \E ms \in Seq(From(c)) : SendFrames(c, ms) /\ \A i \in 1 .. Len(ms) : ms[i].t # "header"
    <3>1. SControlMessage(c) => ReplyFields(SMessage(c))
      BY TakeMessage DEF BaseInv, WTypes, WireTypeOK, STypes, ToSendOK
    <3>2. CASE HandleNonceResponse(c)
      <4>1. SMessage(c).by \in Conn
        BY <3>1, <3>2 DEF HandleNonceResponse, ReplyFields
      <4> DEFINE ms == <<TokenMsg(PeerOf[c], <<c, SMessage(c).by>>)>>
      <4>2. ms \in Seq(From(c)) /\ \A i \in 1 .. Len(ms) : ms[i].t # "header"
        BY <1>g, <4>1, Sendable
      <4>3. SendFrames(c, ms)
        BY <3>2 DEF HandleNonceResponse
      <4> QED
        BY <4>2, <4>3
    <3>3. CASE HandleTokenResponse(c) /\ SMessage(c).st = "PIN_REQUIRED"
      <4>1. PICK ok \in {FALSE, (c \in KnowsPin)} : SendFrames(c, <<PinMsg(ok)>>)
        BY <3>3 DEF HandleTokenResponse
      <4>2. (c \in KnowsPin) \in BOOLEAN
        OBVIOUS
      <4>3. ok \in BOOLEAN
        BY <4>1, <4>2, Zenon
      <4>4. <<PinMsg(ok)>> \in Seq(From(c)) /\ PinMsg(ok).t # "header"
        BY <4>3, Sendable DEF PinMsg
      <4>5. \A i \in 1 .. Len(<<PinMsg(ok)>>) : <<PinMsg(ok)>>[i].t # "header"
        BY <4>4
      <4> QED
        BY <4>1, <4>4, <4>5
    <3>4. CASE HandleTokenResponse(c) /\ SMessage(c).st # "PIN_REQUIRED"
      <4> DEFINE ms == <<ListMsg(FilesOf(c)), Delimiter>>
      <4>1. ms \in Seq(From(c)) /\ \A i \in 1 .. Len(ms) : ms[i].t # "header"
        BY <1>g, Sendable
      <4>2. SendFrames(c, ms)
        BY <3>4 DEF HandleTokenResponse
      <4> QED
        BY <4>1, <4>2
    <3>5. CASE PairRequested(c)
      <4>1. PICK m \in {PairMsg("OK", PeerOf[c]), PairMsg("OK", None), PairMsg("PAIR_DECLINED", None),
                        PairMsg("INVALID_SIGNATURE", None)} : SendFrames(c, <<m>>)
        BY <3>5 DEF PairRequested
      <4>2. <<m>> \in Seq(From(c)) /\ m.t # "header"
        BY <1>g, <4>1, Sendable
      <4>3. \A i \in 1 .. Len(<<m>>) : <<m>>[i].t # "header"
        BY <4>2
      <4> QED
        BY <4>1, <4>2, <4>3
    <3> QED
      BY <1>8, <3>2, <3>3, <3>4, <3>5
  <2> QED
    BY <1>d, <2>1, <2>2
<1> QED
  BY <1>1, <1>2, <1>3, <1>4, <1>5, <1>6, <1>7, <1>8 DEF SenderStep, MainStep, HandlerStep

\* What the receiver does to them.
LEMMA ReceiverPlaces ==
    ASSUME BaseInv, PlaceInv, ReceiverStep \/ \E c \in Conn : ReserveSession(c), UNCHANGED senderVars
    PROVE  PlaceInv'
<1> USE WireAssumption
    DEF handshakeVars, listVars, writeVars, watchVars, storeVars, wireVars, receiverVars
<1>a. /\ ToRecvOK /\ WTypes /\ ReceiverTypeOK /\ RCore /\ UNCHANGED <<main, todo>>
      /\ \A f \in File : Unique(f) /\ PlaceOf(f) /\ ConnOf[f] \in Conn
  BY DEF BaseInv, WTypes, WireTypeOK, ToRecvOK, PlaceInv, PlaceOf, senderVars, queueVars
<1>b. ASSUME NEW f \in File, Unique(f)', Announced(f)' => Announced(f),
             currentFileID' = f => currentFileID = f \/ (Announced(f) /\ ~Announced(f)'),
             Settled(f)' => Settled(f) \/ (currentFileID = f /\ currentFileID' # f)
      PROVE  PlaceOf(f)'
  BY <1>a, <1>b, PlaceMoves DEF Early
<1>c. ASSUME NEW c \in Conn, Incoming(c), NEW f \in File
      PROVE  /\ Unique(f)' /\ (Announced(f)' => Announced(f))
             /\ Frame(c) = Header(f) /\ ConnOf[f] = c => Announced(f) /\ ~Announced(f)'
  BY <1>a, <1>c, AfterTake DEF Incoming
<1>d. ASSUME NEW c \in Conn, Incoming(c) \/ UNCHANGED toRecv, UNCHANGED <<saved, refused>>,
             currentFileID' \in {currentFileID, None}
      PROVE  PlaceInv'
  <2>1. ASSUME NEW f \in File
        PROVE  PlaceOf(f)'
    <3>1. Unique(f)' /\ (Announced(f)' => Announced(f))
      BY <1>a, <1>c, <1>d, SameQueue
    <3> QED
      BY <1>b, <1>d, <3>1 DEF Settled
  <2> QED
    BY <2>1 DEF PlaceInv
<1>e. \A c \in Conn : ControlMessage(c) => Incoming(c) /\ MessageIs(c)
  BY <1>a, IncomingFrame, MessageFields DEF ControlMessage
<1>1. ASSUME NEW c \in Conn, \/ HandleNonce(c) \/ HandleToken(c) \/ PinCorrect(c) \/ PinWrong(c)
                             \/ HandleFileList(c) \/ TooManyFiles(c) \/ EmptyList(c)
                             \/ PairAccepted(c) \/ PairUnverified(c) \/ PairDeclined(c) \/ PairFailed(c) \/ RejectHeader(c)
      PROVE  PlaceInv'
  <2>1. Incoming(c) /\ UNCHANGED <<saved, refused>> /\ currentFileID' \in {currentFileID, None}
    BY <1>1 DEF HandleNonce, HandleToken, PinCorrect, PinWrong, HandleFileList, TooManyFiles, EmptyList,
       PairAccepted, PairUnverified, PairDeclined, PairFailed, RejectHeader, RejectFileTransfer, Terminate, CleanupPartialFiles, Handle,
       ControlMessage
  <2> QED
    BY <1>d, <2>1
<1>2. ASSUME NEW c \in Conn, \/ HandleBinaryData(c) \/ TooMuchData(c) \/ RejectGarbage(c)
                             \/ WriteGarbage(c) \/ CollectControl(c) \/ IgnoreFrame(c)
      PROVE  PlaceInv'
  <2>1. Incoming(c) /\ UNCHANGED <<saved, refused>> /\ currentFileID' \in {currentFileID, None}
    BY <1>2 DEF HandleBinaryData, TooMuchData, RejectGarbage, WriteGarbage, CollectControl, IgnoreFrame,
       GarbageAsData, RejectData, RejectFileTransfer, ControlMessage
  <2> QED
    BY <1>d, <2>1
<1>3. ASSUME NEW c \in Conn, HandleFileHeader(c)
      PROVE  PlaceInv'
  <2>1. Incoming(c) /\ MessageIs(c) /\ Message(c).t = "header"
    BY <1>3, <1>e DEF HandleFileHeader, Handle
  <2>2. PICK g \in FilesOf(c) : Frame(c) = Header(g) /\ currentFileID' = g
    BY <1>3, <2>1 DEF MessageIs, HandleFileHeader, StartReceivingFile
  <2>3. ASSUME NEW f \in File
        PROVE  PlaceOf(f)'
    BY <1>3, <1>b, <1>c, <2>1, <2>2, OwnFiles DEF HandleFileHeader, Settled
  <2> QED
    BY <2>3 DEF PlaceInv
<1>4. ASSUME NEW c \in Conn, FinishCurrentFile(c), currentFileID' = None \/ FinishThenNext(c)
      PROVE  PlaceInv'
  <2>1. Incoming(c) /\ currentFileID \in File
    BY <1>4, <1>a DEF FinishCurrentFile, Receiving, ReceiverTypeOK
  <2>2. saved' \cup refused' = saved \cup refused \cup {currentFileID}
    BY <1>4 DEF FinishCurrentFile
  <2>3. currentFileID' = None \/ \E g \in FilesOf(c) : Frame(c) = Header(g) /\ currentFileID' = g
    <3>1. FieldsOf(Frame(c), c)
      BY <1>a, <2>1, IncomingFrame
    <3> QED
      BY <1>4, <3>1 DEF FinishThenNext, StartReceivingFile, FieldsOf
  <2>4. currentFileID' # currentFileID
    <3>1. ASSUME NEW g \in FilesOf(c), Frame(c) = Header(g)
          PROVE  currentFileID # g
      BY <1>a, <1>c, <2>1, <3>1, OwnFiles DEF PlaceOf
    <3> QED
      BY <2>1, <2>3, <3>1
  <2>5. ASSUME NEW f \in File
        PROVE  PlaceOf(f)'
    <3>1. Settled(f)' => Settled(f) \/ (currentFileID = f /\ currentFileID' # f)
      BY <2>2, <2>4 DEF Settled
    <3>2. currentFileID' = f => Announced(f) /\ ~Announced(f)'
      BY <1>c, <2>1, <2>3, OwnFiles
    <3> QED
      BY <1>b, <1>c, <2>1, <3>1, <3>2
  <2> QED
    BY <2>5 DEF PlaceInv
<1>5. ASSUME NEW c \in Conn, FinishLast(c) \/ FinishThenNext(c) \/ FinishThenReject(c) \/ FinishThenStop(c)
      PROVE  PlaceInv'
  BY <1>4, <1>5 DEF FinishLast, FinishThenNext, FinishThenReject, FinishThenStop, RejectFileTransfer, Terminate,
     CleanupPartialFiles
<1>6. ASSUME NEW c \in Conn, \/ ReserveSession(c) \/ FailAccept(c) \/ InstallPeer(c) \/ SelectFiles(c)
                             \/ HandlePeerClosed(c)
      PROVE  PlaceInv'
  <2>1. UNCHANGED <<toRecv, saved, refused>> /\ currentFileID' \in {currentFileID, None}
    BY <1>6 DEF ReserveSession, FailAccept, InstallPeer, SelectFiles, HandlePeerClosed, Terminate,
       CleanupPartialFiles
  <2> QED
    BY <1>d, <2>1
<1>7. ASSUME NEW c \in Conn, CloseRecvEnd(c)
      PROVE  PlaceInv'
  <2>1. /\ toRecv' = [toRecv EXCEPT ![c] = <<>>] /\ UNCHANGED <<saved, refused, currentFileID>>
        /\ toRecv \in [Conn -> Seq(ToRecvFrame)]
    BY <1>7, <1>a DEF CloseRecvEnd, ToRecvOK
  <2>2. ASSUME NEW f \in File
        PROVE  Unique(f)' /\ (Announced(f)' => Announced(f))
    <3>1. CASE ConnOf[f] = c
      <4>1. Len(toRecv'[ConnOf[f]]) = 0
        BY <2>1, <3>1
      <4>2. 1 .. Len(toRecv'[ConnOf[f]]) = {}
        BY <4>1
      <4> QED
        BY <4>2 DEF Unique, Announced
    <3>2. CASE ConnOf[f] # c
      BY <1>a, <2>1, <3>2, SameQueue
    <3> QED
      BY <3>1, <3>2
  <2> QED
    BY <1>b, <2>1, <2>2 DEF PlaceInv, Settled
<1>8. CASE \/ CloseReceiver \/ \E f \in File : StaleWatchdog(f) \/ CheckTransferWatchdog(f)
           \/ \E p \in Peer : BlockExpires(p)
  <2>1. UNCHANGED <<toRecv, saved, refused>> /\ currentFileID' \in {currentFileID, None}
    BY <1>8 DEF CloseReceiver, StaleWatchdog, CheckTransferWatchdog, BlockExpires, Terminate, CleanupPartialFiles
  <2>2. ASSUME NEW f \in File
        PROVE  PlaceOf(f)'
    BY <1>a, <1>b, <2>1, SameQueue DEF Settled
  <2> QED
    BY <2>2 DEF PlaceInv
<1> QED
  BY <1>1, <1>2, <1>3, <1>5, <1>6, <1>7, <1>8 DEF ReceiverStep, HandleFrame

-----------------------------------------------------------------------------
(* Acknowledgements.                                                       *)

\* A queue of true acknowledgements, one of them taken, or with more true ones.
LEMMA QueueOfAcks ==
    ASSUME NEW S, NEW q \in Seq(S), AllTrue(q)
    PROVE  /\ q # <<>> => AllTrue(Tail(q)) /\ TrueAck(Head(q))
           /\ \A ms \in Seq(S) : AllTrue(ms) => AllTrue(q \o ms)
           /\ AllTrue(<<>>)
<1>1. ASSUME q # <<>> PROVE AllTrue(Tail(q)) /\ TrueAck(Head(q))
  <2>1. /\ Head(q) = q[1] /\ Len(q) \in Nat \ {0}
        /\ \A i \in 1 .. Len(Tail(q)) : i + 1 \in 1 .. Len(q) /\ Tail(q)[i] = q[i + 1]
    BY <1>1, TailAt
  <2> QED
    BY <2>1 DEF AllTrue
<1>2. ASSUME NEW ms \in Seq(S), AllTrue(ms) PROVE AllTrue(q \o ms)
  <2>1. ASSUME NEW i \in 1 .. Len(q \o ms)
        PROVE  TrueAck((q \o ms)[i])
    BY <1>2, <2>1, ConcatAt DEF AllTrue
  <2> QED
    BY <2>1 DEF AllTrue
<1> QED
  BY <1>1, <1>2 DEF AllTrue

\* A sender takes acknowledgements and makes none.
LEMMA SenderAcks ==
    ASSUME BaseInv, AckInv, NEW c \in Conn, SenderStep(c), UNCHANGED receiverVars
    PROVE  AckInv'
<1> USE DEF queueVars, wireVars, senderVars
<1>a. ToSendOK /\ PlacesTyped /\ UNCHANGED saved
  BY DEF BaseInv, WTypes, WireTypeOK, ToSendOK, STypes, receiverVars
<1>b. ASSUME NEW q, AllTrue(q)
      PROVE  AllTrue(q)'
  BY <1>a, <1>b DEF AllTrue, TrueAck
<1>c. ASSUME NEW d \in Conn, toSend'[d] = toSend[d], resultCh'[d] \in {resultCh[d], None}
      PROVE  AllTrue(toSend[d])' /\ (resultCh'[d] # None => TrueAck(resultCh[d])')
  BY <1>a, <1>c DEF AckInv, AllTrue, TrueAck
<1>d. ASSUME SIncoming(c)
      PROVE  /\ AllTrue(toSend[c])' /\ TrueAck(SFrame(c)) /\ SFrame(c) \in ToSendFrame
             /\ \A d \in Conn \ {c} : toSend'[d] = toSend[d]
  <2>1. toSend[c] \in Seq(ToSendFrame) /\ toSend[c] # <<>> /\ AllTrue(toSend[c])
        /\ toSend' = [toSend EXCEPT ![c] = Tail(@)]
    BY <1>a, <1>d DEF ToSendOK, SIncoming, AckInv
  <2>2. AllTrue(Tail(toSend[c])) /\ TrueAck(Head(toSend[c])) /\ Head(toSend[c]) \in ToSendFrame
    BY <2>1, QueueOfAcks, TailAt
  <2>3. toSend'[c] = Tail(toSend[c])
    BY <1>a, <2>1 DEF ToSendOK
  <2>4. AllTrue(toSend[c])'
    BY <1>a, <2>2, <2>3 DEF AllTrue, TrueAck
  <2> QED
    BY <1>a, <2>1, <2>2, <2>4 DEF SFrame, ToSendOK
<1>1. CASE \/ AnswerArrives(c) \/ TakeAccepted(c) \/ StartQueue(c) \/ SendChunk(c) \/ EndFile(c)
           \/ Flush(c) \/ GiveUp(c)
  <2>1. UNCHANGED <<toSend, resultCh>>
    BY <1>1 DEF AnswerArrives, TakeAccepted, StartQueue, SendChunk, EndFile, Flush, GiveUp
  <2> QED
    BY <1>c, <2>1 DEF AckInv
<1>2. CASE TakeResult(c)
  <2>1. UNCHANGED toSend /\ resultCh' = [resultCh EXCEPT ![c] = None]
    BY <1>2 DEF TakeResult
  <2> QED
    BY <1>a, <1>c, <2>1 DEF AckInv, PlacesTyped
<1>3. CASE CloseSender(c) \/ SenderPeerClosed(c)
  <2>1. toSend' = [toSend EXCEPT ![c] = <<>>] /\ UNCHANGED resultCh
    BY <1>3 DEF CloseSender, SenderPeerClosed
  <2>2. toSend'[c] = <<>> /\ \A d \in Conn \ {c} : toSend'[d] = toSend[d]
    BY <1>a, <2>1 DEF ToSendOK
  <2>3. AllTrue(toSend[c])'
    BY <2>2 DEF AllTrue
  <2>4. resultCh'[c] # None => TrueAck(resultCh[c])'
    BY <1>a, <2>1 DEF AckInv, TrueAck
  <2> QED
    BY <1>c, <2>1, <2>2, <2>3, <2>4 DEF AckInv
<1>4. CASE HandleFileResponse(c)
  <2>1. SIncoming(c) /\ SMessage(c).t = "resp" /\ SMessage(c) # None
    BY <1>4 DEF HandleFileResponse, SControlMessage
  <2>2. SMessage(c) = SFrame(c)
    BY <1>a, <2>1 DEF SMessage, PlacesTyped, Binary
  <2>3. resultCh'[c] \in {resultCh[c], SFrame(c)} /\ \A d \in Conn \ {c} : resultCh'[d] = resultCh[d]
    BY <1>4, <1>a, <2>2 DEF HandleFileResponse, PlacesTyped
  <2>4. resultCh'[c] # None => TrueAck(resultCh[c])'
    BY <1>a, <1>d, <2>1, <2>3 DEF AckInv, TrueAck
  <2> QED
    BY <1>c, <1>d, <2>1, <2>3, <2>4 DEF AckInv
<1>5. CASE \/ SCollectControl(c) \/ HandleNonceResponse(c) \/ Refused(c) \/ HandleTokenResponse(c)
           \/ FilesAccepted(c) \/ PairRequested(c) \/ SIgnoreFrame(c)
  <2>1. SIncoming(c) /\ UNCHANGED resultCh
    BY <1>5 DEF SCollectControl, HandleNonceResponse, Refused, HandleTokenResponse, FilesAccepted,
       PairRequested, SIgnoreFrame, SControlMessage
  <2>2. resultCh'[c] # None => TrueAck(resultCh[c])'
    BY <1>a, <2>1 DEF AckInv, TrueAck
  <2> QED
    BY <1>c, <1>d, <2>1, <2>2 DEF AckInv
<1> QED
  BY <1>1, <1>2, <1>3, <1>4, <1>5 DEF SenderStep, MainStep, HandlerStep

\* The receiver says that it has saved a file when it has.
LEMMA ReceiverAcks ==
    ASSUME BaseInv, AckInv, ReceiverStep \/ \E c \in Conn : ReserveSession(c), UNCHANGED senderVars
    PROVE  AckInv'
<1> USE WireAssumption, ReceiverAssumption
    DEF handshakeVars, listVars, writeVars, watchVars, storeVars, wireVars, receiverVars
<1>a. /\ ToSendOK /\ UNCHANGED resultCh /\ WTypes /\ ReceiverTypeOK /\ RCore
      /\ peer \in Conn \cup {None}
  BY DEF BaseInv, WTypes, WireTypeOK, ToSendOK, senderVars, ReceiverTypeOK
<1>b. ASSUME saved \subseteq saved', NEW ms \in Seq(ToSendFrame), Reply(ms) \/ UNCHANGED toSend,
             \A i \in 1 .. Len(ms) : ms[i].t = "resp" /\ ms[i].ok => ms[i].file \in saved'
      PROVE  AckInv'
  <2>1. ASSUME NEW d \in Conn
        PROVE  AllTrue(toSend[d])'
    <3>1. \A i \in 1 .. Len(toSend[d]) : TrueAck(toSend[d][i])
      BY DEF AckInv, AllTrue
    <3>2. CASE toSend'[d] = toSend[d]
      BY <1>b, <3>1, <3>2 DEF AllTrue, TrueAck
    <3>3. CASE toSend'[d] = toSend[d] \o ms
      <4>1. /\ toSend[d] \in Seq(ToSendFrame)
            /\ \A i \in 1 .. Len(toSend[d]) : (toSend[d] \o ms)[i] = toSend[d][i]
            /\ \A i \in 1 .. Len(toSend[d] \o ms) :
                  \/ i \in 1 .. Len(toSend[d])
                  \/ i - Len(toSend[d]) \in 1 .. Len(ms) /\ (toSend[d] \o ms)[i] = ms[i - Len(toSend[d])]
        BY <1>a, ConcatAt DEF ToSendOK
      <4>2. ASSUME NEW i \in 1 .. Len(toSend'[d]), toSend'[d][i].t = "resp", toSend'[d][i].ok
            PROVE  toSend'[d][i].file \in saved'
        BY <1>b, <3>1, <3>3, <4>1, <4>2 DEF TrueAck
      <4> QED
        BY <4>2 DEF AllTrue, TrueAck
    <3> QED
      BY <1>a, <1>b, <3>2, <3>3 DEF Reply, ToSendOK
  <2>2. ASSUME NEW d \in Conn, resultCh'[d] # None
        PROVE  TrueAck(resultCh[d])'
    BY <1>a, <1>b, <2>2 DEF AckInv, TrueAck
  <2> QED
    BY <2>1, <2>2 DEF AckInv
<1>c. ASSUME UNCHANGED <<toSend, saved>>
      PROVE  AckInv'
  <2>1. <<>> \in Seq(ToSendFrame) /\ \A i \in 1 .. Len(<<>>) : FALSE
    OBVIOUS
  <2> QED
    BY <1>b, <1>c, <2>1
<1>d. ASSUME UNCHANGED saved, NEW m \in ToSendFrame, NEW n \in ToSendFrame, m.t # "resp", n.t # "resp",
             Reply(<<m>>) \/ Reply(<<m, n>>)
      PROVE  AckInv'
  <2>1. <<m>> \in Seq(ToSendFrame) /\ \A i \in 1 .. Len(<<m>>) : <<m>>[i].t # "resp"
    BY <1>d
  <2>2. <<m, n>> \in Seq(ToSendFrame) /\ \A i \in 1 .. Len(<<m, n>>) : <<m, n>>[i].t # "resp"
    BY <1>d
  <2>3. CASE Reply(<<m>>)
    BY <1>b, <1>d, <2>1, <2>3
  <2>4. CASE Reply(<<m, n>>)
    BY <1>b, <1>d, <2>2, <2>4
  <2> QED
    BY <1>d, <2>3, <2>4
<1>e. /\ \A d \in Conn : NonceMsg(d) \in ToSendFrame /\ NonceMsg(d).t # "resp"
      /\ \A st \in {"OK", "PIN_REQUIRED", "TOO_MANY_ATTEMPTS"} : \A n \in Nonce \cup {None} :
            Status(st, n) \in ToSendFrame /\ Status(st, n).t # "resp"
      /\ \A st \in {"OK", "PAIR", "DECLINED"} : \A F \in SUBSET File :
            Answer(st, F) \in ToSendFrame /\ Answer(st, F).t # "resp"
      /\ Delimiter \in ToSendFrame /\ Delimiter.t # "resp"
  <2>1. /\ \A d : NonceMsg(d).t # "resp"
        /\ \A st, n : Status(st, n).t # "resp" /\ Answer(st, n).t # "resp"
        /\ Delimiter.t # "resp"
    BY DEF NonceMsg, Status, Answer, Delimiter
  <2> QED
    BY <2>1 DEF ToSendFrame
<1>1. ASSUME NEW c \in Conn, HandleNonce(c)
      PROVE  AckInv'
  <2>1. session \in Conn
    BY <1>1, <1>a, IncomingFrame DEF HandleNonce, Handle, ControlMessage
  <2> QED
    BY <1>1, <1>d, <1>e, <2>1 DEF HandleNonce
<1>2. ASSUME NEW c \in Conn, HandleToken(c) \/ PinCorrect(c) \/ PinWrong(c)
      PROVE  AckInv'
  <2>1. finalNonce \in Nonce \cup {None} /\ None \in Nonce \cup {None}
    BY <1>a DEF ReceiverTypeOK
  <2>2. UNCHANGED saved /\ \E st \in {"OK", "PIN_REQUIRED", "TOO_MANY_ATTEMPTS"} : \E n \in Nonce \cup {None} :
            Reply(<<Status(st, n)>>)
    BY <1>2, <2>1 DEF HandleToken, PinCorrect, PinWrong
  <2> QED
    BY <1>d, <1>e, <2>2
<1>3. ASSUME NEW c \in Conn, \/ TooManyFiles(c) \/ EmptyList(c) \/ PairAccepted(c) \/ PairUnverified(c)
                             \/ SelectFiles(c)
      PROVE  AckInv'
  <2>1. \A ids \in SUBSET File : PreparedFiles(ids) \in SUBSET File
    BY DEF PreparedFiles
  <2>2. FilesOf(c) \cap Allowed \in SUBSET File /\ acceptedIDs \in SUBSET File /\ {} \in SUBSET File
    BY <1>a DEF FilesOf, ReceiverTypeOK
  <2>3. UNCHANGED saved
    BY <1>3 DEF TooManyFiles, EmptyList, PairAccepted, PairUnverified, SelectFiles
  <2>4. \/ UNCHANGED toSend
        \/ \E st \in {"OK", "PAIR", "DECLINED"} : \E F \in SUBSET File : Reply(<<Answer(st, F), Delimiter>>)
    <3>1. CASE TooManyFiles(c) \/ EmptyList(c)
      BY <2>2, <3>1 DEF TooManyFiles, EmptyList
    <3>2. CASE PairAccepted(c) \/ PairUnverified(c)
      BY <2>1, <2>2, <3>2 DEF PairAccepted, PairUnverified, AcceptFiles
    <3>3. CASE SelectFiles(c)
      BY <2>1, <2>2, <3>3 DEF SelectFiles, AcceptFiles
    <3> QED
      BY <1>3, <3>1, <3>2, <3>3
  <2> QED
    BY <1>c, <1>d, <1>e, <2>3, <2>4
<1>4. ASSUME NEW c \in Conn, FinishLast(c) \/ FinishThenNext(c) \/ FinishThenReject(c) \/ FinishThenStop(c)
      PROVE  AckInv'
  <2>1. FinishCurrentFile(c)
    BY <1>4 DEF FinishLast, FinishThenNext, FinishThenReject, FinishThenStop
  <2>2. PICK flushed \in DiskOutcome :
            /\ Reply(Acknowledge(currentFileID, Success(flushed)))
            /\ saved' = IF Success(flushed) THEN saved \cup {currentFileID} ELSE saved
    BY <2>1 DEF FinishCurrentFile
  <2>3. Success(flushed) \in BOOLEAN /\ currentFileID \in File
    BY <1>a, <2>1, <2>2 DEF Success, DiskOutcome, FinishCurrentFile, Receiving, ReceiverTypeOK
  <2> DEFINE ok == Success(flushed)
             ms == Acknowledge(currentFileID, ok)
  <2>4. ms \in Seq(ToSendFrame) /\ Len(ms) = 1 /\ ms[1].ok = ok /\ ms[1].file = currentFileID
    BY <2>3, Replyable DEF Acknowledge, FileResponse
  <2>5. \A i \in 1 .. Len(ms) : ms[i].t = "resp" /\ ms[i].ok => ms[i].file \in saved'
    BY <2>2, <2>4
  <2> QED
    BY <1>b, <2>2, <2>4, <2>5
<1>5. ASSUME NEW c \in Conn, \/ HandleFileList(c) \/ PairDeclined(c) \/ PairFailed(c) \/ HandleFileHeader(c)
                             \/ RejectHeader(c) \/ HandleBinaryData(c) \/ TooMuchData(c)
                             \/ RejectGarbage(c) \/ WriteGarbage(c) \/ CollectControl(c)
                             \/ IgnoreFrame(c)
      PROVE  AckInv'
  BY <1>5, <1>c DEF HandleFileList, PairDeclined, PairFailed, HandleFileHeader, RejectHeader, HandleBinaryData,
     TooMuchData, RejectGarbage, WriteGarbage, GarbageAsData, CollectControl, IgnoreFrame
<1>6. ASSUME NEW c \in Conn, \/ ReserveSession(c) \/ FailAccept(c) \/ InstallPeer(c)
                             \/ HandlePeerClosed(c) \/ CloseRecvEnd(c)
      PROVE  AckInv'
  BY <1>6, <1>c DEF ReserveSession, FailAccept, InstallPeer, HandlePeerClosed, CloseRecvEnd
<1>7. CASE \/ CloseReceiver \/ \E f \in File : StaleWatchdog(f) \/ CheckTransferWatchdog(f)
           \/ \E p \in Peer : BlockExpires(p)
  BY <1>7, <1>c DEF CloseReceiver, StaleWatchdog, CheckTransferWatchdog, BlockExpires
<1> QED
  BY <1>1, <1>2, <1>3, <1>4, <1>5, <1>6, <1>7 DEF ReceiverStep, HandleFrame

-----------------------------------------------------------------------------
(* Delivery.                                                               *)

\* The invariant that the refinement needs.
XInv == BaseInv /\ PlaceInv /\ AckInv

\* It holds at the start.
LEMMA XInit == Init => XInv
<1> SUFFICES ASSUME Init PROVE XInv
  OBVIOUS
<1>1. BaseInv
  BY BaseInit
<1>2. PlaceInv
  <2>1. ASSUME NEW f \in File
        PROVE  PlaceOf(f)
    <3>1. ConnOf[f] \in Conn /\ f # None
      BY WireAssumption
    <3>2. Len(toRecv[ConnOf[f]]) = 0 /\ todo[ConnOf[f]] = {} /\ currentFileID = None /\ saved = {} /\ refused = {}
      BY <3>1 DEF Init, WireInit, SenderInit, ReceiverInit
    <3>3. 1 .. Len(toRecv[ConnOf[f]]) = {}
      BY <3>2
    <3> QED
      BY <3>1, <3>2, <3>3 DEF PlaceOf, Unique, Announced, Settled
  <2> QED
    BY <2>1 DEF PlaceInv
<1>3. AckInv
  BY DEF AckInv, AllTrue, Init, WireInit, SenderInit
<1> QED
  BY <1>1, <1>2, <1>3 DEF XInv

\* Every step keeps it.
LEMMA XStep == XInv /\ [Next]_vars => XInv'
<1> SUFFICES ASSUME XInv, [Next]_vars PROVE XInv'
  OBVIOUS
<1>0. BaseInv'
  BY BaseStep DEF XInv
<1>1. ASSUME NEW c \in Conn, Offer(c)
      PROVE  XInv'
  BY <1>0, <1>1, ReceiverPlaces, ReceiverAcks DEF XInv, Offer
<1>2. CASE ReceiverStep /\ UNCHANGED senderVars
  BY <1>0, <1>2, ReceiverPlaces, ReceiverAcks DEF XInv
<1>3. ASSUME NEW c \in Conn, SenderStep(c), UNCHANGED receiverVars
      PROVE  XInv'
  BY <1>0, <1>3, SenderPlaces, SenderAcks DEF XInv
<1>4. CASE UNCHANGED vars
  <2>1. PlaceInv'
    BY <1>4 DEF XInv, PlaceInv, PlaceOf, Early, Announced, Unique, Settled, vars, wireVars, receiverVars,
       writeVars, senderVars, queueVars
  <2>2. AckInv'
    BY <1>4 DEF XInv, AckInv, AllTrue, TrueAck, vars, wireVars, receiverVars, senderVars
  <2> QED
    BY <1>0, <2>1, <2>2 DEF XInv
<1> QED
  BY <1>1, <1>2, <1>3, <1>4 DEF Next

\* So it always holds.
LEMMA XInvariant == Spec => []XInv
BY XInit, XStep, PTL DEF Spec

\* Transfers over WebRTC implement Delivery, for any number of senders and even when the
\* handlers of a connection run after the receiver has dropped it: a file is saved or
\* refused at most once, a saved file stays saved, and a sender takes a file as delivered
\* only when the receiver has saved it (finishCurrentFile, SendFiles).
THEOREM RTCImplementsDelivery == Spec => RTCDelivery
<1>1. Init => D!Init
  BY DEF Init, ReceiverInit, SenderInit, D!Init
<1>2. XInv /\ [Next]_vars => [D!Next]_(D!deliveryVars)
  <2> SUFFICES ASSUME XInv, [Next]_vars
               PROVE  D!Next \/ UNCHANGED D!deliveryVars
    OBVIOUS
  <2> USE DEF handshakeVars, listVars, writeVars, watchVars, storeVars, wireVars, receiverVars, senderVars,
              queueVars, D!deliveryVars
  <2>1. ASSUME NEW c \in Conn, FinishCurrentFile(c), UNCHANGED senderVars
        PROVE  D!Next
    <3>1. currentFileID \in File
      BY <2>1 DEF FinishCurrentFile, Receiving, XInv, BaseInv, ReceiverTypeOK
    <3>2. currentFileID \notin saved \cup refused
      BY <3>1 DEF XInv, PlaceInv, PlaceOf, Settled
    <3>3. D!Store(currentFileID) \/ D!Fail(currentFileID)
      BY <2>1, <3>2 DEF FinishCurrentFile, D!Store, D!Fail
    <3> QED
      BY <3>1, <3>3 DEF D!Next
  <2>2. ASSUME NEW c \in Conn, HandleFrame(c), UNCHANGED senderVars
        PROVE  D!Next \/ UNCHANGED <<saved, refused, confirmed>>
    <3>1. CASE FinishLast(c) \/ FinishThenNext(c) \/ FinishThenReject(c) \/ FinishThenStop(c)
      BY <2>1, <2>2, <3>1 DEF FinishLast, FinishThenNext, FinishThenReject, FinishThenStop
    <3>2. CASE \/ HandleNonce(c) \/ HandleToken(c) \/ PinCorrect(c) \/ PinWrong(c)
               \/ HandleFileList(c) \/ TooManyFiles(c) \/ EmptyList(c) \/ PairAccepted(c)
               \/ PairUnverified(c) \/ PairDeclined(c) \/ PairFailed(c)
      BY <2>2, <3>2 DEF HandleNonce, HandleToken, PinCorrect, PinWrong, HandleFileList, TooManyFiles,
         EmptyList, PairAccepted, PairUnverified, PairDeclined, PairFailed
    <3>3. CASE \/ HandleFileHeader(c) \/ RejectHeader(c) \/ HandleBinaryData(c) \/ TooMuchData(c)
               \/ RejectGarbage(c) \/ WriteGarbage(c) \/ CollectControl(c) \/ IgnoreFrame(c)
      BY <2>2, <3>3 DEF HandleFileHeader, RejectHeader, HandleBinaryData, TooMuchData, RejectGarbage,
         WriteGarbage, GarbageAsData, CollectControl, IgnoreFrame
    <3> QED
      BY <2>2, <3>1, <3>2, <3>3 DEF HandleFrame
  <2>3. CASE ReceiverStep /\ UNCHANGED senderVars
    BY <2>2, <2>3 DEF ReceiverStep, FailAccept, InstallPeer, SelectFiles, HandlePeerClosed, CloseRecvEnd,
       CloseReceiver, StaleWatchdog, CheckTransferWatchdog, BlockExpires
  <2>4. ASSUME NEW c \in Conn, Offer(c)
        PROVE  UNCHANGED <<saved, refused, confirmed>>
    BY <2>4 DEF Offer, ReserveSession
  <2>5. ASSUME NEW c \in Conn, TakeResult(c), UNCHANGED receiverVars
        PROVE  D!Next \/ UNCHANGED <<saved, refused, confirmed>>
    <3>1. CASE GoodResult(c)
      <4>1. sending[c] \in File
        BY <2>5 DEF TakeResult, XInv, BaseInv, STypes, QueueInv, FilesOf
      <4>2. resultCh[c].t = "resp" /\ TrueAck(resultCh[c])
        BY <2>5 DEF TakeResult, XInv, BaseInv, STypes, PlacesTyped, AckInv
      <4>3. D!Ack(sending[c])
        BY <2>5, <3>1, <4>2 DEF TakeResult, GoodResult, TrueAck, D!Ack
      <4> QED
        BY <4>1, <4>3 DEF D!Next
    <3>2. CASE ~GoodResult(c)
      BY <2>5, <3>2 DEF TakeResult
    <3> QED
      BY <3>1, <3>2
  <2>6. ASSUME NEW c \in Conn, SenderStep(c), ~TakeResult(c), UNCHANGED receiverVars
        PROVE  UNCHANGED <<saved, refused, confirmed>>
    <3>1. CASE MainStep(c)
      BY <2>6, <3>1 DEF MainStep, AnswerArrives, TakeAccepted, StartQueue, SendChunk, EndFile, Flush, GiveUp,
         CloseSender
    <3>2. CASE HandlerStep(c) \/ SenderPeerClosed(c)
      BY <2>6, <3>2 DEF HandlerStep, SCollectControl, HandleFileResponse, HandleNonceResponse, Refused,
         HandleTokenResponse, FilesAccepted, PairRequested, SIgnoreFrame, SenderPeerClosed
    <3> QED
      BY <2>6, <3>1, <3>2 DEF SenderStep
  <2>7. CASE UNCHANGED vars
    BY <2>7 DEF vars
  <2> QED
    BY <2>3, <2>4, <2>5, <2>6, <2>7 DEF Next
<1> QED
  BY <1>1, <1>2, XInvariant, PTL DEF Spec, RTCDelivery, D!Spec

-----------------------------------------------------------------------------
(* Keys.                                                                    *)

\* A frame that agrees to pair.
Agrees(m) == m.t = "pair" /\ m.st = "OK"

\* The other frames of connection c.
Plain(c) == {m \in From(c) : ~Agrees(m)}

\* A connection agrees to pair only when its user did.
AgreedInv == \A c \in Conn : c \in paired \/ toRecv[c] \in Seq(Plain(c))

\* Before the token of a session there is no key.
FreshKeys == state \in {"waitNonce", "waitToken"} => senderPublicKey = None /\ senderToken = None

\* Together they are inductive.
KInv == BaseInv /\ KeysVerified /\ FreshKeys /\ AgreedInv

\* Every handler takes a frame.
LEMMA HandledIsIncoming ==
    ASSUME NEW c \in Conn, HandleFrame(c)
    PROVE  Incoming(c)
BY DEF HandleFrame, HandleNonce, HandleToken, PinCorrect, PinWrong, HandleFileList, TooManyFiles, EmptyList,
   PairAccepted, PairUnverified, PairDeclined, PairFailed, HandleFileHeader, RejectHeader, HandleBinaryData,
   TooMuchData, RejectGarbage, WriteGarbage, GarbageAsData, FinishLast, FinishThenNext, FinishThenReject,
   FinishThenStop, FinishCurrentFile, CollectControl, IgnoreFrame, Handle, ControlMessage

\* What the senders send without the consent of a user.
LEMMA PlainSends ==
    ASSUME NEW c \in Conn
    PROVE  /\ <<NonceMsg(c)>> \in Seq(Plain(c)) /\ <<Delimiter>> \in Seq(Plain(c))
           /\ <<ListMsg(FilesOf(c)), Delimiter>> \in Seq(Plain(c))
           /\ \A d \in Conn : <<TokenMsg(PeerOf[c], <<c, d>>)>> \in Seq(Plain(c))
           /\ \A ok \in BOOLEAN : <<PinMsg(ok)>> \in Seq(Plain(c))
           /\ <<PairMsg("PAIR_DECLINED", None)>> \in Seq(Plain(c))
           /\ <<PairMsg("INVALID_SIGNATURE", None)>> \in Seq(Plain(c))
           /\ \A f \in FilesOf(c) : <<Header(f)>> \in Seq(Plain(c)) /\ <<Chunk(f)>> \in Seq(Plain(c))
<1>1. /\ NonceMsg(c) \in From(c) /\ Delimiter \in From(c) /\ ListMsg(FilesOf(c)) \in From(c)
      /\ \A d \in Conn : TokenMsg(PeerOf[c], <<c, d>>) \in From(c)
      /\ \A ok \in BOOLEAN : PinMsg(ok) \in From(c)
      /\ PairMsg("PAIR_DECLINED", None) \in From(c) /\ PairMsg("INVALID_SIGNATURE", None) \in From(c)
      /\ \A f \in FilesOf(c) : Header(f) \in From(c) /\ Chunk(f) \in From(c)
  BY DEF From
<1>2. /\ ~Agrees(NonceMsg(c)) /\ ~Agrees(Delimiter) /\ ~Agrees(ListMsg(FilesOf(c)))
      /\ \A d \in Conn : ~Agrees(TokenMsg(PeerOf[c], <<c, d>>))
      /\ \A ok \in BOOLEAN : ~Agrees(PinMsg(ok))
      /\ ~Agrees(PairMsg("PAIR_DECLINED", None)) /\ ~Agrees(PairMsg("INVALID_SIGNATURE", None))
      /\ \A f \in FilesOf(c) : ~Agrees(Header(f)) /\ ~Agrees(Chunk(f))
  BY DEF Agrees, NonceMsg, Delimiter, ListMsg, TokenMsg, PinMsg, PairMsg, Header, Chunk
<1>3. \A m \in From(c) : ~Agrees(m) => m \in Plain(c)
  BY DEF Plain
<1>4. /\ NonceMsg(c) \in Plain(c) /\ Delimiter \in Plain(c) /\ ListMsg(FilesOf(c)) \in Plain(c)
      /\ \A d \in Conn : TokenMsg(PeerOf[c], <<c, d>>) \in Plain(c)
      /\ \A ok \in BOOLEAN : PinMsg(ok) \in Plain(c)
      /\ PairMsg("PAIR_DECLINED", None) \in Plain(c) /\ PairMsg("INVALID_SIGNATURE", None) \in Plain(c)
      /\ \A f \in FilesOf(c) : Header(f) \in Plain(c) /\ Chunk(f) \in Plain(c)
  BY <1>1, <1>2, <1>3
<1> QED
  BY <1>4

\* No sender agrees to pair without its user.
LEMMA AgreedSends ==
    ASSUME BaseInv, AgreedInv, NEW c \in Conn, SenderStep(c)
    PROVE  AgreedInv'
<1> USE WireAssumption DEF queueVars, wireVars, senderVars
<1>a. WTypes /\ STypes /\ toRecv \in [Conn -> Seq(ToRecvFrame)] /\ ToSendOK
  BY DEF BaseInv, WTypes, WireTypeOK, ToSendOK
<1>b. ASSUME UNCHANGED <<toRecv, paired>>
      PROVE  AgreedInv'
  BY <1>b DEF AgreedInv
<1>c. ASSUME NEW ms \in Seq(Plain(c)), SendFrames(c, ms), UNCHANGED paired
      PROVE  AgreedInv'
  <2>1. ASSUME NEW d \in Conn, d \notin paired
        PROVE  toRecv'[d] \in Seq(Plain(d))
    <3>1. toRecv[d] \in Seq(Plain(d))
      BY <2>1 DEF AgreedInv
    <3>2. CASE d = c
      <4>1. toRecv[c] \o ms \in Seq(Plain(c))
        BY <3>1, <3>2
      <4> QED
        BY <1>a, <1>c, <3>1, <3>2, <4>1 DEF SendFrames
    <3>3. CASE d # c
      BY <1>a, <1>c, <3>1, <3>3 DEF SendFrames
    <3> QED
      BY <3>2, <3>3
  <2> QED
    BY <1>c, <2>1 DEF AgreedInv
<1>1. CASE AnswerArrives(c)
  BY <1>1, <1>c, PlainSends DEF AnswerArrives
<1>2. CASE \/ TakeAccepted(c) \/ GiveUp(c) \/ TakeResult(c) \/ Flush(c) \/ CloseSender(c) \/ SenderPeerClosed(c)
           \/ SCollectControl(c) \/ SIgnoreFrame(c) \/ HandleFileResponse(c) \/ Refused(c) \/ FilesAccepted(c)
  BY <1>2, <1>b DEF TakeAccepted, GiveUp, TakeResult, Flush, CloseSender, SenderPeerClosed, SCollectControl,
     SIgnoreFrame, HandleFileResponse, Refused, FilesAccepted
<1>3. CASE StartQueue(c) \/ EndFile(c)
  <2>1. todo[c] \subseteq FilesOf(c) /\ UNCHANGED paired
    BY <1>3, <1>a DEF STypes, QueueInv, StartQueue, EndFile
  <2>2. SendFrames(c, <<Delimiter>>) \/ \E f \in todo[c] : SendFrames(c, <<Header(f)>>)
    BY <1>3 DEF StartQueue, EndFile
  <2> QED
    BY <1>c, <2>1, <2>2, PlainSends
<1>4. CASE SendChunk(c)
  <2>1. sending[c] \in FilesOf(c)
    BY <1>4, <1>a DEF SendChunk, STypes, QueueInv
  <2> QED
    BY <1>4, <1>c, <2>1, PlainSends DEF SendChunk
<1>5. CASE HandleNonceResponse(c)
  <2>1. SMessage(c).by \in Conn
    BY <1>5, <1>a, TakeMessage DEF HandleNonceResponse, ReplyFields, STypes
  <2> QED
    BY <1>5, <1>c, <2>1, PlainSends DEF HandleNonceResponse
<1>6. CASE HandleTokenResponse(c)
  <2>1. CASE SMessage(c).st = "PIN_REQUIRED"
    <3>1. PICK ok \in {FALSE, (c \in KnowsPin)} : SendFrames(c, <<PinMsg(ok)>>)
      BY <1>6, <2>1 DEF HandleTokenResponse
    <3>2. (c \in KnowsPin) \in BOOLEAN
      OBVIOUS
    <3>3. ok \in BOOLEAN
      BY <3>1, <3>2, Zenon
    <3> QED
      BY <1>6, <1>c, <3>1, <3>3, PlainSends DEF HandleTokenResponse
  <2>2. CASE SMessage(c).st # "PIN_REQUIRED"
    BY <1>6, <1>c, <2>2, PlainSends DEF HandleTokenResponse
  <2> QED
    BY <2>1, <2>2
<1>7. CASE PairRequested(c)
  <2>1. CASE paired' = paired \cup {c}
    <3>1. \A d \in Conn \ {c} : toRecv'[d] = toRecv[d]
      BY <1>7, <1>a DEF PairRequested, SendFrames
    <3> QED
      BY <2>1, <3>1 DEF AgreedInv
  <2>2. CASE paired' # paired \cup {c}
    <3>1. /\ UNCHANGED paired
          /\ \/ SendFrames(c, <<PairMsg("PAIR_DECLINED", None)>>)
             \/ SendFrames(c, <<PairMsg("INVALID_SIGNATURE", None)>>)
      BY <1>7, <2>2 DEF PairRequested
    <3> QED
      BY <1>c, <3>1, PlainSends
  <2> QED
    BY <2>1, <2>2
<1> QED
  BY <1>1, <1>2, <1>3, <1>4, <1>5, <1>6, <1>7 DEF SenderStep, MainStep, HandlerStep

\* The receiver only takes frames.
LEMMA AgreedTaken ==
    ASSUME BaseInv, AgreedInv, ReceiverStep \/ \E c \in Conn : ReserveSession(c), UNCHANGED senderVars
    PROVE  AgreedInv'
<1> USE DEF handshakeVars, listVars, writeVars, watchVars, storeVars, wireVars, receiverVars
<1>a. toRecv \in [Conn -> Seq(ToRecvFrame)] /\ UNCHANGED paired
  BY DEF BaseInv, WTypes, WireTypeOK, senderVars
<1>b. ASSUME UNCHANGED toRecv
      PROVE  AgreedInv'
  BY <1>a, <1>b DEF AgreedInv
<1>1. ASSUME NEW c \in Conn, HandleFrame(c)
      PROVE  AgreedInv'
  <2>1. toRecv[c] # <<>> /\ toRecv' = [toRecv EXCEPT ![c] = Tail(@)]
    BY <1>1, HandledIsIncoming DEF Incoming
  <2>2. ASSUME NEW d \in Conn, d \notin paired
        PROVE  toRecv'[d] \in Seq(Plain(d))
    <3>1. toRecv[d] \in Seq(Plain(d))
      BY <2>2 DEF AgreedInv
    <3>2. CASE d = c
      <4>1. Tail(toRecv[c]) \in Seq(Plain(c))
        BY <2>1, <3>1, <3>2, TailAt
      <4> QED
        BY <1>a, <2>1, <3>2, <4>1
    <3>3. CASE d # c
      BY <1>a, <2>1, <3>1, <3>3
    <3> QED
      BY <3>2, <3>3
  <2> QED
    BY <1>a, <2>2 DEF AgreedInv
<1>2. ASSUME NEW c \in Conn, CloseRecvEnd(c)
      PROVE  AgreedInv'
  <2>1. ASSUME NEW d \in Conn, d \notin paired
        PROVE  toRecv'[d] \in Seq(Plain(d))
    BY <1>a, <1>2, <2>1 DEF CloseRecvEnd, AgreedInv
  <2> QED
    BY <1>a, <2>1 DEF AgreedInv
<1>3. ASSUME NEW c \in Conn, \/ ReserveSession(c) \/ FailAccept(c) \/ InstallPeer(c) \/ SelectFiles(c)
                             \/ HandlePeerClosed(c)
      PROVE  AgreedInv'
  BY <1>3, <1>b DEF ReserveSession, FailAccept, InstallPeer, SelectFiles, HandlePeerClosed
<1>4. CASE \/ CloseReceiver \/ \E f \in File : StaleWatchdog(f) \/ CheckTransferWatchdog(f)
           \/ \E p \in Peer : BlockExpires(p)
  BY <1>4, <1>b DEF CloseReceiver, StaleWatchdog, CheckTransferWatchdog, BlockExpires
<1> QED
  BY <1>1, <1>2, <1>3, <1>4 DEF ReceiverStep

\* An agreement to pair comes from a connection whose user agreed.
LEMMA AgreedFrame ==
    ASSUME BaseInv, AgreedInv, NEW c \in Conn, ControlMessage(c), Message(c).t = "pair", Message(c).st = "OK"
    PROVE  c \in paired /\ Message(c).key \in {PeerOf[c], None}
<1>1. MessageIs(c) /\ toRecv[c] # <<>>
  BY IncomingFrame, MessageFields DEF BaseInv, ControlMessage, Incoming
<1>2. Message(c) = Frame(c)
  BY <1>1 DEF MessageIs
<1>3. CASE c \notin paired
  <2>1. Head(toRecv[c]) \in Plain(c)
    BY <1>1, <1>3, TailAt DEF AgreedInv
  <2> QED
    BY <1>2, <2>1 DEF Frame, Plain, Agrees
<1> QED
  BY <1>1, <1>3 DEF MessageIs

\* The handlers keep the keys.
LEMMA KeysHandled ==
    ASSUME KInv, NEW c \in Conn, HandleFrame(c), UNCHANGED senderVars
    PROVE  KeysVerified' /\ FreshKeys'
<1> USE WireAssumption DEF handshakeVars, listVars, writeVars, watchVars, storeVars
<1>a. /\ KeysVerified /\ FreshKeys /\ UNCHANGED paired
      /\ ReceiverTypeOK /\ state \in State
  BY DEF KInv, BaseInv, ReceiverTypeOK, senderVars
<1>b. ASSUME UNCHANGED <<senderPublicKey, senderToken, finalNonce, trusted>>,
             state' = state \/ state' \notin {"waitNonce", "waitToken"}
      PROVE  KeysVerified' /\ FreshKeys'
  BY <1>a, <1>b DEF KeysVerified, FreshKeys, Verified
<1>1. CASE HandleNonce(c)
  <2>1. state = "waitNonce" /\ UNCHANGED <<senderPublicKey, senderToken, trusted>>
    BY <1>1, <1>a DEF HandleNonce, Handle, Expected, State
  <2> QED
    BY <1>a, <2>1 DEF KeysVerified, FreshKeys
<1>2. CASE HandleToken(c)
  <2> DEFINE token == [key |-> Message(c).key, nonce |-> Message(c).nonce]
             known == {p \in trusted : RequirePairing /\ Verified(p, token, finalNonce)}
  <2>1. /\ state = "waitToken" /\ state' \in {"waitPin", "waitFileList"}
        /\ senderToken' = token /\ UNCHANGED <<finalNonce, trusted>>
        /\ senderPublicKey' = IF known = {} THEN senderPublicKey ELSE token.key
    BY <1>2, <1>a DEF HandleToken, Handle, Expected, State
  <2>2. senderPublicKey = None
    BY <1>a, <2>1 DEF FreshKeys
  <2>3. CASE known = {}
    BY <1>a, <2>1, <2>2, <2>3 DEF KeysVerified, FreshKeys
  <2>4. CASE known # {}
    <3>1. Verified(token.key, token, finalNonce)
      BY <2>4 DEF Verified
    <3> HIDE DEF token, known
    <3> QED
      BY <1>a, <2>1, <2>4, <3>1 DEF KeysVerified, FreshKeys, Verified
  <2> QED
    BY <2>3, <2>4
<1>3. CASE PairAccepted(c)
  <2>1. /\ ControlMessage(c) /\ Message(c).t = "pair" /\ Message(c).st = "OK" /\ Message(c).key # None
        /\ state = "waitPairResponse" /\ KeyMatchesToken(Message(c).key)
        /\ senderPublicKey' = Message(c).key /\ trusted' = trusted \cup {Message(c).key}
        /\ UNCHANGED <<finalNonce, senderToken>> /\ state' \in {state, "waitFiles"}
    BY <1>3, <1>a DEF PairAccepted, Handle, Expected, State, AcceptFiles
  <2>2. c \in paired /\ Message(c).key = PeerOf[c]
    BY <2>1, AgreedFrame DEF KInv
  <2> QED
    BY <1>a, <2>1, <2>2 DEF KeysVerified, FreshKeys, KeyMatchesToken, Verified
<1>4. CASE \/ PinCorrect(c) \/ PinWrong(c) \/ HandleFileList(c) \/ TooManyFiles(c) \/ EmptyList(c)
           \/ PairUnverified(c) \/ PairDeclined(c) \/ PairFailed(c)
  BY <1>4, <1>b DEF PinCorrect, PinWrong, HandleFileList, TooManyFiles, EmptyList, PairUnverified, PairDeclined,
     PairFailed, AcceptFiles, Terminate
<1>5. CASE \/ HandleFileHeader(c) \/ RejectHeader(c) \/ HandleBinaryData(c) \/ TooMuchData(c) \/ RejectGarbage(c)
           \/ WriteGarbage(c) \/ CollectControl(c) \/ IgnoreFrame(c)
  BY <1>5, <1>b DEF HandleFileHeader, StartReceivingFile, RejectHeader, RejectFileTransfer, HandleBinaryData,
     TooMuchData, RejectGarbage, RejectData, WriteGarbage, GarbageAsData, CollectControl, IgnoreFrame
<1>6. CASE FinishLast(c) \/ FinishThenNext(c) \/ FinishThenReject(c) \/ FinishThenStop(c)
  BY <1>6, <1>b DEF FinishLast, FinishThenNext, StartReceivingFile, FinishThenReject, RejectFileTransfer,
     FinishThenStop, Terminate, FinishCurrentFile
<1> QED
  BY <1>1, <1>2, <1>3, <1>4, <1>5, <1>6 DEF HandleFrame

\* So does every step of the receiver.
LEMMA KeysReceived ==
    ASSUME KInv, ReceiverStep, UNCHANGED senderVars
    PROVE  KeysVerified' /\ FreshKeys'
<1> USE DEF handshakeVars, listVars, writeVars, watchVars, storeVars
<1>a. KeysVerified /\ FreshKeys /\ UNCHANGED paired
  BY DEF KInv, senderVars
<1>b. ASSUME UNCHANGED <<senderPublicKey, senderToken, finalNonce, trusted>>,
             state' = state \/ state' \notin {"waitNonce", "waitToken"}
      PROVE  KeysVerified' /\ FreshKeys'
  BY <1>a, <1>b DEF KeysVerified, FreshKeys, Verified
<1>1. ASSUME NEW c \in Conn, HandleFrame(c)
      PROVE  KeysVerified' /\ FreshKeys'
  BY <1>1, KeysHandled
<1>2. ASSUME NEW c \in Conn, \/ FailAccept(c) \/ InstallPeer(c) \/ SelectFiles(c) \/ HandlePeerClosed(c)
                             \/ CloseRecvEnd(c)
      PROVE  KeysVerified' /\ FreshKeys'
  BY <1>2, <1>b DEF FailAccept, InstallPeer, SelectFiles, AcceptFiles, HandlePeerClosed, Terminate,
     CloseRecvEnd, receiverVars
<1>3. CASE CloseReceiver
  <2>1. UNCHANGED <<senderPublicKey, senderToken, finalNonce, trusted>> /\ state' = "done"
    BY <1>3 DEF CloseReceiver
  <2> QED
    BY <1>b, <2>1
<1>4. ASSUME NEW f \in File, StaleWatchdog(f) \/ CheckTransferWatchdog(f)
      PROVE  KeysVerified' /\ FreshKeys'
  BY <1>4, <1>b DEF StaleWatchdog, CheckTransferWatchdog, Terminate
<1>5. ASSUME NEW p \in Peer, BlockExpires(p)
      PROVE  KeysVerified' /\ FreshKeys'
  BY <1>5, <1>b DEF BlockExpires
<1> HIDE DEF handshakeVars, listVars, writeVars, watchVars, storeVars
<1> QED
  BY <1>1, <1>2, <1>3, <1>4, <1>5 DEF ReceiverStep

\* No consent is withdrawn.
LEMMA ConsentKept ==
    ASSUME NEW c \in Conn, SenderStep(c)
    PROVE  paired \subseteq paired'
<1>1. CASE PairRequested(c)
  BY <1>1 DEF PairRequested
<1>2. CASE ~PairRequested(c)
  BY <1>2 DEF SenderStep, MainStep, HandlerStep, AnswerArrives, TakeAccepted, StartQueue, SendChunk, EndFile,
     TakeResult, Flush, GiveUp, CloseSender, SCollectControl, HandleFileResponse, HandleNonceResponse, Refused,
     HandleTokenResponse, FilesAccepted, SIgnoreFrame, SenderPeerClosed, senderVars
<1> QED
  BY <1>1, <1>2

\* Every step keeps the keys right.
LEMMA KeysInvariant == Spec => []KInv
<1>1. Init => KInv
  <2> SUFFICES ASSUME Init PROVE KInv
    OBVIOUS
  <2>1. KeysVerified /\ FreshKeys
    BY DEF Init, ReceiverInit, KeysVerified, FreshKeys
  <2>2. AgreedInv
    BY DEF AgreedInv, Init, WireInit
  <2> QED
    BY <2>1, <2>2, BaseInit DEF KInv
<1>2. KInv /\ [Next]_vars => KInv'
  <2> SUFFICES ASSUME KInv, [Next]_vars PROVE KInv'
    OBVIOUS
  <2> USE DEF handshakeVars, listVars, writeVars, watchVars, storeVars
  <2>0. BaseInv' /\ BaseInv /\ AgreedInv /\ KeysVerified /\ FreshKeys
    BY BaseStep DEF KInv
  <2>a. ASSUME UNCHANGED <<senderPublicKey, senderToken, finalNonce, trusted>>, paired \subseteq paired',
               state' = state \/ state' \notin {"waitNonce", "waitToken"}
        PROVE  KeysVerified' /\ FreshKeys'
    BY <2>0, <2>a DEF KeysVerified, FreshKeys, Verified
  <2>1. ASSUME NEW c \in Conn, Offer(c)
        PROVE  KInv'
    <3>1. /\ senderPublicKey' = None /\ senderToken' = None /\ UNCHANGED <<trusted, paired>>
          /\ ReserveSession(c) /\ UNCHANGED senderVars
      BY <2>1 DEF Offer, ReserveSession, senderVars
    <3>2. KeysVerified' /\ FreshKeys'
      BY <2>0, <3>1 DEF KeysVerified, FreshKeys
    <3> QED
      BY <2>0, <3>1, <3>2, AgreedTaken DEF KInv
  <2>2. CASE ReceiverStep /\ UNCHANGED senderVars
    <3>1. AgreedInv' /\ UNCHANGED paired
      BY <2>0, <2>2, AgreedTaken DEF senderVars
    <3>2. KeysVerified' /\ FreshKeys'
      BY <2>2, KeysReceived
    <3> QED
      BY <2>0, <3>1, <3>2 DEF KInv
  <2>3. ASSUME NEW c \in Conn, SenderStep(c), UNCHANGED receiverVars
        PROVE  KInv'
    <3>1. paired \subseteq paired'
      BY <2>3, ConsentKept
    <3> QED
      BY <2>0, <2>3, <2>a, <3>1, AgreedSends DEF KInv, receiverVars
  <2>4. CASE UNCHANGED vars
    <3>1. UNCHANGED <<paired, toRecv, state, senderPublicKey, senderToken, finalNonce, trusted>>
      BY <2>4 DEF vars, wireVars, receiverVars, senderVars
    <3> QED
      BY <2>0, <2>a, <3>1 DEF KInv, AgreedInv
  <2> QED
    BY <2>1, <2>2, <2>3, <2>4 DEF Next
<1> QED
  BY <1>1, <1>2, PTL DEF Spec

\* Whatever late handlers do: the key kept for a session is the one that signed its
\* token, and no device becomes trusted without its user's consent (handlePairResponse).
THEOREM TrustIsAgreed == Spec => []KeysVerified
<1>1. KInv => KeysVerified
  BY DEF KInv
<1> QED
  BY <1>1, KeysInvariant, PTL

-----------------------------------------------------------------------------
(* Without late handlers.                                                  *)

\* Only the installed connection is selecting files, and the session waits for it.
SelectInv ==
    \A c \in selecting : accepting = None /\ (peer # None => c = peer /\ state = "waitFileList")

\* The invariant of a receiver whose dropped connections are silent.
QInv == ~StaleHandlers /\ BaseInv /\ AgreedInv /\ SelectInv /\ PartialOnlyWhileActive /\ PairedBeforeTokens

\* Then a frame comes from the connection of the session, which is not selecting.
LEMMA OwnFrame ==
    ASSUME QInv, NEW c \in Conn, Incoming(c)
    PROVE  peer = c /\ session = c /\ selecting = {} /\ FieldsOf(Frame(c), c)
<1>1. recvEnd[c] = "open" /\ c \notin selecting
  BY DEF QInv, Incoming
<1>2. peer = c /\ session = c
  BY <1>1, WireAssumption DEF QInv, BaseInv, RCore, EndsInv
<1>3. selecting = {}
  BY <1>1, <1>2, WireAssumption DEF QInv, SelectInv
<1>4. FieldsOf(Frame(c), c)
  BY IncomingFrame DEF QInv, BaseInv
<1> QED
  BY <1>2, <1>3, <1>4

\* The handlers keep the three parts.
LEMMA QuietFrames ==
    ASSUME QInv, NEW c \in Conn, HandleFrame(c), UNCHANGED senderVars
    PROVE  SelectInv' /\ PartialOnlyWhileActive' /\ PairedBeforeTokens'
<1> USE WireAssumption, ReceiverAssumption DEF handshakeVars, listVars, writeVars, watchVars, storeVars
<1>a. /\ ReceiverTypeOK /\ SelectInv /\ PartialOnlyWhileActive /\ PairedBeforeTokens
      /\ None \notin File /\ None \notin Peer /\ PeerOf[c] \in Peer /\ UNCHANGED paired
  BY DEF QInv, BaseInv, senderVars
<1>b. Incoming(c) => peer = c /\ session = c /\ selecting = {} /\ FieldsOf(Frame(c), c)
  BY OwnFrame
<1>c. ControlMessage(c) => Incoming(c) /\ MessageIs(c)
  BY <1>a, <1>b, MessageFields DEF ControlMessage
<1>d. \A t : Handle(c, t) => ControlMessage(c) /\ Incoming(c) /\ Message(c).t = t /\ Expected = t
  BY DEF Handle, ControlMessage
<1>e. ASSUME UNCHANGED <<session, senderPublicKey, fileTokens>>
      PROVE  PairedBeforeTokens'
  BY <1>a, <1>e DEF PairedBeforeTokens
<1>f. ASSUME Incoming(c), UNCHANGED selecting
      PROVE  SelectInv'
  BY <1>b, <1>f DEF SelectInv
<1>g. ASSUME state' # "receivingFiles", state # "receivingFiles", UNCHANGED writeVars
      PROVE  PartialOnlyWhileActive'
  BY <1>a, <1>g DEF PartialOnlyWhileActive
<1>h. ASSUME currentFileID' = None, partial' = {}, ~transferActive', state' # "receivingFiles"
      PROVE  PartialOnlyWhileActive'
  BY <1>h DEF PartialOnlyWhileActive
<1>1. CASE HandleNonce(c)
  <2>1. Incoming(c) /\ state = "waitNonce"
    BY <1>1, <1>a, <1>d DEF HandleNonce, Expected, ReceiverTypeOK, State
  <2> QED
    BY <1>1, <1>e, <1>f, <1>g, <2>1 DEF HandleNonce
<1>2. CASE HandleToken(c)
  <2>1. Incoming(c) /\ state = "waitToken" /\ Message(c).key = PeerOf[c] /\ session = c
    BY <1>2, <1>a, <1>b, <1>c, <1>d DEF HandleToken, Expected, ReceiverTypeOK, State, MessageIs
  <2>2. senderPublicKey' \in {senderPublicKey, PeerOf[session]} /\ UNCHANGED <<session, fileTokens>>
    BY <1>2, <2>1 DEF HandleToken
  <2>3. PairedBeforeTokens'
    BY <1>a, <2>1, <2>2 DEF PairedBeforeTokens
  <2>4. PartialOnlyWhileActive'
    BY <1>2, <1>g, <2>1 DEF HandleToken
  <2> QED
    BY <1>2, <1>f, <2>1, <2>3, <2>4 DEF HandleToken
<1>3. CASE PinCorrect(c)
  <2>1. Incoming(c) /\ state = "waitPin"
    BY <1>3, <1>a, <1>d DEF PinCorrect, Expected, ReceiverTypeOK, State
  <2> QED
    BY <1>3, <1>e, <1>f, <1>g, <2>1 DEF PinCorrect
<1>4. CASE PinWrong(c)
  <2>1. Incoming(c) /\ state = "waitPin"
    BY <1>4, <1>a, <1>d DEF PinWrong, Expected, ReceiverTypeOK, State
  <2>2. PartialOnlyWhileActive'
    BY <1>4, <1>g, <1>h, <2>1 DEF PinWrong, Terminate, CleanupPartialFiles
  <2> QED
    BY <1>4, <1>e, <1>f, <2>1, <2>2 DEF PinWrong
<1>5. CASE HandleFileList(c)
  <2>1. Incoming(c) /\ state = "waitFileList" /\ peer = c /\ selecting = {}
    BY <1>5, <1>a, <1>b, <1>d DEF HandleFileList, Expected, ReceiverTypeOK, State
  <2>2. accepting = None
    BY <2>1 DEF QInv, BaseInv, RCore, EndsInv
  <2>3. SelectInv'
    BY <1>5, <2>1, <2>2 DEF HandleFileList, SelectInv
  <2> QED
    BY <1>5, <1>e, <1>g, <2>1, <2>3 DEF HandleFileList
<1>6. CASE TooManyFiles(c)
  <2>1. Incoming(c) /\ state = "waitFileList"
    BY <1>6, <1>a, <1>d DEF TooManyFiles, Expected, ReceiverTypeOK, State
  <2> QED
    BY <1>6, <1>e, <1>f, <1>g, <2>1 DEF TooManyFiles
<1>7. CASE PairAccepted(c)
  <2>1. /\ Incoming(c) /\ state = "waitPairResponse" /\ session = c /\ ControlMessage(c)
        /\ Message(c).t = "pair" /\ Message(c).st = "OK" /\ Message(c).key # None
    BY <1>7, <1>a, <1>b, <1>d DEF PairAccepted, Expected, ReceiverTypeOK, State
  <2>4. Message(c).key = PeerOf[c]
    BY <2>1, AgreedFrame DEF QInv
  <2>2. PairedBeforeTokens'
    BY <1>7, <1>a, <2>1, <2>4 DEF PairAccepted, PairedBeforeTokens
  <2>3. PartialOnlyWhileActive'
    BY <1>7, <1>g, <2>1 DEF PairAccepted, AcceptFiles
  <2> QED
    BY <1>7, <1>f, <2>1, <2>2, <2>3 DEF PairAccepted
<1>19. CASE PairUnverified(c)
  <2>1. /\ Incoming(c) /\ state = "waitPairResponse" /\ session = c /\ ControlMessage(c)
        /\ Message(c).t = "pair" /\ Message(c).st = "OK"
    BY <1>19, <1>a, <1>b, <1>d DEF PairUnverified, Expected, ReceiverTypeOK, State
  <2>2. session \in paired
    BY <2>1, AgreedFrame DEF QInv
  <2>3. PairedBeforeTokens'
    BY <1>19, <1>a, <2>2 DEF PairUnverified, PairedBeforeTokens
  <2>4. PartialOnlyWhileActive'
    BY <1>19, <1>g, <2>1 DEF PairUnverified, AcceptFiles
  <2> QED
    BY <1>19, <1>f, <2>1, <2>3, <2>4 DEF PairUnverified
<1>20. CASE EmptyList(c)
  <2>1. Incoming(c) /\ state = "waitFileList"
    BY <1>20, <1>a DEF EmptyList, ControlMessage, LooksEmpty, Expected, ReceiverTypeOK, State
  <2> QED
    BY <1>20, <1>e, <1>f, <1>g, <2>1 DEF EmptyList
<1>8. CASE PairDeclined(c)
  <2>1. Incoming(c)
    BY <1>8, <1>d DEF PairDeclined
  <2> QED
    BY <1>8, <1>e, <1>f, <1>h, <2>1 DEF PairDeclined, Terminate, CleanupPartialFiles
<1>9. CASE PairFailed(c)
  <2>1. Incoming(c)
    BY <1>9, <1>d DEF PairFailed
  <2>2. PartialOnlyWhileActive'
    BY <1>9, <1>a DEF PairFailed, PartialOnlyWhileActive
  <2> QED
    BY <1>9, <1>e, <1>f, <2>1, <2>2 DEF PairFailed
<1>10. CASE HandleFileHeader(c)
  <2>1. Incoming(c) /\ state = "waitFiles"
    BY <1>10, <1>a, <1>d DEF HandleFileHeader, Expected, ReceiverTypeOK, State
  <2>2. partial = {} /\ Message(c).file # None
    BY <1>10, <1>a, <2>1 DEF HandleFileHeader, PartialOnlyWhileActive, ReceiverTypeOK
  <2>3. PartialOnlyWhileActive'
    BY <1>10, <2>2 DEF HandleFileHeader, StartReceivingFile, PartialOnlyWhileActive
  <2> QED
    BY <1>10, <1>e, <1>f, <2>1, <2>3 DEF HandleFileHeader
<1>11. CASE RejectHeader(c)
  <2>1. Incoming(c) /\ state = "waitFiles"
    BY <1>11, <1>a, <1>d DEF RejectHeader, Expected, ReceiverTypeOK, State
  <2>2. PartialOnlyWhileActive'
    BY <1>11, <1>a, <2>1 DEF RejectHeader, RejectFileTransfer, PartialOnlyWhileActive
  <2> QED
    BY <1>11, <1>e, <1>f, <2>1, <2>2 DEF RejectHeader
<1>12. CASE HandleBinaryData(c)
  <2>1. PartialOnlyWhileActive'
    BY <1>12, <1>a DEF HandleBinaryData, PartialOnlyWhileActive
  <2> QED
    BY <1>12, <1>e, <1>f, <2>1 DEF HandleBinaryData
<1>13. CASE TooMuchData(c)
  <2>1. PartialOnlyWhileActive'
    BY <1>13, <1>a DEF TooMuchData, RejectData, CleanupCurrentFile, RejectFileTransfer, Receiving,
       PartialOnlyWhileActive
  <2> QED
    BY <1>13, <1>e, <1>f, <2>1 DEF TooMuchData
<1>14. CASE RejectGarbage(c) \/ WriteGarbage(c)
  <2>1. GarbageAsData(c) /\ Incoming(c) /\ state = "waitFiles"
    BY <1>14 DEF RejectGarbage, WriteGarbage, GarbageAsData, ControlMessage
  <2>2. partial = {} /\ currentFileID = None
    BY <1>a, <2>1 DEF PartialOnlyWhileActive
  <2>3. RejectGarbage(c)
    BY <1>14, <2>2 DEF WriteGarbage
  <2>4. PartialOnlyWhileActive'
    BY <1>h, <2>2, <2>3 DEF RejectGarbage, RejectData, CleanupCurrentFile, RejectFileTransfer
  <2> QED
    BY <1>e, <1>f, <2>1, <2>4 DEF GarbageAsData
<1>i. ASSUME FinishCurrentFile(c)
      PROVE  /\ Incoming(c) /\ partial \ {currentFileID} = {} /\ SelectInv' /\ PairedBeforeTokens'
  <2>1. Incoming(c) /\ currentFileID # None /\ partial = {currentFileID}
    BY <1>a, <1>i DEF FinishCurrentFile, Receiving, PartialOnlyWhileActive
  <2> QED
    BY <1>e, <1>f, <1>i, <2>1 DEF FinishCurrentFile
<1>15. CASE FinishLast(c) \/ FinishThenReject(c) \/ FinishThenStop(c)
  <2>1. FinishCurrentFile(c)
    BY <1>15 DEF FinishLast, FinishThenReject, FinishThenStop
  <2>2. PartialOnlyWhileActive'
    BY <1>15, <1>h, <1>i, <2>1 DEF FinishLast, FinishThenReject, FinishThenStop, NothingCurrent,
       RejectFileTransfer, Terminate, CleanupPartialFiles
  <2> QED
    BY <1>i, <2>1, <2>2
<1>16. CASE FinishThenNext(c)
  <2>1. FinishCurrentFile(c) /\ Frame(c).file # None
    BY <1>16, <1>a DEF FinishThenNext, ReceiverTypeOK
  <2>2. PartialOnlyWhileActive'
    BY <1>16, <1>i, <2>1 DEF FinishThenNext, StartReceivingFile, PartialOnlyWhileActive
  <2> QED
    BY <1>i, <2>1, <2>2
<1>17. CASE CollectControl(c) \/ IgnoreFrame(c)
  <2>1. Incoming(c) /\ UNCHANGED <<session, senderPublicKey, fileTokens, selecting, state, writeVars>>
    BY <1>17 DEF CollectControl, IgnoreFrame
  <2>2. PartialOnlyWhileActive'
    BY <1>a, <2>1 DEF PartialOnlyWhileActive
  <2> QED
    BY <1>e, <1>f, <2>1, <2>2
<1> QED
  BY <1>1, <1>2, <1>3, <1>4, <1>5, <1>6, <1>7, <1>8, <1>9, <1>10, <1>11, <1>12, <1>13, <1>14,
     <1>15, <1>16, <1>17, <1>19, <1>20 DEF HandleFrame

\* So does everything else.
LEMMA QuietOthers ==
    ASSUME QInv,
           \/ \E c \in Conn : \/ ReserveSession(c) \/ FailAccept(c) \/ InstallPeer(c) \/ SelectFiles(c)
                              \/ HandlePeerClosed(c) \/ CloseRecvEnd(c)
           \/ CloseReceiver
           \/ \E f \in File : StaleWatchdog(f) \/ CheckTransferWatchdog(f)
           \/ \E p \in Peer : BlockExpires(p),
           UNCHANGED senderVars
    PROVE  SelectInv' /\ PartialOnlyWhileActive' /\ PairedBeforeTokens'
<1> USE WireAssumption, ReceiverAssumption
    DEF handshakeVars, listVars, writeVars, watchVars, storeVars, wireVars, receiverVars
<1>a. /\ ReceiverTypeOK /\ SelectInv /\ PartialOnlyWhileActive /\ PairedBeforeTokens
      /\ RCore /\ EndsInv /\ ReservedInv /\ UNCHANGED paired
  BY DEF QInv, BaseInv, RCore, senderVars
<1>b. ASSUME UNCHANGED <<session, senderPublicKey, fileTokens>>
      PROVE  PairedBeforeTokens'
  BY <1>a, <1>b DEF PairedBeforeTokens
<1>c. ASSUME currentFileID' = None, partial' = {}, ~transferActive', state' # "receivingFiles"
      PROVE  PartialOnlyWhileActive'
  BY <1>c DEF PartialOnlyWhileActive
<1>d. ASSUME peer' = None, accepting' = None \/ accepting' = accepting, UNCHANGED selecting
      PROVE  SelectInv'
  BY <1>a, <1>d DEF SelectInv
<1>e. ASSUME UNCHANGED <<state, writeVars>>
      PROVE  PartialOnlyWhileActive'
  BY <1>a, <1>e DEF PartialOnlyWhileActive
<1>f. ASSUME UNCHANGED <<selecting, accepting, peer, state>>
      PROVE  SelectInv'
  BY <1>a, <1>f DEF SelectInv
<1>1. ASSUME NEW c \in Conn, ReserveSession(c)
      PROVE  SelectInv' /\ PartialOnlyWhileActive' /\ PairedBeforeTokens'
  <2>1. selecting' = {}
    BY <1>1 DEF ReserveSession, QInv
  <2> QED
    BY <1>1, <1>c, <2>1 DEF ReserveSession, CleanupPartialFiles, NoTokens, SelectInv, PairedBeforeTokens
<1>2. ASSUME NEW c \in Conn, FailAccept(c) \/ InstallPeer(c)
      PROVE  SelectInv' /\ PartialOnlyWhileActive' /\ PairedBeforeTokens'
  <2>1. accepting = c /\ selecting = {} /\ state = "waitNonce" /\ UNCHANGED <<selecting, writeVars>>
        /\ state' \in {"waitNonce", "done"}
    BY <1>2, <1>a DEF FailAccept, InstallPeer, SelectInv, ReservedInv
  <2>2. PartialOnlyWhileActive'
    BY <1>a, <2>1 DEF PartialOnlyWhileActive
  <2> QED
    BY <1>2, <1>b, <2>1, <2>2 DEF FailAccept, InstallPeer, SelectInv
<1>3. ASSUME NEW c \in Conn, SelectFiles(c)
      PROVE  SelectInv' /\ PartialOnlyWhileActive' /\ PairedBeforeTokens'
  <2>1. /\ c \in selecting /\ selecting' = selecting \ {c}
        /\ UNCHANGED <<peer, accepting, handshakeVars, writeVars>>
    BY <1>3 DEF SelectFiles
  <2>2. CASE peer = None
    <3>1. UNCHANGED <<state, fileTokens>>
      BY <1>3, <2>2 DEF SelectFiles
    <3> QED
      BY <1>a, <1>b, <1>e, <2>1, <2>2, <3>1 DEF SelectInv
  <2>3. CASE peer # None
    <3>1. selecting = {c} /\ selecting' = {} /\ state = "waitFileList"
      BY <1>a, <2>1, <2>3 DEF SelectInv
    <3>2. state' # "receivingFiles"
      BY <1>3, <2>3, <3>1 DEF SelectFiles, AcceptFiles
    <3>3. fileTokens' # fileTokens => ~MustPair
      BY <1>3, <2>3 DEF SelectFiles
    <3>4. PartialOnlyWhileActive'
      BY <1>a, <2>1, <3>1, <3>2 DEF PartialOnlyWhileActive
    <3>5. PairedBeforeTokens'
      BY <1>a, <2>1, <3>3 DEF PairedBeforeTokens, MustPair
    <3> QED
      BY <3>1, <3>4, <3>5 DEF SelectInv
  <2> QED
    BY <2>2, <2>3
<1>4. ASSUME NEW c \in Conn, HandlePeerClosed(c)
      PROVE  SelectInv' /\ PartialOnlyWhileActive' /\ PairedBeforeTokens'
  BY <1>4, <1>b, <1>c, <1>d DEF HandlePeerClosed, Terminate, CleanupPartialFiles, DropPeer
<1>5. ASSUME NEW c \in Conn, CloseRecvEnd(c)
      PROVE  SelectInv' /\ PartialOnlyWhileActive' /\ PairedBeforeTokens'
  BY <1>5, <1>b, <1>e, <1>f DEF CloseRecvEnd
<1>6. CASE CloseReceiver
  BY <1>6, <1>b, <1>c, <1>d DEF CloseReceiver, CleanupPartialFiles
<1>7. ASSUME NEW f \in File, StaleWatchdog(f)
      PROVE  SelectInv' /\ PartialOnlyWhileActive' /\ PairedBeforeTokens'
  BY <1>7, <1>b, <1>e, <1>f DEF StaleWatchdog
<1>8. ASSUME NEW f \in File, CheckTransferWatchdog(f)
      PROVE  SelectInv' /\ PartialOnlyWhileActive' /\ PairedBeforeTokens'
  <2>1. PairedBeforeTokens' /\ UNCHANGED <<selecting, accepting>>
    BY <1>8, <1>b DEF CheckTransferWatchdog
  <2>2. CASE IdleFor >= IdleChecks
    BY <1>8, <1>c, <1>d, <2>1, <2>2 DEF CheckTransferWatchdog, Terminate, CleanupPartialFiles, DropPeer
  <2>3. CASE ~(IdleFor >= IdleChecks)
    BY <1>8, <1>e, <1>f, <2>1, <2>3 DEF CheckTransferWatchdog
  <2> QED
    BY <2>2, <2>3
<1>9. ASSUME NEW p \in Peer, BlockExpires(p)
      PROVE  SelectInv' /\ PartialOnlyWhileActive' /\ PairedBeforeTokens'
  BY <1>9, <1>b, <1>e, <1>f DEF BlockExpires
<1> QED
  BY <1>1, <1>2, <1>3, <1>4, <1>5, <1>6, <1>7, <1>8, <1>9

\* It holds at the start, every step keeps it, and so it always holds.
LEMMA QuietInvariant == ~StaleHandlers /\ Spec => []QInv
<1>1. ~StaleHandlers /\ Init => QInv
  <2> SUFFICES ASSUME ~StaleHandlers, Init PROVE QInv
    OBVIOUS
  <2>1. BaseInv /\ AgreedInv
    BY BaseInit DEF AgreedInv, Init, WireInit
  <2> QED
    BY <2>1 DEF QInv, Init, ReceiverInit, SelectInv, PartialOnlyWhileActive, PairedBeforeTokens
<1>2. QInv /\ [Next]_vars => QInv'
  <2> SUFFICES ASSUME QInv, [Next]_vars PROVE QInv'
    OBVIOUS
  <2>0. ~StaleHandlers /\ BaseInv' /\ BaseInv /\ AgreedInv
    BY BaseStep DEF QInv
  <2>1. CASE UNCHANGED senderVars /\ (ReceiverStep \/ \E c \in Conn : ReserveSession(c))
    <3>1. SelectInv' /\ PartialOnlyWhileActive' /\ PairedBeforeTokens'
      BY <2>1, QuietFrames, QuietOthers DEF ReceiverStep
    <3> QED
      BY <2>0, <2>1, <3>1, AgreedTaken DEF QInv
  <2>2. ASSUME UNCHANGED receiverVars, paired \subseteq paired'
        PROVE  SelectInv' /\ PartialOnlyWhileActive' /\ PairedBeforeTokens'
    BY <2>2 DEF QInv, SelectInv, PartialOnlyWhileActive, PairedBeforeTokens, receiverVars, handshakeVars,
       listVars, writeVars
  <2>3. ASSUME NEW c \in Conn, SenderStep(c), UNCHANGED receiverVars
        PROVE  QInv'
    <3>1. paired \subseteq paired'
      BY <2>3, ConsentKept
    <3> QED
      BY <2>0, <2>2, <2>3, <3>1, AgreedSends DEF QInv
  <2>4. CASE UNCHANGED vars
    <3>1. UNCHANGED <<paired, toRecv, receiverVars>>
      BY <2>4 DEF vars, wireVars, senderVars
    <3> QED
      BY <2>0, <2>2, <3>1 DEF QInv, AgreedInv
  <2> QED
    BY <2>1, <2>3, <2>4 DEF Next, Offer
<1> QED
  BY <1>1, <1>2, PTL DEF Spec

\* As long as a dropped connection is silent, no path through a transfer (rejection,
\* completion, watchdog, loss of the connection, a new session) leaves a partial file or an
\* active marker behind (cleanupPartialFilesLocked, cleanupCurrentFile).
THEOREM NoPartialLeft == ~StaleHandlers /\ Spec => []PartialOnlyWhileActive
<1>1. QInv => PartialOnlyWhileActive
  BY DEF QInv
<1> QED
  BY <1>1, QuietInvariant, PTL

\* As long as a dropped connection is silent, with mandatory pairing no file gets a token
\* before the key of the session's own sender is known or its user has agreed to pair: an
\* answer without a key is accepted unverified (handleFileList, handlePairResponse).
THEOREM PairingComesFirst == ~StaleHandlers /\ Spec => []PairedBeforeTokens
<1>1. QInv => PairedBeforeTokens
  BY DEF QInv
<1> QED
  BY <1>1, QuietInvariant, PTL

-----------------------------------------------------------------------------
(* Who ends a transfer, without late handlers.                             *)

\* A file is received from the installed connection.
CurrentInv == currentFileID # None => peer # None

\* Every step keeps it.
LEMMA CurrentStep == QInv /\ CurrentInv /\ [Next]_vars => CurrentInv'
<1> SUFFICES ASSUME QInv, CurrentInv, [Next]_vars PROVE CurrentInv'
  OBVIOUS
<1> USE DEF handshakeVars, listVars, writeVars, watchVars, storeVars
<1>a. ReceiverTypeOK /\ PartialOnlyWhileActive /\ None \notin Conn
  BY WireAssumption DEF QInv, BaseInv
<1>b. ASSUME currentFileID' = None \/ UNCHANGED <<currentFileID, peer>>
      PROVE  CurrentInv'
  BY <1>b DEF CurrentInv
<1>1. ASSUME NEW c \in Conn, HandleFrame(c)
      PROVE  CurrentInv'
  <2>1. CASE HandleFileHeader(c) \/ FinishThenNext(c)
    <3>1. Incoming(c) /\ peer' = peer
      BY <2>1 DEF HandleFileHeader, FinishThenNext, FinishCurrentFile, Handle, ControlMessage, StartReceivingFile
    <3>2. peer = c
      BY <3>1, OwnFrame
    <3> QED
      BY <1>a, <3>1, <3>2 DEF CurrentInv
  <2>2. CASE PinWrong(c) \/ PairDeclined(c)
    BY <1>b, <2>2 DEF PinWrong, PairDeclined, Terminate, CleanupPartialFiles
  <2>3. CASE RejectHeader(c) \/ TooMuchData(c) \/ RejectGarbage(c)
    BY <1>b, <2>3 DEF RejectHeader, TooMuchData, RejectGarbage, RejectData, RejectFileTransfer
  <2>4. CASE FinishLast(c) \/ FinishThenReject(c) \/ FinishThenStop(c)
    BY <1>b, <2>4 DEF FinishLast, FinishThenReject, FinishThenStop, RejectFileTransfer, Terminate,
       CleanupPartialFiles
  <2>5. CASE HandleNonce(c) \/ HandleToken(c) \/ PinCorrect(c) \/ HandleFileList(c) \/ TooManyFiles(c)
             \/ EmptyList(c)
    BY <1>b, <2>5 DEF HandleNonce, HandleToken, PinCorrect, HandleFileList, TooManyFiles, EmptyList
  <2>6. CASE \/ PairAccepted(c) \/ PairUnverified(c) \/ PairFailed(c) \/ HandleBinaryData(c)
             \/ WriteGarbage(c) \/ CollectControl(c) \/ IgnoreFrame(c)
    BY <1>b, <2>6 DEF PairAccepted, PairUnverified, PairFailed, HandleBinaryData, WriteGarbage, CollectControl, IgnoreFrame
  <2> QED
    BY <1>1, <2>1, <2>2, <2>3, <2>4, <2>5, <2>6 DEF HandleFrame
<1>2. ASSUME NEW c \in Conn, FailAccept(c) \/ SelectFiles(c) \/ CloseRecvEnd(c)
      PROVE  CurrentInv'
  BY <1>2, <1>b DEF FailAccept, SelectFiles, CloseRecvEnd, receiverVars
<1>3. ASSUME NEW c \in Conn, InstallPeer(c)
      PROVE  CurrentInv'
  BY <1>3, <1>a DEF InstallPeer, CurrentInv
<1>4. ASSUME NEW c \in Conn, ReserveSession(c) \/ HandlePeerClosed(c)
      PROVE  CurrentInv'
  BY <1>4, <1>b DEF ReserveSession, HandlePeerClosed, Terminate, CleanupPartialFiles
<1>5. CASE CloseReceiver
  BY <1>5, <1>b DEF CloseReceiver, CleanupPartialFiles
<1>6. ASSUME NEW f \in File, StaleWatchdog(f) \/ CheckTransferWatchdog(f)
      PROVE  CurrentInv'
  BY <1>6, <1>b DEF StaleWatchdog, CheckTransferWatchdog, Terminate, CleanupPartialFiles
<1>7. ASSUME NEW p \in Peer, BlockExpires(p)
      PROVE  CurrentInv'
  BY <1>7, <1>b DEF BlockExpires
<1>8. CASE UNCHANGED receiverVars
  BY <1>8, <1>b DEF receiverVars
<1> QED
  BY <1>1, <1>2, <1>3, <1>4, <1>5, <1>6, <1>7, <1>8 DEF Next, Offer, ReceiverStep, vars

\* As long as a dropped connection is silent, what AcceptOffer promises holds: a second
\* offer, a late callback or the watchdog of an earlier transfer never tears down a
\* transfer.  So the late handlers are what breaks it.
THEOREM NeverTornDown == ~StaleHandlers /\ Spec => NoTeardown
<1> DEFINE Ends == currentFileID # None /\ currentFileID' = None =>
                      \/ toRecv'[session] # toRecv[session]
                      \/ recvEnd'[session] # recvEnd[session] /\ toRecv' = toRecv
<1>1. Init => CurrentInv
  BY DEF Init, ReceiverInit, CurrentInv
<1>2. QInv /\ CurrentInv /\ [Next]_vars => [Ends]_vars
  <2> SUFFICES ASSUME QInv, CurrentInv, Next, currentFileID # None, currentFileID' = None
               PROVE  \/ toRecv'[session] # toRecv[session]
                      \/ recvEnd'[session] # recvEnd[session] /\ toRecv' = toRecv
    OBVIOUS
  <2> USE DEF handshakeVars, listVars, writeVars, watchVars, storeVars
  <2>a. /\ peer \in Conn /\ session = peer /\ recvEnd[session] = "open" /\ accepting = None
        /\ toRecv \in [Conn -> Seq(ToRecvFrame)] /\ recvEnd \in [Conn -> {"none", "open", "dropped", "closed"}]
        /\ state = "receivingFiles"
    BY WireAssumption DEF CurrentInv, QInv, BaseInv, WTypes, WireTypeOK, ReceiverTypeOK, RCore, EndsInv,
       PartialOnlyWhileActive
  <2>b. ASSUME DropPeer
        PROVE  recvEnd'[session] # recvEnd[session]
    BY <2>a, <2>b, WireAssumption DEF DropPeer
  <2>c. currentFileID' # currentFileID
    OBVIOUS
  <2>1. ASSUME NEW c \in Conn, Incoming(c)
        PROVE  toRecv'[session] # toRecv[session]
    <3>1. session = c
      BY <2>1, OwnFrame
    <3>2. toRecv[c] # <<>> /\ toRecv[c] \in Seq(ToRecvFrame) /\ toRecv'[c] = Tail(toRecv[c])
      BY <2>1, <2>a DEF Incoming
    <3>3. Len(Tail(toRecv[c])) = Len(toRecv[c]) - 1 /\ Len(toRecv[c]) \in Nat
      BY <3>2, TailAt
    <3>4. Len(toRecv[c]) - 1 # Len(toRecv[c])
      BY <3>3
    <3>5. Tail(toRecv[c]) # toRecv[c]
      BY <3>3, <3>4, Zenon
    <3> QED
      BY <3>1, <3>2, <3>5
  <2>2. ASSUME NEW c \in Conn, HandleFrame(c)
        PROVE  Incoming(c)
    BY <2>2, HandledIsIncoming
  <2>3. ASSUME NEW c \in Conn
        PROVE  ~ReserveSession(c)
    BY <2>a, WireAssumption DEF ReserveSession
  <2>4. ASSUME NEW c \in Conn
        PROVE  ~FailAccept(c) /\ ~InstallPeer(c) /\ ~SelectFiles(c) /\ ~CloseRecvEnd(c)
    BY <2>c DEF FailAccept, InstallPeer, SelectFiles, CloseRecvEnd, receiverVars
  <2>5. ASSUME NEW c \in Conn, HandlePeerClosed(c)
        PROVE  recvEnd'[session] # recvEnd[session] /\ toRecv' = toRecv
    BY <2>5, <2>b DEF HandlePeerClosed, Terminate
  <2>6. CASE CloseReceiver
    BY <2>6, <2>a, WireAssumption DEF CloseReceiver
  <2>7. ASSUME NEW f \in File, StaleWatchdog(f) \/ CheckTransferWatchdog(f)
        PROVE  recvEnd'[session] # recvEnd[session] /\ toRecv' = toRecv
    <3>1. CheckTransferWatchdog(f) /\ IdleFor >= IdleChecks
      BY <2>7, <2>c DEF StaleWatchdog, CheckTransferWatchdog
    <3> QED
      BY <2>b, <3>1 DEF CheckTransferWatchdog, Terminate
  <2>8. ASSUME NEW p \in Peer
        PROVE  ~BlockExpires(p)
    BY <2>c DEF BlockExpires
  <2>9. ~UNCHANGED receiverVars
    BY <2>c DEF receiverVars
  <2> QED
    BY <2>1, <2>2, <2>3, <2>4, <2>5, <2>6, <2>7, <2>8, <2>9 DEF Next, Offer, ReceiverStep
<1> QED
  BY <1>1, <1>2, CurrentStep, QuietInvariant, PTL DEF Spec, NoTeardown, Ends

-----------------------------------------------------------------------------
(* The pipeline of one connection, without late handlers.  Every header    *)
(* after the first, and the final delimiter, ends the file before it and   *)
(* is answered by one acknowledgement.                                     *)

Quiet(q) == \A i \in 1 .. Len(q) : q[i].t # "resp"

NoAck(c) == Quiet(toSend[c]) /\ resultCh[c] = None

\* At most one acknowledgement waits to be taken.
Once(q) == \A i, j \in 1 .. Len(q) : q[i].t = "resp" /\ q[j].t = "resp" => i = j

OneAck(c) == Once(toSend[c]) /\ (resultCh[c] # None => Quiet(toSend[c]))

\* How many text frames follow the first header.
NoHeader(q) == \A i \in 1 .. Len(q) : q[i].t # "header"

OnlyData(q) == \A i \in 1 .. Len(q) : Binary(q[i])

OneText(q) == \A i, j \in 1 .. Len(q) : ~Binary(q[i]) /\ ~Binary(q[j]) => i = j

DataFollows(q) ==
    \A i, j \in 1 .. Len(q) : i < j /\ q[i].t = "header" => Binary(q[j])

OneTextFollows(q) ==
    \A i, j, k \in 1 .. Len(q) :
        i < j /\ i < k /\ q[i].t = "header" /\ ~Binary(q[j]) /\ ~Binary(q[k]) => j = k

\* The receiver is writing a file of connection c.
Writing(c) == peer = c /\ currentFileID # None

\* Before the first header nothing is to be acknowledged; while data is sent there is
\* nothing to end a file with, unless its own header has not been handled yet; while an
\* acknowledgement is awaited there is one frame to end the file or one acknowledgement.
PipeOne(c) ==
    /\ main[c] \in {"waitAnswer", "waitAccept", "queue"} =>
          NoAck(c) /\ NoHeader(toRecv[c]) /\ ~Writing(c)
    /\ main[c] = "data" =>
          /\ NoAck(c)
          /\ peer = c => IF Writing(c) THEN OnlyData(toRecv[c]) ELSE DataFollows(toRecv[c])
    /\ main[c] = "waitAck" =>
          /\ OneAck(c)
          /\ Writing(c) => OneText(toRecv[c]) /\ (NoAck(c) \/ OnlyData(toRecv[c]))
          /\ peer = c /\ ~Writing(c) => NoAck(c) /\ OneTextFollows(toRecv[c])

\* A command is past its offer only when the offer was taken up, and it sends files only
\* when its handshake is over.
PhaseOne(c) ==
    /\ recvEnd[c] = "none" => main[c] \in {"waitAnswer", "failed"}
    /\ main[c] = "waitAnswer" => sstate[c] \in {"init", "done"} /\ acceptedCh[c] = None
    /\ \/ acceptedCh[c] # None
       \/ main[c] \in {"queue", "data", "waitAck", "flush", "success"}
       => sstate[c] \in {"sendingFiles", "done"}

PipeInv == dropped = {} /\ \A c \in Conn : PipeOne(c) /\ PhaseOne(c)

\* What is left of a queue after one of its frames is taken, or all are lost.
Behind(p, q) == p = q \/ p = <<>> \/ (q # <<>> /\ p = Tail(q))

\* It has no more of anything than the queue had.
LEMMA FewerFrames ==
    ASSUME NEW S, NEW q \in Seq(S), NEW p, Behind(p, q)
    PROVE  /\ Quiet(q) => Quiet(p)
           /\ Once(q) => Once(p)
           /\ NoHeader(q) => NoHeader(p)
           /\ OnlyData(q) => OnlyData(p)
           /\ OneText(q) => OneText(p)
           /\ DataFollows(q) => DataFollows(p)
           /\ OneTextFollows(q) => OneTextFollows(p)
<1>1. /\ p \in Seq(S) /\ Len(p) \in Nat /\ Len(q) \in Nat
      /\ \E k \in Nat : \A i \in 1 .. Len(p) : i + k \in 1 .. Len(q) /\ p[i] = q[i + k]
  <2>1. CASE p = q
    <3>1. \A i \in 1 .. Len(p) : i + 0 \in 1 .. Len(q) /\ p[i] = q[i + 0]
      BY <2>1
    <3> QED
      BY <2>1, <3>1
  <2>2. CASE p = <<>>
    <3>1. \A i \in 1 .. Len(p) : i + 0 \in 1 .. Len(q) /\ p[i] = q[i + 0]
      BY <2>2
    <3> QED
      BY <2>2, <3>1
  <2>3. CASE q # <<>> /\ p = Tail(q)
    <3>1. /\ p \in Seq(S) /\ Len(p) \in Nat /\ Len(q) \in Nat
          /\ \A i \in 1 .. Len(p) : i + 1 \in 1 .. Len(q) /\ p[i] = q[i + 1]
      BY <2>3, TailAt
    <3>2. \E k \in Nat : \A i \in 1 .. Len(p) : i + k \in 1 .. Len(q) /\ p[i] = q[i + k]
      <4> WITNESS 1 \in Nat
      <4> QED
        BY <3>1
    <3> QED
      BY <3>1, <3>2
  <2> QED
    BY <2>1, <2>2, <2>3 DEF Behind
<1>2. PICK k \in Nat : \A i \in 1 .. Len(p) : i + k \in 1 .. Len(q) /\ p[i] = q[i + k]
  BY <1>1
<1>3. Quiet(q) => Quiet(p)
  BY <1>2 DEF Quiet
<1>4. NoHeader(q) => NoHeader(p)
  BY <1>2 DEF NoHeader
<1>5. OnlyData(q) => OnlyData(p)
  BY <1>2 DEF OnlyData
<1>6. \A i, j \in 1 .. Len(p) : (i + k = j + k => i = j) /\ (i < j => i + k < j + k)
  BY <1>1
<1>7. Once(q) => Once(p)
  <2> SUFFICES ASSUME Once(q), NEW i \in 1 .. Len(p), NEW j \in 1 .. Len(p),
                      p[i].t = "resp", p[j].t = "resp"
               PROVE  i = j
    BY DEF Once
  <2>1. i + k \in 1 .. Len(q) /\ j + k \in 1 .. Len(q) /\ q[i + k].t = "resp" /\ q[j + k].t = "resp"
    BY <1>2
  <2> QED
    BY <1>6, <2>1 DEF Once
<1>8. OneText(q) => OneText(p)
  <2> SUFFICES ASSUME OneText(q), NEW i \in 1 .. Len(p), NEW j \in 1 .. Len(p),
                      ~Binary(p[i]), ~Binary(p[j])
               PROVE  i = j
    BY DEF OneText
  <2>1. i + k \in 1 .. Len(q) /\ j + k \in 1 .. Len(q) /\ ~Binary(q[i + k]) /\ ~Binary(q[j + k])
    BY <1>2
  <2> QED
    BY <1>6, <2>1 DEF OneText
<1>9. DataFollows(q) => DataFollows(p)
  <2> SUFFICES ASSUME DataFollows(q), NEW i \in 1 .. Len(p), NEW j \in 1 .. Len(p),
                      i < j, p[i].t = "header"
               PROVE  Binary(p[j])
    BY DEF DataFollows
  <2>1. /\ i + k \in 1 .. Len(q) /\ j + k \in 1 .. Len(q) /\ q[i + k].t = "header"
        /\ p[j] = q[j + k] /\ i + k < j + k
    BY <1>2, <1>6
  <2> QED
    BY <2>1 DEF DataFollows
<1>10. OneTextFollows(q) => OneTextFollows(p)
  <2> SUFFICES ASSUME OneTextFollows(q),
                      NEW i \in 1 .. Len(p), NEW j \in 1 .. Len(p), NEW l \in 1 .. Len(p),
                      i < j, i < l, p[i].t = "header", ~Binary(p[j]), ~Binary(p[l])
               PROVE  j = l
    BY DEF OneTextFollows
  <2>1. /\ i + k \in 1 .. Len(q) /\ j + k \in 1 .. Len(q) /\ l + k \in 1 .. Len(q)
        /\ q[i + k].t = "header" /\ ~Binary(q[j + k]) /\ ~Binary(q[l + k])
        /\ i + k < j + k /\ i + k < l + k
    BY <1>2, <1>6
  <2>2. j + k = l + k
    BY <2>1 DEF OneTextFollows
  <2> QED
    BY <1>6, <2>2
<1> QED
  BY <1>3, <1>4, <1>5, <1>7, <1>8, <1>9, <1>10

\* After the only acknowledgement is taken there is none; after the first header is taken
\* follows what was to follow it, and after the only text no text.
LEMMA FirstTaken ==
    ASSUME NEW S, NEW q \in Seq(S), q # <<>>
    PROVE  /\ Head(q).t = "resp" => ~Quiet(q) /\ (Once(q) => Quiet(Tail(q)))
           /\ Head(q).t = "header" =>
                 /\ ~NoHeader(q)
                 /\ DataFollows(q) => OnlyData(Tail(q))
                 /\ OneTextFollows(q) => OneText(Tail(q))
           /\ ~Binary(Head(q)) => ~OnlyData(q) /\ (OneText(q) => OnlyData(Tail(q)))
<1>1. /\ Head(q) = q[1] /\ Len(q) \in Nat \ {0} /\ Len(Tail(q)) = Len(q) - 1
      /\ \A i \in 1 .. Len(Tail(q)) : i + 1 \in 1 .. Len(q) /\ Tail(q)[i] = q[i + 1]
  BY TailAt
<1>2. 1 \in 1 .. Len(q)
  BY <1>1
<1>3. \A i \in 1 .. Len(Tail(q)) : i + 1 # 1 /\ 1 < i + 1
  BY <1>1
<1>4. ASSUME Head(q).t = "resp"
      PROVE  ~Quiet(q) /\ (Once(q) => Quiet(Tail(q)))
  <2>1. ~Quiet(q)
    BY <1>1, <1>2, <1>4 DEF Quiet
  <2>2. ASSUME Once(q), NEW i \in 1 .. Len(Tail(q)), Tail(q)[i].t = "resp"
        PROVE  FALSE
    <3>1. q[1].t = "resp" /\ q[i + 1].t = "resp" /\ i + 1 \in 1 .. Len(q)
      BY <1>1, <1>4, <2>2
    <3>2. i + 1 = 1
      BY <1>2, <2>2, <3>1 DEF Once
    <3> QED
      BY <1>3, <3>2
  <2> QED
    BY <2>1, <2>2 DEF Quiet
<1>5. ASSUME Head(q).t = "header"
      PROVE  /\ ~NoHeader(q)
             /\ DataFollows(q) => OnlyData(Tail(q))
             /\ OneTextFollows(q) => OneText(Tail(q))
  <2>1. ~NoHeader(q)
    BY <1>1, <1>2, <1>5 DEF NoHeader
  <2>2. ASSUME DataFollows(q), NEW i \in 1 .. Len(Tail(q))
        PROVE  Binary(Tail(q)[i])
    <3>1. q[1].t = "header" /\ 1 < i + 1 /\ i + 1 \in 1 .. Len(q) /\ Tail(q)[i] = q[i + 1]
      BY <1>1, <1>3, <1>5
    <3> QED
      BY <1>2, <2>2, <3>1 DEF DataFollows
  <2>3. ASSUME OneTextFollows(q), NEW i \in 1 .. Len(Tail(q)), NEW j \in 1 .. Len(Tail(q)),
               ~Binary(Tail(q)[i]), ~Binary(Tail(q)[j])
        PROVE  i = j
    <3>1. /\ q[1].t = "header" /\ 1 < i + 1 /\ i + 1 \in 1 .. Len(q) /\ ~Binary(q[i + 1])
          /\ 1 < j + 1 /\ j + 1 \in 1 .. Len(q) /\ ~Binary(q[j + 1])
      BY <1>1, <1>3, <1>5, <2>3
    <3>2. i + 1 = j + 1
      BY <1>2, <2>3, <3>1 DEF OneTextFollows
    <3> QED
      BY <3>2
  <2> QED
    BY <2>1, <2>2, <2>3 DEF OnlyData, OneText
<1>6. ASSUME ~Binary(Head(q))
      PROVE  ~OnlyData(q) /\ (OneText(q) => OnlyData(Tail(q)))
  <2>1. ~OnlyData(q)
    BY <1>1, <1>2, <1>6 DEF OnlyData
  <2>2. ASSUME OneText(q), NEW i \in 1 .. Len(Tail(q)), ~Binary(Tail(q)[i])
        PROVE  FALSE
    <3>1. ~Binary(q[1]) /\ ~Binary(q[i + 1]) /\ i + 1 \in 1 .. Len(q)
      BY <1>1, <1>6, <2>2
    <3>2. i + 1 = 1
      BY <1>2, <2>2, <3>1 DEF OneText
    <3> QED
      BY <1>3, <3>2
  <2> QED
    BY <2>1, <2>2 DEF OnlyData
<1> QED
  BY <1>4, <1>5, <1>6

\* What a queue has after one more frame is sent.
LEMMA MoreFrames ==
    ASSUME NEW S, NEW q \in Seq(S), NEW ms \in Seq(S)
    PROVE  /\ Quiet(q) /\ Quiet(ms) => Quiet(q \o ms)
           /\ Once(q) /\ Quiet(ms) => Once(q \o ms)
           /\ NoHeader(q) /\ NoHeader(ms) => NoHeader(q \o ms)
           /\ OnlyData(q) /\ OnlyData(ms) => OnlyData(q \o ms)
           /\ DataFollows(q) /\ OnlyData(ms) => DataFollows(q \o ms)
           /\ Len(ms) = 1 => /\ Quiet(q) => Once(q \o ms)
                             /\ NoHeader(q) => DataFollows(q \o ms)
                             /\ OnlyData(q) => OneText(q \o ms)
                             /\ DataFollows(q) => OneTextFollows(q \o ms)
<1>1. /\ Len(q) \in Nat /\ Len(ms) \in Nat /\ Len(q \o ms) = Len(q) + Len(ms)
      /\ \A i \in 1 .. Len(q) : (q \o ms)[i] = q[i]
      /\ \A i \in 1 .. Len(q \o ms) :
            i \in 1 .. Len(q) \/ (i - Len(q) \in 1 .. Len(ms) /\ (q \o ms)[i] = ms[i - Len(q)])
  BY ConcatAt
<1> DEFINE r == q \o ms
<1> HIDE DEF r
<1>2. /\ \A i \in 1 .. Len(q) : r[i] = q[i]
      /\ \A i \in 1 .. Len(r) :
            i \in 1 .. Len(q) \/ (i - Len(q) \in 1 .. Len(ms) /\ r[i] = ms[i - Len(q)])
      /\ Len(r) = Len(q) + Len(ms)
  BY <1>1 DEF r
<1>3. Quiet(q) /\ Quiet(ms) => Quiet(r)
  BY <1>2 DEF Quiet
<1>4. NoHeader(q) /\ NoHeader(ms) => NoHeader(r)
  BY <1>2 DEF NoHeader
<1>5. OnlyData(q) /\ OnlyData(ms) => OnlyData(r)
  BY <1>2 DEF OnlyData
<1>6. ASSUME DataFollows(q), OnlyData(ms), NEW i \in 1 .. Len(r), NEW j \in 1 .. Len(r), i < j,
             r[i].t = "header"
      PROVE  Binary(r[j])
  <2>1. CASE j \in 1 .. Len(q)
    <3>1. i \in 1 .. Len(q)
      BY <1>1, <1>6, <2>1
    <3> QED
      BY <1>2, <1>6, <2>1, <3>1 DEF DataFollows
  <2>2. CASE j \notin 1 .. Len(q)
    BY <1>2, <1>6, <2>2 DEF OnlyData
  <2> QED
    BY <2>1, <2>2
<1>7. ASSUME Len(ms) = 1
      PROVE  \A i \in 1 .. Len(r) : i \in 1 .. Len(q) \/ i = Len(r)
  BY <1>1, <1>2, <1>7
<1>8. ASSUME Len(ms) = 1, Quiet(q)
      PROVE  Once(r)
  <2>1. \A i \in 1 .. Len(r) : r[i].t = "resp" => i = Len(r)
    BY <1>2, <1>7, <1>8 DEF Quiet
  <2> QED
    BY <2>1 DEF Once
<1>9. ASSUME Len(ms) = 1, NoHeader(q)
      PROVE  DataFollows(r)
  <2>1. \A i \in 1 .. Len(r) : r[i].t = "header" => i = Len(r)
    BY <1>2, <1>7, <1>9 DEF NoHeader
  <2> QED
    BY <1>1, <1>2, <2>1 DEF DataFollows
<1>10. ASSUME Len(ms) = 1, OnlyData(q)
       PROVE  OneText(r)
  <2>1. \A i \in 1 .. Len(r) : ~Binary(r[i]) => i = Len(r)
    BY <1>2, <1>7, <1>10 DEF OnlyData
  <2> QED
    BY <2>1 DEF OneText
<1>11. ASSUME Len(ms) = 1, DataFollows(q)
       PROVE  OneTextFollows(r)
  <2>1. ASSUME NEW i \in 1 .. Len(r), NEW j \in 1 .. Len(r), i < j, r[i].t = "header", ~Binary(r[j])
        PROVE  j = Len(r)
    <3>1. CASE j \in 1 .. Len(q)
      <4>1. i \in 1 .. Len(q)
        BY <1>1, <2>1, <3>1
      <4> QED
        BY <1>2, <1>11, <2>1, <3>1, <4>1 DEF DataFollows
    <3> QED
      BY <1>7, <1>11, <3>1
  <2> QED
    BY <2>1 DEF OneTextFollows
<1>12. ASSUME Once(q), Quiet(ms)
       PROVE  Once(r)
  <2>1. \A i \in 1 .. Len(r) : r[i].t = "resp" => i \in 1 .. Len(q) /\ q[i].t = "resp"
    BY <1>2, <1>12 DEF Quiet
  <2> QED
    BY <1>12, <2>1 DEF Once
<1> QED
  BY <1>3, <1>4, <1>5, <1>6, <1>8, <1>9, <1>10, <1>11, <1>12 DEF DataFollows, r

\* The acknowledgements that wait for c are no more than before.
NoMoreAcks(c) == (Quiet(toSend[c]) => Quiet(toSend'[c])) /\ (Once(toSend[c]) => Once(toSend'[c]))

\* Weaker forms of what may follow.
LEMMA FewTexts ==
    ASSUME NEW q
    PROVE  /\ Quiet(q) => Once(q)
           /\ OnlyData(q) => OneText(q)
           /\ DataFollows(q) => OneTextFollows(q)
           /\ Quiet(<<>>)
BY DEF Quiet, Once, OnlyData, OneText, DataFollows, OneTextFollows

\* A connection on which nothing is sent keeps its pipeline.
LEMMA PipeKept ==
    ASSUME NEW S, NEW c \in Conn, PipeOne(c), toRecv[c] \in Seq(S),
           Behind(toRecv'[c], toRecv[c]), NoMoreAcks(c),
           main'[c] = main[c], resultCh'[c] = resultCh[c],
           peer' = c => peer = c /\ (currentFileID' = None <=> currentFileID = None)
    PROVE  PipeOne(c)'
<1>1. /\ NoHeader(toRecv[c]) => NoHeader(toRecv'[c])
      /\ OnlyData(toRecv[c]) => OnlyData(toRecv'[c])
      /\ OneText(toRecv[c]) => OneText(toRecv'[c])
      /\ DataFollows(toRecv[c]) => DataFollows(toRecv'[c])
      /\ OneTextFollows(toRecv[c]) => OneTextFollows(toRecv'[c])
  BY FewerFrames
<1>2. (NoAck(c) => NoAck(c)') /\ (OneAck(c) => OneAck(c)')
  BY DEF NoMoreAcks, NoAck, OneAck
<1>3. peer' = c => peer = c /\ (Writing(c)' <=> Writing(c))
  BY DEF Writing
<1>4. Writing(c)' => peer' = c
  BY DEF Writing
<1> QED
  BY <1>1, <1>2, <1>3, <1>4 DEF PipeOne

\* A reply that is no acknowledgement adds none.
LEMMA AfterReply ==
    ASSUME ToSendOK, peer \in Conn \cup {None}, NEW ms \in Seq(ToSendFrame), Quiet(ms), Reply(ms),
           NEW d \in Conn
    PROVE  NoMoreAcks(d)
<1>1. CASE toSend'[d] = toSend[d]
  BY <1>1 DEF NoMoreAcks
<1>2. CASE toSend'[d] # toSend[d]
  <2>1. toSend[d] \in Seq(ToSendFrame) /\ toSend'[d] = toSend[d] \o ms
    BY <1>2 DEF ToSendOK, Reply
  <2> QED
    BY <2>1, MoreFrames DEF NoMoreAcks
<1> QED
  BY <1>1, <1>2

\* Replies during the handshake are none.
LEMMA QuietReplies ==
    /\ \A d \in Conn : Quiet(<<NonceMsg(d)>>)
    /\ \A st \in {"OK", "PIN_REQUIRED", "TOO_MANY_ATTEMPTS"} : \A n \in Nonce \cup {None} :
          Quiet(<<Status(st, n)>>)
    /\ \A st \in {"OK", "PAIR", "DECLINED"} : \A F \in SUBSET File : Quiet(<<Answer(st, F), Delimiter>>)
BY DEF Quiet, NonceMsg, Status, Answer, Delimiter

\* What PipeOne needs of the receiver's step.
PlainStep ==
    /\ \A d \in Conn : Behind(toRecv'[d], toRecv[d]) /\ NoMoreAcks(d)
    /\ peer' \in {peer, None}
    /\ peer' = None \/ (currentFileID' = None <=> currentFileID = None)

\* The ends of connections that were never installed.
EndsStay == \A d \in Conn : recvEnd'[d] = "none" => recvEnd[d] = "none"

\* A plain step of the receiver keeps the pipelines.
LEMMA PlainKeeps ==
    ASSUME BaseInv, PipeInv, UNCHANGED senderVars, EndsStay, PlainStep
    PROVE  PipeInv'
<1>1. ASSUME NEW d \in Conn
      PROVE  PipeOne(d)' /\ PhaseOne(d)'
  <2>1. toRecv[d] \in Seq(ToRecvFrame) /\ PipeOne(d) /\ PhaseOne(d) /\ d # None
    BY WireAssumption DEF BaseInv, WTypes, WireTypeOK, PipeInv
  <2>2. main' = main /\ resultCh' = resultCh /\ acceptedCh' = acceptedCh /\ sstate' = sstate
    BY DEF senderVars
  <2>3. peer' = d => peer = d /\ (currentFileID' = None <=> currentFileID = None)
    BY <2>1 DEF PlainStep
  <2>4. PipeOne(d)'
    BY <2>1, <2>2, <2>3, PipeKept DEF PlainStep
  <2>5. PhaseOne(d)'
    BY <2>1, <2>2 DEF PhaseOne, EndsStay
  <2> QED
    BY <2>4, <2>5
<1> QED
  BY <1>1 DEF PipeInv, senderVars

\* The receiver drops its connection only if there is one.
LEMMA DropStays == WTypes /\ DropPeer => EndsStay /\ peer' = None
BY DEF DropPeer, EndsStay, WTypes, WireTypeOK

\* Every handler takes a frame.
LEMMA FrameTaken ==
    ASSUME NEW c \in Conn, HandleFrame(c)
    PROVE  Incoming(c) /\ (EndsStay \/ DropPeer \/ recvEnd' = recvEnd)
<1> USE DEF Handle, ControlMessage, Terminate
<1>1. CASE \/ HandleNonce(c) \/ HandleToken(c) \/ PinCorrect(c) \/ PinWrong(c) \/ HandleFileList(c)
           \/ TooManyFiles(c) \/ EmptyList(c) \/ PairAccepted(c) \/ PairUnverified(c)
           \/ PairDeclined(c) \/ PairFailed(c)
  BY <1>1 DEF HandleNonce, HandleToken, PinCorrect, PinWrong, HandleFileList, TooManyFiles, EmptyList,
     PairAccepted, PairUnverified, PairDeclined, PairFailed
<1>2. CASE \/ HandleFileHeader(c) \/ RejectHeader(c) \/ HandleBinaryData(c) \/ TooMuchData(c)
           \/ RejectGarbage(c) \/ WriteGarbage(c) \/ CollectControl(c) \/ IgnoreFrame(c)
  BY <1>2 DEF HandleFileHeader, StartReceivingFile, RejectHeader, HandleBinaryData, TooMuchData,
     RejectGarbage, WriteGarbage, GarbageAsData, RejectData, RejectFileTransfer, CollectControl, IgnoreFrame
<1>3. CASE FinishLast(c) \/ FinishThenNext(c) \/ FinishThenReject(c) \/ FinishThenStop(c)
  BY <1>3 DEF FinishLast, FinishThenNext, FinishThenReject, FinishThenStop, FinishCurrentFile,
     StartReceivingFile, RejectFileTransfer
<1> QED
  BY <1>1, <1>2, <1>3 DEF HandleFrame

\* The frames of files move the pipeline on.
LEMMA PipeFiles ==
    ASSUME QInv, PipeInv, UNCHANGED senderVars, NEW c \in Conn,
           \/ HandleFileHeader(c)
           \/ FinishLast(c) \/ FinishThenNext(c) \/ FinishThenReject(c) \/ FinishThenStop(c)
    PROVE  PipeInv'
<1> USE WireAssumption
<1>a. Incoming(c) /\ peer = c /\ FieldsOf(Frame(c), c) /\ EndsStay
  <2>1. Incoming(c) /\ (EndsStay \/ DropPeer \/ recvEnd' = recvEnd)
    BY FrameTaken DEF HandleFrame
  <2>2. EndsStay
    BY <2>1, DropStays DEF EndsStay, QInv, BaseInv
  <2> QED
    BY <2>1, <2>2, OwnFrame
<1>b. /\ toRecv[c] \in Seq(ToRecvFrame) /\ toRecv[c] # <<>> /\ Frame(c) = Head(toRecv[c])
      /\ toRecv' = [toRecv EXCEPT ![c] = Tail(toRecv[c])] /\ toRecv'[c] = Tail(toRecv[c])
      /\ toRecv \in [Conn -> Seq(ToRecvFrame)] /\ toSend[c] \in Seq(ToSendFrame) /\ ToSendOK
  BY <1>a DEF Incoming, Frame, QInv, BaseInv, WTypes, WireTypeOK, ToSendOK
<1>c. main' = main /\ resultCh' = resultCh /\ acceptedCh' = acceptedCh /\ sstate' = sstate /\ dropped' = dropped
  BY DEF senderVars
<1>d. PipeOne(c) /\ dropped = {}
  BY DEF PipeInv
<1>1. PipeOne(c)'
  <2>1. CASE HandleFileHeader(c)
    <3>1. state = "waitFiles" /\ ControlMessage(c) /\ Message(c).t = "header"
      BY <2>1 DEF HandleFileHeader, Handle, Expected, QInv, BaseInv, ReceiverTypeOK, State
    <3>2. Frame(c) = Header(Message(c).file)
      BY <1>a, <3>1, MessageFields DEF MessageIs, ControlMessage, QInv, BaseInv
    <3>3. currentFileID = None
      BY <3>1 DEF QInv, PartialOnlyWhileActive
    <3>4. Head(toRecv[c]).t = "header"
      BY <1>b, <3>2 DEF Header
    <3>5. /\ ~NoHeader(toRecv[c])
          /\ DataFollows(toRecv[c]) => OnlyData(toRecv'[c])
          /\ OneTextFollows(toRecv[c]) => OneText(toRecv'[c])
      BY <1>b, <3>4, FirstTaken
    <3>6. peer' = c /\ currentFileID' # None /\ toSend' = toSend
      BY <1>a, <2>1 DEF HandleFileHeader, StartReceivingFile, QInv, BaseInv, ReceiverTypeOK
    <3>7. Writing(c)' /\ ~Writing(c)
      BY <3>3, <3>6 DEF Writing
    <3>8. (NoAck(c)' <=> NoAck(c)) /\ (OneAck(c)' <=> OneAck(c))
      BY <1>c, <3>6 DEF NoAck, OneAck
    <3> QED
      BY <1>a, <1>c, <1>d, <3>5, <3>7, <3>8 DEF PipeOne
  <2>2. CASE FinishLast(c) \/ FinishThenNext(c) \/ FinishThenReject(c) \/ FinishThenStop(c)
    <3>1. FinishCurrentFile(c)
      BY <2>2 DEF FinishLast, FinishThenNext, FinishThenReject, FinishThenStop
    <3>2. Writing(c) /\ ~Binary(Head(toRecv[c])) /\ currentFileID \in File
      BY <1>a, <1>b, <3>1 DEF FinishCurrentFile, Receiving, Writing, QInv, BaseInv, ReceiverTypeOK
    <3>3. ~OnlyData(toRecv[c]) /\ (OneText(toRecv[c]) => OnlyData(toRecv'[c]))
      BY <1>b, <3>2, FirstTaken
    <3>4. main[c] \notin {"waitAnswer", "waitAccept", "queue", "data"}
      BY <1>a, <1>d, <3>2, <3>3 DEF PipeOne
    <3>5. CASE main[c] # "waitAck"
      BY <1>c, <3>4, <3>5 DEF PipeOne
    <3>6. CASE main[c] = "waitAck"
      <4>1. NoAck(c) /\ OnlyData(toRecv'[c]) /\ OneText(toRecv'[c])
        BY <1>d, <3>2, <3>3, <3>6, FewTexts DEF PipeOne
      <4>2. Once(toSend'[c])
        <5>1. PICK ok \in BOOLEAN : Reply(Acknowledge(currentFileID, ok))
          BY <3>1 DEF FinishCurrentFile, Success, DiskOutcome
        <5>2. CASE toSend'[c] = toSend[c]
          BY <4>1, <5>2, FewTexts DEF NoAck
        <5>3. CASE toSend'[c] # toSend[c]
          <6>1. toSend'[c] = toSend[c] \o <<FileResponse(currentFileID, ok)>>
            BY <1>b, <5>1, <5>3 DEF Reply, ToSendOK, Acknowledge
          <6>2. <<FileResponse(currentFileID, ok)>> \in Seq(ToSendFrame)
            BY <3>2, <5>1, Replyable
          <6>3. Len(<<FileResponse(currentFileID, ok)>>) = 1
            OBVIOUS
          <6>4. ASSUME NEW ms \in Seq(ToSendFrame), Len(ms) = 1
                PROVE  Once(toSend[c] \o ms)
            BY <1>b, <4>1, <6>4, MoreFrames DEF NoAck
          <6> QED
            BY <6>1, <6>2, <6>3, <6>4
        <5> QED
          BY <5>2, <5>3
      <4>3. OneAck(c)'
        BY <1>c, <4>1, <4>2 DEF OneAck, NoAck
      <4>4. peer' = c => Writing(c)'
        BY <2>2 DEF FinishLast, FinishThenNext, FinishThenReject, FinishThenStop, RejectFileTransfer,
           Terminate, DropPeer, StartReceivingFile, Writing, QInv, BaseInv, ReceiverTypeOK
      <4> QED
        BY <1>c, <3>6, <4>1, <4>3, <4>4 DEF PipeOne
    <3> QED
      BY <3>5, <3>6
  <2> QED
    BY <2>1, <2>2
<1>2. ASSUME NEW d \in Conn, d # c
      PROVE  PipeOne(d)'
  <2>1. toRecv'[d] = toRecv[d] /\ toSend'[d] = toSend[d]
    <3>1. ASSUME FinishCurrentFile(c)
          PROVE  toSend'[d] = toSend[d]
      BY <1>a, <1>b, <1>2, <3>1 DEF FinishCurrentFile, Reply, ToSendOK
    <3> QED
      BY <1>b, <1>2, <3>1 DEF HandleFileHeader, FinishLast, FinishThenNext, FinishThenReject, FinishThenStop
  <2>2. peer' # d
    BY <1>a, <1>2 DEF HandleFileHeader, FinishLast, FinishThenNext, FinishThenReject, FinishThenStop,
       RejectFileTransfer, Terminate, DropPeer, StartReceivingFile
  <2>3. NoMoreAcks(d) /\ Behind(toRecv'[d], toRecv[d]) /\ toRecv[d] \in Seq(ToRecvFrame) /\ PipeOne(d)
    BY <1>b, <2>1 DEF NoMoreAcks, Behind, PipeInv
  <2> QED
    BY <1>c, <2>2, <2>3, PipeKept
<1>3. ASSUME NEW d \in Conn
      PROVE  PhaseOne(d)'
  BY <1>a, <1>c DEF PhaseOne, EndsStay, PipeInv
<1> QED
  BY <1>1, <1>2, <1>3, <1>c, <1>d DEF PipeInv

\* Every other handler leaves them as they are.
LEMMA PipeFrames ==
    ASSUME QInv, PipeInv, UNCHANGED senderVars, NEW c \in Conn, HandleFrame(c)
    PROVE  PipeInv'
<1> USE WireAssumption DEF handshakeVars, listVars, writeVars, watchVars, storeVars
<1>a. Incoming(c) /\ peer = c /\ session = c /\ FieldsOf(Frame(c), c) /\ EndsStay
  <2>1. Incoming(c) /\ (EndsStay \/ DropPeer \/ recvEnd' = recvEnd)
    BY FrameTaken
  <2>2. EndsStay
    BY <2>1, DropStays DEF EndsStay, QInv, BaseInv
  <2> QED
    BY <2>1, <2>2, OwnFrame
<1>b. \A d \in Conn : Behind(toRecv'[d], toRecv[d])
  BY <1>a DEF Incoming, Behind, QInv, BaseInv, WTypes, WireTypeOK
<1>c. ToSendOK /\ peer \in Conn \cup {None} /\ WTypes /\ ReceiverTypeOK
  BY DEF ToSendOK, QInv, BaseInv, WTypes, WireTypeOK, ReceiverTypeOK
<1>d. ASSUME NEW ms \in Seq(ToSendFrame), Quiet(ms), Reply(ms), UNCHANGED <<peer, currentFileID>>
      PROVE  PlainStep
  BY <1>b, <1>c, <1>d, AfterReply DEF PlainStep
<1>e. ASSUME UNCHANGED toSend, UNCHANGED <<peer, currentFileID>> \/ DropPeer
      PROVE  PlainStep
  BY <1>b, <1>e DEF PlainStep, NoMoreAcks, DropPeer
<1>f. ASSUME PlainStep
      PROVE  PipeInv'
  BY <1>a, <1>f, PlainKeeps DEF QInv
<1>g. \A t : Handle(c, t) => ControlMessage(c)
  BY DEF Handle
<1>1. CASE HandleNonce(c)
  BY <1>1, <1>a, <1>d, <1>f, Replyable, QuietReplies DEF HandleNonce
<1>2. CASE HandleToken(c)
  <2>1. finalNonce \in Nonce \cup {None}
    BY <1>c DEF ReceiverTypeOK
  <2>2. PICK st \in {"OK", "PIN_REQUIRED", "TOO_MANY_ATTEMPTS"} : Reply(<<Status(st, finalNonce)>>)
    BY <1>2 DEF HandleToken
  <2> QED
    BY <1>2, <1>d, <1>f, <2>1, <2>2, Replyable, QuietReplies DEF HandleToken
<1>3. CASE PinCorrect(c)
  BY <1>3, <1>d, <1>f, Replyable, QuietReplies DEF PinCorrect
<1>4. CASE PinWrong(c)
  <2>1. PICK st \in {"OK", "PIN_REQUIRED", "TOO_MANY_ATTEMPTS"} : Reply(<<Status(st, None)>>)
    BY <1>4 DEF PinWrong
  <2>2. \A d \in Conn : NoMoreAcks(d)
    BY <1>c, <2>1, AfterReply, Replyable, QuietReplies
  <2>3. UNCHANGED <<peer, currentFileID>> \/ DropPeer
    BY <1>4 DEF PinWrong, Terminate
  <2> QED
    BY <1>b, <1>f, <2>2, <2>3 DEF PlainStep, DropPeer
<1>5. CASE HandleFileList(c) \/ PairFailed(c)
  BY <1>5, <1>e, <1>f DEF HandleFileList, PairFailed
<1>6. CASE TooManyFiles(c) \/ EmptyList(c)
  <2>1. Reply(<<Answer("DECLINED", {}), Delimiter>>) /\ {} \in SUBSET File
    BY <1>6 DEF TooManyFiles, EmptyList
  <2> QED
    BY <1>6, <1>d, <1>f, <2>1, Replyable, QuietReplies DEF TooManyFiles, EmptyList
<1>7. CASE PairAccepted(c) \/ PairUnverified(c)
  <2>1. Reply(<<Answer("OK", PreparedFiles(acceptedIDs)), Delimiter>>) /\ PreparedFiles(acceptedIDs) \in SUBSET File
    BY <1>7, <1>c DEF PairAccepted, PairUnverified, AcceptFiles, PreparedFiles, ReceiverTypeOK
  <2> QED
    BY <1>7, <1>d, <1>f, <2>1, Replyable, QuietReplies DEF PairAccepted, PairUnverified
<1>8. CASE PairDeclined(c)
  BY <1>8, <1>e, <1>f DEF PairDeclined, Terminate
<1>9. CASE RejectHeader(c) \/ TooMuchData(c) \/ RejectGarbage(c)
  BY <1>9, <1>e, <1>f DEF RejectHeader, TooMuchData, RejectGarbage, GarbageAsData, RejectData,
     RejectFileTransfer
<1>10. CASE HandleBinaryData(c) \/ WriteGarbage(c) \/ CollectControl(c) \/ IgnoreFrame(c)
  BY <1>10, <1>e, <1>f DEF HandleBinaryData, WriteGarbage, GarbageAsData, CollectControl, IgnoreFrame
<1>11. CASE \/ HandleFileHeader(c)
            \/ FinishLast(c) \/ FinishThenNext(c) \/ FinishThenReject(c) \/ FinishThenStop(c)
  BY <1>11, PipeFiles
<1> QED
  BY <1>1, <1>2, <1>3, <1>4, <1>5, <1>6, <1>7, <1>8, <1>9, <1>10, <1>11 DEF HandleFrame

\* So do the receiver's other steps, except that a connection is installed.
LEMMA PipeOthers ==
    ASSUME QInv, PipeInv, UNCHANGED senderVars,
           \/ \E c \in Conn : \/ ReserveSession(c) \/ FailAccept(c) \/ InstallPeer(c) \/ SelectFiles(c)
                              \/ HandlePeerClosed(c) \/ CloseRecvEnd(c)
           \/ CloseReceiver
           \/ \E f \in File : StaleWatchdog(f) \/ CheckTransferWatchdog(f)
           \/ \E p \in Peer : BlockExpires(p)
    PROVE  PipeInv'
<1> USE WireAssumption DEF handshakeVars, listVars, writeVars, watchVars, storeVars, wireVars, receiverVars
<1>a. /\ ToSendOK /\ peer \in Conn \cup {None} /\ WTypes /\ ReceiverTypeOK /\ BaseInv
      /\ recvEnd \in [Conn -> {"none", "open", "dropped", "closed"}]
  BY DEF ToSendOK, QInv, BaseInv, WTypes, WireTypeOK, ReceiverTypeOK
<1>b. ASSUME UNCHANGED <<toRecv, toSend>>, EndsStay, peer' = None \/ UNCHANGED <<peer, currentFileID>>
      PROVE  PipeInv'
  BY <1>a, <1>b, PlainKeeps DEF PlainStep, Behind, NoMoreAcks
<1>c. DropPeer => EndsStay /\ peer' = None
  BY <1>a, DropStays
<1>d. UNCHANGED recvEnd => EndsStay
  BY DEF EndsStay
<1>1. ASSUME NEW c \in Conn, ReserveSession(c) \/ HandlePeerClosed(c)
      PROVE  PipeInv'
  BY <1>1, <1>b, <1>c DEF ReserveSession, HandlePeerClosed, Terminate
<1>2. ASSUME NEW c \in Conn, FailAccept(c)
      PROVE  PipeInv'
  BY <1>2, <1>a, <1>b DEF FailAccept, EndsStay
<1>3. ASSUME NEW c \in Conn, InstallPeer(c)
      PROVE  PipeInv'
  <2>1. recvEnd[c] = "none" /\ currentFileID = None /\ peer = None
    BY <1>3 DEF InstallPeer, QInv, BaseInv, RCore, EndsInv, ReservedInv
  <2>2. EndsStay /\ UNCHANGED <<toRecv, toSend, currentFileID>> /\ peer' = c
    BY <1>3, <1>a DEF InstallPeer, EndsStay
  <2>3. /\ main' = main /\ resultCh' = resultCh /\ acceptedCh' = acceptedCh /\ sstate' = sstate
        /\ dropped' = dropped
    BY DEF senderVars
  <2>4. PipeOne(c)'
    <3>1. main[c] \in {"waitAnswer", "failed"} /\ PipeOne(c)
      BY <2>1 DEF PipeInv, PhaseOne
    <3>2. (NoAck(c)' <=> NoAck(c)) /\ ~Writing(c)'
      BY <2>1, <2>2, <2>3 DEF NoAck, Writing
    <3> QED
      BY <2>2, <2>3, <3>1, <3>2 DEF PipeOne
  <2>5. ASSUME NEW d \in Conn, d # c
        PROVE  PipeOne(d)'
    <3>1. PipeOne(d) /\ toRecv[d] \in Seq(ToRecvFrame) /\ Behind(toRecv'[d], toRecv[d]) /\ NoMoreAcks(d)
      BY <1>a, <2>2 DEF WTypes, WireTypeOK, Behind, NoMoreAcks, PipeInv
    <3> QED
      BY <2>2, <2>3, <2>5, <3>1, PipeKept
  <2>6. ASSUME NEW d \in Conn
        PROVE  PhaseOne(d)'
    BY <2>2, <2>3 DEF PhaseOne, EndsStay, PipeInv
  <2> QED
    BY <2>3, <2>4, <2>5, <2>6 DEF PipeInv
<1>4. ASSUME NEW c \in Conn, SelectFiles(c)
      PROVE  PipeInv'
  <2>1. /\ \A d \in Conn : Behind(toRecv'[d], toRecv[d])
        /\ UNCHANGED <<recvEnd, peer, currentFileID>>
    BY <1>4 DEF SelectFiles, Behind
  <2>2. CASE toSend' = toSend
    BY <1>b, <1>4, <2>1, <2>2, <1>d DEF SelectFiles
  <2>3. CASE toSend' # toSend
    <3>1. PICK st \in {"OK", "PAIR", "DECLINED"}, F \in SUBSET File : Reply(<<Answer(st, F), Delimiter>>)
      BY <1>4, <1>a, <2>3 DEF SelectFiles, AcceptFiles, PreparedFiles, ReceiverTypeOK
    <3>2. \A d \in Conn : NoMoreAcks(d)
      BY <1>a, <3>1, AfterReply, Replyable, QuietReplies
    <3> QED
      BY <1>a, <1>d, <2>1, <3>2, PlainKeeps DEF PlainStep
  <2> QED
    BY <2>2, <2>3
<1>5. ASSUME NEW c \in Conn, CloseRecvEnd(c)
      PROVE  PipeInv'
  <2>1. /\ \A d \in Conn : Behind(toRecv'[d], toRecv[d]) /\ NoMoreAcks(d)
        /\ UNCHANGED <<peer, currentFileID>> /\ EndsStay
    BY <1>5, <1>a DEF CloseRecvEnd, Behind, NoMoreAcks, EndsStay, WTypes, WireTypeOK
  <2> QED
    BY <1>a, <2>1, PlainKeeps DEF PlainStep
<1>6. CASE CloseReceiver
  BY <1>6, <1>a, <1>b DEF CloseReceiver, EndsStay
<1>7. ASSUME NEW f \in File, StaleWatchdog(f) \/ CheckTransferWatchdog(f)
      PROVE  PipeInv'
  BY <1>7, <1>b, <1>c, <1>d DEF StaleWatchdog, CheckTransferWatchdog, Terminate
<1>8. ASSUME NEW p \in Peer, BlockExpires(p)
      PROVE  PipeInv'
  BY <1>8, <1>b, <1>d DEF BlockExpires
<1> QED
  BY <1>1, <1>2, <1>3, <1>4, <1>5, <1>6, <1>7, <1>8

\* After a sender has sent frames of a kind, the queue is what it was or has them at its end.
LEMMA AfterSend ==
    ASSUME ToRecvOK, NEW c \in Conn, NEW ms \in Seq(From(c)), SendFrames(c, ms)
    PROVE  /\ toRecv[c] \in Seq(From(c)) /\ toRecv'[c] \in {toRecv[c], toRecv[c] \o ms}
           /\ \A d \in Conn : d # c => toRecv'[d] = toRecv[d]
BY DEF ToRecvOK, FramesInv, SendFrames

\* So the kinds of frames in it are the old ones and the new ones.
LEMMA AfterSendKinds ==
    ASSUME ToRecvOK, NEW c \in Conn, NEW ms \in Seq(From(c)), SendFrames(c, ms)
    PROVE  /\ NoHeader(toRecv[c]) /\ NoHeader(ms) => NoHeader(toRecv'[c])
           /\ OnlyData(toRecv[c]) /\ OnlyData(ms) => OnlyData(toRecv'[c])
           /\ DataFollows(toRecv[c]) /\ OnlyData(ms) => DataFollows(toRecv'[c])
           /\ Len(ms) = 1 => /\ NoHeader(toRecv[c]) => DataFollows(toRecv'[c])
                             /\ OnlyData(toRecv[c]) => OneText(toRecv'[c])
                             /\ DataFollows(toRecv[c]) => OneTextFollows(toRecv'[c])
<1>1. toRecv[c] \in Seq(From(c)) /\ toRecv'[c] \in {toRecv[c], toRecv[c] \o ms}
  BY AfterSend
<1>2. CASE toRecv'[c] = toRecv[c]
  <2>1. NoHeader(toRecv[c]) => DataFollows(toRecv[c])
    BY DEF NoHeader, DataFollows
  <2> QED
    BY <1>2, <2>1, FewTexts
<1>3. CASE toRecv'[c] = toRecv[c] \o ms
  BY <1>1, <1>3, MoreFrames
<1> QED
  BY <1>1, <1>2, <1>3

\* A step of one sender leaves the other connections alone.
OnlyOf(c) ==
    \A d \in Conn : d # c =>
        /\ toRecv'[d] = toRecv[d] /\ toSend'[d] = toSend[d] /\ main'[d] = main[d]
        /\ resultCh'[d] = resultCh[d] /\ acceptedCh'[d] = acceptedCh[d] /\ sstate'[d] = sstate[d]

\* Their pipelines are kept.
LEMMA OthersKept ==
    ASSUME BaseInv, PipeInv, NEW c \in Conn, OnlyOf(c), UNCHANGED <<recvEnd, peer, currentFileID>>,
           NEW d \in Conn, d # c
    PROVE  PipeOne(d)' /\ PhaseOne(d)'
<1>1. /\ PipeOne(d) /\ PhaseOne(d) /\ toRecv[d] \in Seq(ToRecvFrame)
      /\ Behind(toRecv'[d], toRecv[d]) /\ NoMoreAcks(d)
  BY DEF PipeInv, OnlyOf, BaseInv, WTypes, WireTypeOK, Behind, NoMoreAcks
<1>2. PipeOne(d)'
  BY <1>1, PipeKept DEF OnlyOf
<1>3. PhaseOne(d)'
  BY <1>1 DEF PhaseOne, OnlyOf
<1> QED
  BY <1>2, <1>3

\* What a sender's step does to the queues and places of the others.
LEMMA OneSender ==
    ASSUME BaseInv, NEW c \in Conn, SenderStep(c)
    PROVE  OnlyOf(c) /\ UNCHANGED recvEnd
<1> USE DEF queueVars, wireVars, senderVars, SetState, Goto, SendFrames
<1>a. /\ toRecv \in [Conn -> Seq(ToRecvFrame)] /\ toSend \in [Conn -> Seq(ToSendFrame)]
      /\ main \in [Conn -> Main] /\ sstate \in [Conn -> SenderState]
      /\ \E S : acceptedCh \in [Conn -> S]
      /\ \E S : resultCh \in [Conn -> S]
  BY DEF BaseInv, WTypes, WireTypeOK, STypes, SenderTypeOK, PlacesTyped
<1>1. CASE AnswerArrives(c) \/ TakeAccepted(c) \/ GiveUp(c)
  BY <1>1, <1>a DEF AnswerArrives, TakeAccepted, GiveUp, OnlyOf
<1>2. CASE StartQueue(c) \/ SendChunk(c) \/ EndFile(c)
  BY <1>2, <1>a DEF StartQueue, SendChunk, EndFile, OnlyOf
<1>3. CASE TakeResult(c) \/ Flush(c) \/ CloseSender(c) \/ SenderPeerClosed(c)
  BY <1>3, <1>a DEF TakeResult, Flush, CloseSender, SenderPeerClosed, OnlyOf
<1>4. CASE SCollectControl(c) \/ HandleFileResponse(c) \/ Refused(c) \/ FilesAccepted(c) \/ SIgnoreFrame(c)
  BY <1>4, <1>a DEF SCollectControl, HandleFileResponse, Refused, FilesAccepted, SIgnoreFrame,
     SControlMessage, SIncoming, OnlyOf
<1>5. CASE HandleNonceResponse(c) \/ HandleTokenResponse(c) \/ PairRequested(c)
  BY <1>5, <1>a DEF HandleNonceResponse, HandleTokenResponse, PairRequested,
     SControlMessage, SIncoming, OnlyOf
<1> QED
  BY <1>1, <1>2, <1>3, <1>4, <1>5 DEF SenderStep, MainStep, HandlerStep

\* The steps of the command move the pipeline on.
LEMMA PipeMain ==
    ASSUME QInv, PipeInv, NEW c \in Conn, MainStep(c) \/ SenderPeerClosed(c), UNCHANGED receiverVars
    PROVE  PipeOne(c)' /\ PhaseOne(c)' /\ dropped' = dropped
<1> USE WireAssumption DEF queueVars, wireVars, senderVars
<1>a. /\ toRecv \in [Conn -> Seq(ToRecvFrame)] /\ toSend \in [Conn -> Seq(ToSendFrame)] /\ ToRecvOK
      /\ main \in [Conn -> Main] /\ sstate \in [Conn -> SenderState]
      /\ \E S : acceptedCh \in [Conn -> S]
      /\ \E S : resultCh \in [Conn -> S]
      /\ FilesOf(c) \cup {None} # {} /\ QueueInv
  BY DEF QInv, BaseInv, WTypes, WireTypeOK, ToRecvOK, STypes, SenderTypeOK, PlacesTyped
<1>b. PipeOne(c) /\ PhaseOne(c)
  BY DEF PipeInv
<1>c. peer' = peer /\ currentFileID' = currentFileID /\ (Writing(c)' <=> Writing(c))
  BY DEF receiverVars, writeVars, Writing
<1>d. MainStep(c) \/ SenderPeerClosed(c) => recvEnd' = recvEnd
  BY OneSender DEF SenderStep, QInv
<1>1. CASE AnswerArrives(c)
  <2>1. /\ main[c] = "waitAnswer" /\ main'[c] = "waitAccept" /\ sstate'[c] = "waitNonce"
        /\ recvEnd[c] # "none" /\ UNCHANGED <<toSend, resultCh, acceptedCh, recvEnd, dropped>>
        /\ SendFrames(c, <<NonceMsg(c)>>)
    BY <1>1, <1>a DEF AnswerArrives, Goto, SetState
  <2>2. NoHeader(<<NonceMsg(c)>>)
    BY DEF NoHeader, NonceMsg
  <2>3. NoHeader(toRecv[c]) => NoHeader(toRecv'[c])
    BY <1>a, <2>1, <2>2, Sendable, AfterSendKinds
  <2>4. NoAck(c)' <=> NoAck(c)
    BY <2>1 DEF NoAck
  <2> QED
    BY <1>b, <1>c, <2>1, <2>3, <2>4 DEF PipeOne, PhaseOne
<1>2. CASE TakeAccepted(c)
  <2>1. /\ main[c] = "waitAccept" /\ main'[c] = "queue" /\ acceptedCh[c] # None /\ acceptedCh'[c] = None
        /\ UNCHANGED <<toRecv, toSend, resultCh, sstate, recvEnd, dropped>>
    BY <1>2, <1>a DEF TakeAccepted, Goto
  <2>2. NoAck(c)' <=> NoAck(c)
    BY <2>1 DEF NoAck
  <2> QED
    BY <1>b, <1>c, <2>1, <2>2 DEF PipeOne, PhaseOne
<1>3. CASE GiveUp(c)
  <2>1. main'[c] = "failed" /\ UNCHANGED <<sstate, acceptedCh, recvEnd, dropped>>
    BY <1>3, <1>a DEF GiveUp, Goto
  <2> QED
    BY <1>b, <2>1 DEF PipeOne, PhaseOne
<1>4. CASE StartQueue(c)
  <2>0. /\ main[c] = "queue" /\ UNCHANGED <<toSend, resultCh, acceptedCh, sstate, recvEnd, dropped>>
        /\ main'[c] \in {"flush", "data"}
    BY <1>4, <1>a DEF StartQueue, Goto
  <2>1. PhaseOne(c)'
    BY <1>b, <2>0 DEF PhaseOne
  <2>2. CASE main'[c] = "flush"
    BY <2>0, <2>1, <2>2 DEF PipeOne
  <2>3. CASE main'[c] = "data"
    <3>1. PICK f \in todo[c] : SendFrames(c, <<Header(f)>>)
      BY <1>4, <1>a, <2>3 DEF StartQueue, Goto
    <3>2. <<Header(f)>> \in Seq(From(c))
      BY <1>a, Sendable DEF QueueInv
    <3>3. Len(<<Header(f)>>) = 1
      OBVIOUS
    <3>4. NoHeader(toRecv[c]) => DataFollows(toRecv'[c])
      BY <1>a, <3>1, <3>2, <3>3, AfterSendKinds
    <3>5. NoAck(c)' <=> NoAck(c)
      BY <2>0 DEF NoAck
    <3> QED
      BY <1>b, <1>c, <2>0, <2>1, <2>3, <3>4, <3>5 DEF PipeOne
  <2> QED
    BY <2>0, <2>2, <2>3
<1>5. CASE SendChunk(c)
  <2>1. /\ main[c] = "data" /\ main' = main /\ SendFrames(c, <<Chunk(sending[c])>>)
        /\ UNCHANGED <<toSend, resultCh, acceptedCh, sstate, recvEnd, dropped>>
    BY <1>5 DEF SendChunk
  <2>2. <<Chunk(sending[c])>> \in Seq(From(c)) /\ OnlyData(<<Chunk(sending[c])>>)
    <3>1. sending[c] \in FilesOf(c)
      BY <1>a, <2>1 DEF QueueInv
    <3>2. OnlyData(<<Chunk(sending[c])>>)
      BY DEF OnlyData, Binary, Chunk
    <3> QED
      BY <3>1, <3>2, Sendable
  <2>3. /\ OnlyData(toRecv[c]) => OnlyData(toRecv'[c])
        /\ DataFollows(toRecv[c]) => DataFollows(toRecv'[c])
    BY <1>a, <2>1, <2>2, AfterSendKinds
  <2>4. NoAck(c)' <=> NoAck(c)
    BY <2>1 DEF NoAck
  <2> QED
    BY <1>b, <1>c, <2>1, <2>3, <2>4 DEF PipeOne, PhaseOne
<1>6. CASE EndFile(c)
  <2>1. /\ main[c] = "data" /\ main'[c] = "waitAck"
        /\ UNCHANGED <<toSend, resultCh, acceptedCh, sstate, recvEnd, dropped>>
    BY <1>6, <1>a DEF EndFile, Goto
  <2>2. PICK m : SendFrames(c, <<m>>) /\ <<m>> \in Seq(From(c))
    <3>1. CASE SendFrames(c, <<Delimiter>>)
      BY <3>1, Sendable
    <3>2. CASE \E f \in todo[c] : SendFrames(c, <<Header(f)>>)
      BY <1>a, <3>2, Sendable DEF QueueInv
    <3> QED
      BY <1>6, <3>1, <3>2 DEF EndFile
  <2>3. Len(<<m>>) = 1
    OBVIOUS
  <2>4. /\ OnlyData(toRecv[c]) => OneText(toRecv'[c])
        /\ DataFollows(toRecv[c]) => OneTextFollows(toRecv'[c])
    BY <1>a, <2>2, <2>3, AfterSendKinds
  <2>5. NoAck(c)' /\ OneAck(c)'
    BY <1>b, <2>1, FewTexts DEF NoAck, OneAck, PipeOne
  <2>6. Writing(c) => peer = c
    BY DEF Writing
  <2> QED
    BY <1>b, <1>c, <2>1, <2>4, <2>5, <2>6 DEF PipeOne, PhaseOne
<1>7. CASE TakeResult(c)
  <2>1. /\ main[c] = "waitAck" /\ main'[c] \in {"flush", "data", "failed"}
        /\ resultCh[c] # None /\ resultCh'[c] = None
        /\ UNCHANGED <<toRecv, toSend, acceptedCh, sstate, recvEnd, dropped>>
    BY <1>7, <1>a DEF TakeResult, Goto
  <2>2. NoAck(c)' /\ ~NoAck(c)
    BY <1>b, <2>1 DEF NoAck, OneAck, PipeOne
  <2> QED
    BY <1>b, <1>c, <2>1, <2>2 DEF PipeOne, PhaseOne
<1>8. CASE Flush(c)
  <2>1. /\ main'[c] = "success" /\ sstate'[c] = "done" /\ main[c] = "flush"
        /\ UNCHANGED <<acceptedCh, recvEnd, dropped>>
    BY <1>8, <1>a DEF Flush, Goto, SetState
  <2> QED
    BY <1>b, <2>1 DEF PipeOne, PhaseOne
<1>9. CASE CloseSender(c)
  <2>1. main[c] \in {"success", "failed"} /\ UNCHANGED <<main, sstate, acceptedCh, recvEnd, dropped>>
    BY <1>9 DEF CloseSender
  <2> QED
    BY <1>b, <2>1 DEF PipeOne, PhaseOne
<1>10. CASE SenderPeerClosed(c)
  <2>1. /\ toSend'[c] = <<>> /\ sstate'[c] = "done"
        /\ UNCHANGED <<toRecv, main, resultCh, acceptedCh, recvEnd, dropped>>
    BY <1>10, <1>a DEF SenderPeerClosed, SetState
  <2>2. NoMoreAcks(c) /\ Behind(toRecv'[c], toRecv[c]) /\ toRecv[c] \in Seq(ToRecvFrame)
    BY <1>a, <2>1, FewTexts DEF NoMoreAcks, Behind
  <2>3. PipeOne(c)'
    BY <1>b, <1>c, <2>1, <2>2, PipeKept
  <2> QED
    BY <1>b, <2>1, <2>3 DEF PhaseOne
<1> QED
  BY <1>1, <1>2, <1>3, <1>4, <1>5, <1>6, <1>7, <1>8, <1>9, <1>10 DEF MainStep

\* A reply is taken off the queue of its own connection.
LEMMA ReplyTaken ==
    ASSUME ToSendOK, NEW c \in Conn, SIncoming(c)
    PROVE  /\ NoMoreAcks(c) /\ toSend[c] \in Seq(ToSendFrame) /\ toSend[c] # <<>>
           /\ toSend'[c] = Tail(toSend[c]) /\ SFrame(c) = Head(toSend[c])
<1>1. toSend[c] \in Seq(ToSendFrame) /\ toSend[c] # <<>> /\ toSend'[c] = Tail(toSend[c])
  BY DEF SIncoming, ToSendOK
<1>2. (Quiet(toSend[c]) => Quiet(toSend'[c])) /\ (Once(toSend[c]) => Once(toSend'[c]))
  BY <1>1, FewerFrames DEF Behind
<1> QED
  BY <1>1, <1>2 DEF NoMoreAcks, SFrame

\* In the handshake only frames are sent that announce no file.
LEMMA ShakeKeeps ==
    ASSUME ToRecvOK, NEW c \in Conn, PipeOne(c), main[c] \in {"waitAccept", "failed"}, NoMoreAcks(c),
           UNCHANGED <<main, resultCh, peer, currentFileID>>,
           NEW ms \in Seq(From(c)), NoHeader(ms), SendFrames(c, ms)
    PROVE  PipeOne(c)'
<1>1. NoHeader(toRecv[c]) => NoHeader(toRecv'[c])
  BY AfterSendKinds
<1>2. (NoAck(c) => NoAck(c)') /\ (Writing(c)' <=> Writing(c))
  BY DEF NoMoreAcks, NoAck, Writing
<1> QED
  BY <1>1, <1>2 DEF PipeOne

\* The messages of the handshake announce none.
LEMMA ShakeFrames ==
    ASSUME NEW c \in Conn
    PROVE  /\ \A p \in Peer, n \in Nonce : NoHeader(<<TokenMsg(p, n)>>)
           /\ \A ok \in BOOLEAN : NoHeader(<<PinMsg(ok)>>)
           /\ NoHeader(<<ListMsg(FilesOf(c)), Delimiter>>)
           /\ \A st \in {"OK", "PAIR_DECLINED", "INVALID_SIGNATURE"}, p \in Peer \cup {None} :
                 NoHeader(<<PairMsg(st, p)>>)
BY DEF NoHeader, TokenMsg, PinMsg, ListMsg, Delimiter, PairMsg

\* The steps of the read loop keep the pipeline; a result finds its place free.
LEMMA PipeHandlers ==
    ASSUME QInv, PipeInv, NEW c \in Conn, HandlerStep(c), UNCHANGED receiverVars
    PROVE  PipeOne(c)' /\ PhaseOne(c)' /\ dropped' = dropped
<1> USE WireAssumption DEF queueVars, wireVars, senderVars
<1>a. /\ ToRecvOK /\ ToSendOK /\ PlacesTyped
      /\ toRecv \in [Conn -> Seq(ToRecvFrame)]
      /\ main \in [Conn -> Main] /\ sstate \in [Conn -> SenderState]
      /\ \E S : acceptedCh \in [Conn -> S]
      /\ \E S : resultCh \in [Conn -> S]
  BY DEF QInv, BaseInv, WTypes, WireTypeOK, ToRecvOK, ToSendOK, STypes, SenderTypeOK, PlacesTyped
<1>b. PipeOne(c) /\ PhaseOne(c)
  BY DEF PipeInv
<1>c. peer' = peer /\ currentFileID' = currentFileID /\ (Writing(c)' <=> Writing(c))
  BY DEF receiverVars, writeVars, Writing
<1>d. SIncoming(c) => /\ NoMoreAcks(c) /\ UNCHANGED <<recvEnd, sendEnd, opened>>
                      /\ toSend[c] \in Seq(ToSendFrame) /\ toSend[c] # <<>>
                      /\ toSend'[c] = Tail(toSend[c]) /\ SFrame(c) = Head(toSend[c])
  BY <1>a, ReplyTaken DEF SIncoming
<1>e. SControlMessage(c) => SIncoming(c) /\ SMessage(c) \in ToSendFrame /\ ReplyFields(SMessage(c))
  BY <1>a, TakeMessage DEF SControlMessage
<1>f. ASSUME NoMoreAcks(c), UNCHANGED <<toRecv, main, resultCh>>
      PROVE  PipeOne(c)'
  BY <1>a, <1>b, <1>c, <1>f, PipeKept DEF Behind
<1>g. ASSUME UNCHANGED <<recvEnd, main, sstate, acceptedCh>>
      PROVE  PhaseOne(c)'
  BY <1>b, <1>g DEF PhaseOne
<1>h. \A f \in {"waitNonce", "waitToken", "waitPin", "waitFileAccept"} :
         sstate[c] = f => main[c] \in {"waitAccept", "failed"} /\ acceptedCh[c] = None
  BY <1>a, <1>b DEF PhaseOne, Main
<1>1. CASE SCollectControl(c) \/ SIgnoreFrame(c)
  BY <1>1, <1>d, <1>f, <1>g DEF SCollectControl, SIgnoreFrame
<1>2. CASE HandleFileResponse(c)
  <2>1. /\ SControlMessage(c) /\ SIncoming(c) /\ SMessage(c).t = "resp" /\ SMessage(c) \in ToSendFrame
        /\ UNCHANGED <<toRecv, main, sstate, acceptedCh, recvEnd>>
    BY <1>2, <1>d, <1>e DEF HandleFileResponse
  <2>2. SMessage(c) = Head(toSend[c]) /\ Head(toSend[c]).t = "resp"
    <3>1. SFrame(c) # Delimiter
      <4> SUFFICES ASSUME SFrame(c) = Delimiter PROVE FALSE
        OBVIOUS
      <4>1. SMessage(c) = sBuffer[c] /\ sBuffer[c] # None
        BY <2>1 DEF SMessage, SControlMessage
      <4>2. Binary(SMessage(c))
        BY <1>a, <4>1 DEF PlacesTyped
      <4> QED
        BY <2>1, <4>2 DEF Binary
    <3> QED
      BY <1>d, <2>1, <3>1 DEF SMessage
  <2>3. ~Quiet(toSend[c]) /\ (Once(toSend[c]) => Quiet(toSend'[c]))
    BY <1>d, <2>1, <2>2, FirstTaken
  <2>4. main[c] \notin {"waitAnswer", "waitAccept", "queue", "data"}
    BY <1>b, <2>3 DEF PipeOne, NoAck
  <2>5. PhaseOne(c)'
    BY <1>g, <2>1
  <2>6. CASE main[c] = "waitAck"
    <3>1. resultCh[c] = None /\ Once(toSend[c]) /\ ~NoAck(c)
      BY <1>b, <2>3, <2>6 DEF PipeOne, OneAck, NoAck
    <3>2. Quiet(toSend'[c]) /\ dropped' = dropped
      BY <1>2, <2>3, <3>1 DEF HandleFileResponse
    <3>3. OneAck(c)'
      BY <3>2, FewTexts DEF OneAck
    <3> QED
      BY <1>b, <1>c, <2>1, <2>5, <2>6, <3>1, <3>2, <3>3 DEF PipeOne
  <2>7. CASE main[c] # "waitAck"
    <3>1. dropped' = dropped
      BY <1>2, <2>4, <2>7 DEF HandleFileResponse
    <3> QED
      BY <2>1, <2>4, <2>5, <2>7, <3>1 DEF PipeOne
  <2> QED
    BY <2>6, <2>7
<1>3. CASE HandleNonceResponse(c)
  <2>1. /\ SControlMessage(c) /\ sstate[c] = "waitNonce" /\ sstate'[c] = "waitToken"
        /\ SMessage(c).by \in Conn
        /\ SendFrames(c, <<TokenMsg(PeerOf[c], <<c, SMessage(c).by>>)>>)
        /\ UNCHANGED <<main, acceptedCh, resultCh, dropped>>
    BY <1>3, <1>a, <1>e DEF HandleNonceResponse, SetState, ReplyFields
  <2>2. NoMoreAcks(c) /\ UNCHANGED recvEnd /\ main[c] \in {"waitAccept", "failed"} /\ acceptedCh[c] = None
    BY <1>d, <1>e, <1>h, <2>1
  <2>3. /\ <<TokenMsg(PeerOf[c], <<c, SMessage(c).by>>)>> \in Seq(From(c))
        /\ NoHeader(<<TokenMsg(PeerOf[c], <<c, SMessage(c).by>>)>>)
    BY <2>1, Sendable, ShakeFrames DEF Nonce
  <2>4. PipeOne(c)'
    BY <1>a, <1>b, <1>c, <2>1, <2>2, <2>3, ShakeKeeps
  <2> QED
    BY <1>b, <2>1, <2>2, <2>4 DEF PhaseOne
<1>4. CASE Refused(c)
  <2>1. SIncoming(c) /\ sstate'[c] = "done" /\ UNCHANGED <<toRecv, main, acceptedCh, resultCh, dropped>>
    BY <1>4, <1>a, <1>e DEF Refused, SetState
  <2> QED
    BY <1>b, <1>d, <1>f, <2>1 DEF PhaseOne
<1>5. CASE HandleTokenResponse(c)
  <2>1. /\ SControlMessage(c) /\ sstate[c] \in {"waitToken", "waitPin"}
        /\ sstate'[c] \in {"waitPin", "waitFileAccept"} /\ UNCHANGED <<main, acceptedCh, resultCh, dropped>>
    BY <1>5, <1>a DEF HandleTokenResponse, SetState
  <2>2. NoMoreAcks(c) /\ UNCHANGED recvEnd /\ main[c] \in {"waitAccept", "failed"} /\ acceptedCh[c] = None
    BY <1>d, <1>e, <1>h, <2>1
  <2>3. PICK ms \in Seq(From(c)) : NoHeader(ms) /\ SendFrames(c, ms)
    <3>1. CASE \E ok \in {FALSE, (c \in KnowsPin)} : SendFrames(c, <<PinMsg(ok)>>)
      <4>1. PICK ok \in {FALSE, (c \in KnowsPin)} : SendFrames(c, <<PinMsg(ok)>>)
        BY <3>1
      <4>2. (c \in KnowsPin) \in BOOLEAN
        OBVIOUS
      <4>3. ok \in BOOLEAN
        BY <4>1, <4>2, Zenon
      <4> QED
        BY <4>1, <4>3, Sendable, ShakeFrames
    <3>2. CASE SendFrames(c, <<ListMsg(FilesOf(c)), Delimiter>>)
      BY <3>2, Sendable, ShakeFrames
    <3> QED
      BY <1>5, <3>1, <3>2 DEF HandleTokenResponse
  <2>4. PipeOne(c)'
    BY <1>a, <1>b, <1>c, <2>1, <2>2, <2>3, ShakeKeeps
  <2> QED
    BY <1>b, <2>1, <2>2, <2>4 DEF PhaseOne
<1>6. CASE FilesAccepted(c)
  <2>1. /\ SIncoming(c) /\ sstate[c] = "waitFileAccept" /\ sstate'[c] = "sendingFiles"
        /\ UNCHANGED <<toRecv, main, resultCh, dropped>>
    BY <1>6, <1>a, <1>e DEF FilesAccepted, SetState
  <2>2. main[c] \in {"waitAccept", "failed"}
    BY <1>h, <2>1
  <2> QED
    BY <1>b, <1>d, <1>f, <2>1, <2>2 DEF PhaseOne
<1>7. CASE PairRequested(c)
  <2>1. /\ SControlMessage(c) /\ sstate[c] = "waitFileAccept" /\ sstate'[c] \in {"waitFileAccept", "done"}
        /\ UNCHANGED <<main, acceptedCh, resultCh, dropped>>
    BY <1>7, <1>a DEF PairRequested, SetState
  <2>2. NoMoreAcks(c) /\ UNCHANGED recvEnd /\ main[c] \in {"waitAccept", "failed"} /\ acceptedCh[c] = None
    BY <1>d, <1>e, <1>h, <2>1
  <2>3. PICK ms \in Seq(From(c)) : NoHeader(ms) /\ SendFrames(c, ms)
    <3>1. PICK m \in {PairMsg("OK", PeerOf[c]), PairMsg("OK", None), PairMsg("PAIR_DECLINED", None),
                      PairMsg("INVALID_SIGNATURE", None)} : SendFrames(c, <<m>>)
      BY <1>7 DEF PairRequested
    <3>2. <<m>> \in Seq(From(c)) /\ NoHeader(<<m>>)
      BY <3>1, Sendable, ShakeFrames
    <3> QED
      BY <3>1, <3>2
  <2>4. PipeOne(c)'
    BY <1>a, <1>b, <1>c, <2>1, <2>2, <2>3, ShakeKeeps
  <2> QED
    BY <1>b, <2>1, <2>2, <2>4 DEF PhaseOne
<1> QED
  BY <1>1, <1>2, <1>3, <1>4, <1>5, <1>6, <1>7 DEF HandlerStep

\* The pipeline of a connection holds at most one frame that ends a file, or one
\* acknowledgement of it.
LEMMA PipeInvariant == ~StaleHandlers /\ Spec => []PipeInv
<1>1. Init => PipeInv
  <2> SUFFICES ASSUME Init, NEW c \in Conn PROVE PipeOne(c) /\ PhaseOne(c)
    BY DEF PipeInv, Init, SenderInit
  <2>1. /\ toRecv[c] = <<>> /\ toSend[c] = <<>> /\ main[c] = "waitAnswer" /\ resultCh[c] = None
        /\ sstate[c] = "init" /\ acceptedCh[c] = None /\ peer = None /\ c # None
    BY WireAssumption DEF Init, WireInit, SenderInit, ReceiverInit
  <2>2. NoHeader(<<>>) /\ Quiet(<<>>)
    BY FewTexts DEF NoHeader
  <2> QED
    BY <2>1, <2>2 DEF PipeOne, PhaseOne, NoAck, Writing
<1>2. QInv /\ PipeInv /\ [Next]_vars => PipeInv'
  <2> SUFFICES ASSUME QInv, PipeInv, [Next]_vars PROVE PipeInv'
    OBVIOUS
  <2>1. CASE ReceiverStep /\ UNCHANGED senderVars
    BY <2>1, PipeFrames, PipeOthers DEF ReceiverStep
  <2>2. ASSUME NEW c \in Conn, Offer(c)
        PROVE  PipeInv'
    BY <2>2, PipeOthers DEF Offer
  <2>3. ASSUME NEW c \in Conn, SenderStep(c), UNCHANGED receiverVars
        PROVE  PipeInv'
    <3>1. PipeOne(c)' /\ PhaseOne(c)' /\ dropped' = dropped
      BY <2>3, PipeMain, PipeHandlers DEF SenderStep
    <3>2. OnlyOf(c) /\ UNCHANGED <<recvEnd, peer, currentFileID>>
      BY <2>3, OneSender DEF QInv, receiverVars, writeVars
    <3>3. \A d \in Conn : d # c => PipeOne(d)' /\ PhaseOne(d)'
      BY <3>2, OthersKept DEF QInv
    <3> QED
      BY <3>1, <3>3 DEF PipeInv
  <2>4. CASE UNCHANGED vars
    <3>1. /\ UNCHANGED <<toRecv, toSend, main, resultCh, acceptedCh, sstate, recvEnd, peer, currentFileID, dropped>>
      BY <2>4 DEF vars, wireVars, receiverVars, senderVars, writeVars
    <3>2. \A c \in Conn : (NoAck(c)' <=> NoAck(c)) /\ (OneAck(c)' <=> OneAck(c)) /\ (Writing(c)' <=> Writing(c))
      BY <3>1 DEF NoAck, OneAck, Writing
    <3> QED
      BY <3>1, <3>2 DEF PipeInv, PipeOne, PhaseOne
  <2> QED
    BY <2>1, <2>2, <2>3, <2>4 DEF Next
<1> QED
  BY <1>1, <1>2, QuietInvariant, PTL DEF Spec

\* As long as a dropped connection is silent, the one place of fileResults is free whenever
\* a result arrives that the command waits for (handleFileResponse).
THEOREM AcksAreTaken == ~StaleHandlers /\ Spec => []AcksNotDropped
<1>1. PipeInv => AcksNotDropped
  BY DEF PipeInv, AcksNotDropped
<1> QED
  BY <1>1, PipeInvariant, PTL

-----------------------------------------------------------------------------
(* The handshake of one connection, without late handlers.                 *)

\* The files that a command has to deliver.
Wanted(c) == FilesOf(c) \cap Allowed

\* Before a sender has sent its list.
Unlisted(c) == main[c] = "waitAnswer" \/ sstate[c] \in {"init", "waitNonce", "waitToken", "waitPin"}

\* What the queues hold of lists (or answers to PAIR, which come after a list), of answers
\* and of greetings (the status OK).
NoList(q) == \A i \in 1 .. Len(q) : q[i].t \notin {"list", "pair"}
NoAnswer(q) == \A i \in 1 .. Len(q) : q[i].t # "answer"

Greeted(m) == m.t = "status" /\ m.st = "OK"
NoGreeting(q) == \A i \in 1 .. Len(q) : ~Greeted(q[i])
OneGreeting(q) == \A i, j \in 1 .. Len(q) : Greeted(q[i]) /\ Greeted(q[j]) => i = j

\* An answer that accepts accepts every wanted file.
FullAnswer(m, c) == m.t = "answer" /\ m.st = "OK" => Wanted(c) \subseteq m.files
AllFull(q, c) == \A i \in 1 .. Len(q) : FullAnswer(q[i], c)

\* The states of the receiver before it greets.
Ungreeted == {"waitNonce", "waitToken", "waitPin"}

\* No list, no answer.
ListOne(c) ==
    Unlisted(c) =>
        /\ NoList(toRecv[c]) /\ NoAnswer(toSend[c])
        /\ sBuffer[c] = None /\ c \notin selecting
        /\ session = c => controlBuffer \in {None, Garbage}
        /\ peer = c => state # "waitPairResponse"

\* The receiver greets once, before the list.
GreetOne(c) ==
    /\ OneGreeting(toSend[c])
    /\ sstate[c] = "waitFileAccept" => NoGreeting(toSend[c])
    /\ sstate[c] \in {"waitFileAccept", "sendingFiles"} \/ ~NoGreeting(toSend[c])
       => (peer = c => state \notin Ungreeted)

\* The answer to the list accepts every wanted file.
AnswerOne(c) ==
    /\ AllFull(toSend[c], c)
    /\ sBuffer[c] # None => FullAnswer(sBuffer[c], c)
    /\ acceptedCh[c] # None => Wanted(c) \subseteq acceptedCh[c]

\* Nothing has been said on a connection that was never installed.
FreshOne(c) == recvEnd[c] = "none" => toSend[c] = <<>> /\ sstate[c] \in {"init", "done"}

ShakeOne(c) == ListOne(c) /\ GreetOne(c) /\ AnswerOne(c) /\ FreshOne(c)

\* The list that the receiver works on is the one of the installed connection.
OfferedInv ==
    /\ controlBuffer \notin {None, Garbage} => session # None /\ controlBuffer = ListMsg(FilesOf(session))
    /\ peer # None /\ (selecting # {} \/ state = "waitPairResponse") => files = FilesOf(peer)
    /\ peer # None /\ state = "waitPairResponse" => acceptedIDs = Wanted(peer)

\* A wanted file is queued, being sent, announced or confirmed.
WantOne(c) ==
    /\ main[c] \in {"waitAnswer", "waitAccept", "queue"} => announced[c] = None /\ sending[c] = None
    /\ main[c] = "queue" => Wanted(c) \subseteq todo[c]
    /\ main[c] = "data" => announced[c] = None /\ Wanted(c) \subseteq todo[c] \cup {sending[c]} \cup confirmed
    /\ main[c] = "waitAck" =>
          /\ Wanted(c) \subseteq todo[c] \cup {sending[c], announced[c]} \cup confirmed
          /\ announced[c] = None => todo[c] = {}
    /\ main[c] \in {"flush", "success"} => Wanted(c) \subseteq confirmed

ShakeInv == OfferedInv /\ confirmed \subseteq saved /\ \A c \in Conn : ShakeOne(c) /\ WantOne(c)

\* A shorter queue has no more of them.
LEMMA FewerMessages ==
    ASSUME NEW S, NEW q \in Seq(S), NEW p, Behind(p, q)
    PROVE  /\ NoList(q) => NoList(p)
           /\ NoAnswer(q) => NoAnswer(p)
           /\ NoGreeting(q) => NoGreeting(p)
           /\ OneGreeting(q) => OneGreeting(p)
           /\ \A c : AllFull(q, c) => AllFull(p, c)
<1>1. CASE p = q
  BY <1>1
<1>2. CASE p = <<>>
  BY <1>2 DEF NoList, NoAnswer, NoGreeting, OneGreeting, AllFull
<1>3. CASE q # <<>> /\ p = Tail(q)
  <2>1. /\ Len(p) \in Nat
        /\ \A i \in 1 .. Len(p) : i + 1 \in 1 .. Len(q) /\ p[i] = q[i + 1]
    BY <1>3, TailAt
  <2>2. \A i, j \in 1 .. Len(p) : i + 1 = j + 1 => i = j
    BY <2>1
  <2>3. (NoList(q) => NoList(p)) /\ (NoAnswer(q) => NoAnswer(p)) /\ (NoGreeting(q) => NoGreeting(p))
    BY <2>1 DEF NoList, NoAnswer, NoGreeting
  <2>4. \A c : AllFull(q, c) => AllFull(p, c)
    BY <2>1 DEF AllFull
  <2>5. OneGreeting(q) => OneGreeting(p)
    BY <2>1, <2>2 DEF OneGreeting
  <2> QED
    BY <2>3, <2>4, <2>5
<1> QED
  BY <1>1, <1>2, <1>3 DEF Behind

\* After the only greeting is taken there is none.
LEMMA GreetingTaken ==
    ASSUME NEW S, NEW q \in Seq(S), q # <<>>
    PROVE  /\ Greeted(Head(q)) => ~NoGreeting(q) /\ (OneGreeting(q) => NoGreeting(Tail(q)))
           /\ Head(q).t = "answer" => ~NoAnswer(q)
           /\ Head(q).t \in {"list", "pair"} => ~NoList(q)
           /\ \A c : AllFull(q, c) => FullAnswer(Head(q), c)
<1>1. /\ Head(q) = q[1] /\ Len(q) \in Nat \ {0}
      /\ \A i \in 1 .. Len(Tail(q)) : i + 1 \in 1 .. Len(q) /\ Tail(q)[i] = q[i + 1]
      /\ Len(Tail(q)) \in Nat
  BY TailAt
<1>2. 1 \in 1 .. Len(q)
  BY <1>1
<1>3. /\ Head(q).t = "answer" => ~NoAnswer(q)
      /\ Head(q).t \in {"list", "pair"} => ~NoList(q)
      /\ Greeted(Head(q)) => ~NoGreeting(q)
      /\ \A c : AllFull(q, c) => FullAnswer(Head(q), c)
  BY <1>1, <1>2 DEF NoAnswer, NoList, NoGreeting, AllFull
<1>4. ASSUME Greeted(Head(q)), OneGreeting(q), NEW i \in 1 .. Len(Tail(q)), Greeted(Tail(q)[i])
      PROVE  FALSE
  <2>1. Greeted(q[1]) /\ Greeted(q[i + 1]) /\ i + 1 \in 1 .. Len(q)
    BY <1>1, <1>4
  <2>2. i + 1 = 1
    BY <1>2, <1>4, <2>1 DEF OneGreeting
  <2> QED
    BY <1>1, <1>4, <2>2
<1> QED
  BY <1>3, <1>4 DEF NoGreeting

\* A longer queue has those of both parts.
LEMMA MoreMessages ==
    ASSUME NEW S, NEW q \in Seq(S), NEW ms \in Seq(S)
    PROVE  /\ NoList(q) /\ NoList(ms) => NoList(q \o ms)
           /\ NoAnswer(q) /\ NoAnswer(ms) => NoAnswer(q \o ms)
           /\ NoGreeting(q) /\ NoGreeting(ms) => NoGreeting(q \o ms)
           /\ OneGreeting(q) /\ NoGreeting(ms) => OneGreeting(q \o ms)
           /\ NoGreeting(q) /\ Len(ms) = 1 => OneGreeting(q \o ms)
           /\ \A c : AllFull(q, c) /\ AllFull(ms, c) => AllFull(q \o ms, c)
<1>1. /\ Len(q) \in Nat /\ Len(ms) \in Nat /\ Len(q \o ms) = Len(q) + Len(ms)
      /\ \A i \in 1 .. Len(q) : (q \o ms)[i] = q[i]
      /\ \A i \in 1 .. Len(q \o ms) :
            i \in 1 .. Len(q) \/ (i - Len(q) \in 1 .. Len(ms) /\ (q \o ms)[i] = ms[i - Len(q)])
  BY ConcatAt
<1> DEFINE r == q \o ms
<1> HIDE DEF r
<1>2. /\ \A i \in 1 .. Len(q) : r[i] = q[i]
      /\ \A i \in 1 .. Len(r) :
            i \in 1 .. Len(q) \/ (i - Len(q) \in 1 .. Len(ms) /\ r[i] = ms[i - Len(q)])
      /\ Len(r) = Len(q) + Len(ms)
  BY <1>1 DEF r
<1>3. NoList(q) /\ NoList(ms) => NoList(r)
  BY <1>2 DEF NoList
<1>4. NoAnswer(q) /\ NoAnswer(ms) => NoAnswer(r)
  BY <1>2 DEF NoAnswer
<1>5. NoGreeting(q) /\ NoGreeting(ms) => NoGreeting(r)
  BY <1>2 DEF NoGreeting
<1>6. \A c : AllFull(q, c) /\ AllFull(ms, c) => AllFull(r, c)
  BY <1>2 DEF AllFull
<1>7. ASSUME OneGreeting(q), NoGreeting(ms)
      PROVE  OneGreeting(r)
  <2>1. \A i \in 1 .. Len(r) : Greeted(r[i]) => i \in 1 .. Len(q) /\ Greeted(q[i])
    BY <1>2, <1>7 DEF NoGreeting
  <2> QED
    BY <1>7, <2>1 DEF OneGreeting
<1>8. ASSUME NoGreeting(q), Len(ms) = 1
      PROVE  OneGreeting(r)
  <2>1. \A i \in 1 .. Len(r) : i \in 1 .. Len(q) \/ i = Len(r)
    BY <1>1, <1>2, <1>8
  <2>2. \A i \in 1 .. Len(r) : Greeted(r[i]) => i = Len(r)
    BY <1>2, <1>8, <2>1 DEF NoGreeting
  <2> QED
    BY <2>2 DEF OneGreeting
<1> QED
  BY <1>3, <1>4, <1>5, <1>6, <1>7, <1>8 DEF r

\* What the queues hold that are empty, and what follows.
LEMMA NoMessages ==
    /\ NoList(<<>>) /\ NoAnswer(<<>>) /\ NoGreeting(<<>>) /\ OneGreeting(<<>>)
    /\ \A c : AllFull(<<>>, c)
    /\ \A q : NoGreeting(q) => OneGreeting(q)
    /\ \A q, c : NoAnswer(q) => AllFull(q, c)
BY DEF NoList, NoAnswer, NoGreeting, OneGreeting, AllFull, FullAnswer

\* What the receiver does to a connection when it neither greets nor installs it.
CalmStep(d) ==
    /\ Behind(toRecv'[d], toRecv[d])
    /\ toSend'[d] = toSend[d] \/ peer = d
    /\ NoGreeting(toSend[d]) => NoGreeting(toSend'[d])
    /\ OneGreeting(toSend[d]) => OneGreeting(toSend'[d])
    /\ AllFull(toSend[d], d) => AllFull(toSend'[d], d)
    /\ Unlisted(d) =>
          /\ NoAnswer(toSend[d]) => NoAnswer(toSend'[d])
          /\ d \in selecting' => d \in selecting
          /\ session' = d => controlBuffer' \in {None, Garbage} \/ (session = d /\ controlBuffer' = controlBuffer)
          /\ peer' = d /\ state' = "waitPairResponse" => peer = d /\ state = "waitPairResponse"
    /\ peer' = d /\ state' \in Ungreeted => peer = d /\ state \in Ungreeted

\* Then what holds of the handshake goes on to hold.
LEMMA CalmKeeps ==
    ASSUME BaseInv, NEW d \in Conn, ShakeOne(d), WantOne(d), UNCHANGED senderVars, EndsStay, CalmStep(d)
    PROVE  ShakeOne(d)' /\ WantOne(d)'
<1> USE DEF queueVars, senderVars
<1>1. peer = d => recvEnd[d] # "none"
  BY WireAssumption DEF BaseInv, WTypes, WireTypeOK, RCore, EndsInv
<1>2. toRecv[d] \in Seq(ToRecvFrame)
  BY DEF BaseInv, WTypes, WireTypeOK
<1>3. NoList(toRecv[d]) => NoList(toRecv'[d])
  BY <1>2, FewerMessages DEF CalmStep
<1>4. Unlisted(d)' <=> Unlisted(d)
  BY DEF Unlisted
<1>5. ListOne(d)'
  BY <1>3, <1>4 DEF ShakeOne, ListOne, CalmStep
<1>6. GreetOne(d)'
  BY DEF ShakeOne, GreetOne, CalmStep
<1>7. AnswerOne(d)'
  BY DEF ShakeOne, AnswerOne, CalmStep, FullAnswer, Wanted
<1>8. FreshOne(d)'
  BY <1>1 DEF ShakeOne, FreshOne, CalmStep, EndsStay
<1>9. WantOne(d)'
  BY DEF WantOne, Wanted
<1> QED
  BY <1>5, <1>6, <1>7, <1>8, <1>9 DEF ShakeOne

\* Where a reply goes.
LEMMA ReplyGoes ==
    ASSUME ToSendOK, peer \in Conn \cup {None}, NEW ms \in Seq(ToSendFrame), Reply(ms), NEW d \in Conn
    PROVE  /\ toSend[d] \in Seq(ToSendFrame)
           /\ toSend'[d] = toSend[d] \/ (peer = d /\ toSend'[d] = toSend[d] \o ms)
BY DEF ToSendOK, Reply

\* A reply that greets nobody and accepts no less than the wanted files.
LEMMA CalmReply ==
    ASSUME ToSendOK, peer \in Conn \cup {None}, NEW ms \in Seq(ToSendFrame), Reply(ms),
           NoGreeting(ms), NEW d \in Conn, peer = d => AllFull(ms, d) /\ (Unlisted(d) => NoAnswer(ms))
    PROVE  /\ toSend'[d] = toSend[d] \/ peer = d
           /\ NoGreeting(toSend[d]) => NoGreeting(toSend'[d])
           /\ OneGreeting(toSend[d]) => OneGreeting(toSend'[d])
           /\ AllFull(toSend[d], d) => AllFull(toSend'[d], d)
           /\ Unlisted(d) /\ NoAnswer(toSend[d]) => NoAnswer(toSend'[d])
<1>1. /\ toSend[d] \in Seq(ToSendFrame)
      /\ toSend'[d] = toSend[d] \/ (peer = d /\ toSend'[d] = toSend[d] \o ms)
  BY ReplyGoes
<1>2. CASE toSend'[d] = toSend[d]
  BY <1>2
<1>3. CASE peer = d /\ toSend'[d] = toSend[d] \o ms
  BY <1>1, <1>3, MoreMessages
<1> QED
  BY <1>1, <1>2, <1>3

\* What the receiver's replies hold.
LEMMA ReplyKinds ==
    /\ \A d \in Conn : NoGreeting(<<NonceMsg(d)>>) /\ NoAnswer(<<NonceMsg(d)>>)
    /\ \A st \in {"PIN_REQUIRED", "TOO_MANY_ATTEMPTS"} : \A n : NoGreeting(<<Status(st, n)>>)
    /\ \A st, n : NoAnswer(<<Status(st, n)>>) /\ Len(<<Status(st, n)>>) = 1
    /\ \A st : \A F : NoGreeting(<<Answer(st, F), Delimiter>>)
    /\ \A d : AllFull(<<Answer("DECLINED", {}), Delimiter>>, d) /\ AllFull(<<Answer("PAIR", {}), Delimiter>>, d)
    /\ \A d, F : Wanted(d) \subseteq F => AllFull(<<Answer("OK", F), Delimiter>>, d)
    /\ \A f, ok : NoGreeting(<<FileResponse(f, ok)>>) /\ NoAnswer(<<FileResponse(f, ok)>>)
<1> USE DEF NoGreeting, NoAnswer, Greeted, AllFull, FullAnswer, NonceMsg, Status, Answer, Delimiter, FileResponse
<1>1. \A d \in Conn : NoGreeting(<<NonceMsg(d)>>) /\ NoAnswer(<<NonceMsg(d)>>)
  OBVIOUS
<1>2. \A st \in {"PIN_REQUIRED", "TOO_MANY_ATTEMPTS"} : \A n : NoGreeting(<<Status(st, n)>>)
  OBVIOUS
<1>3. \A st, n : NoAnswer(<<Status(st, n)>>) /\ Len(<<Status(st, n)>>) = 1
  OBVIOUS
<1>4. \A st : \A F : NoGreeting(<<Answer(st, F), Delimiter>>)
  OBVIOUS
<1>5. \A d : AllFull(<<Answer("DECLINED", {}), Delimiter>>, d) /\ AllFull(<<Answer("PAIR", {}), Delimiter>>, d)
  OBVIOUS
<1>6. \A d, F : Wanted(d) \subseteq F => AllFull(<<Answer("OK", F), Delimiter>>, d)
  OBVIOUS
<1>7. \A f, ok : NoGreeting(<<FileResponse(f, ok)>>) /\ NoAnswer(<<FileResponse(f, ok)>>)
  OBVIOUS
<1> QED
  BY <1>1, <1>2, <1>3, <1>4, <1>5, <1>6, <1>7

\* What OfferedInv needs of a step.
OfferedStep ==
    /\ controlBuffer' \in {None, Garbage} \/ (controlBuffer' = controlBuffer /\ session' = session)
    /\ \/ peer' = None
       \/ /\ UNCHANGED <<peer, files, acceptedIDs>> /\ selecting' \subseteq selecting
          /\ state' = "waitPairResponse" => state = "waitPairResponse"

\* It is kept then.
LEMMA OfferedKept == OfferedInv /\ OfferedStep => OfferedInv'
BY DEF OfferedInv, OfferedStep, Wanted

\* What every handler leaves alone.
LEMMA HandlerShape ==
    ASSUME NEW c \in Conn, HandleFrame(c)
    PROVE  /\ session' = session /\ peer' \in {peer, None} /\ selecting' \subseteq selecting \cup {c}
           /\ saved \subseteq saved' /\ (toSend' = toSend \/ \E ms : Reply(ms))
<1> USE DEF handshakeVars, listVars, Terminate, DropPeer
<1>1. CASE HandleNonce(c) \/ HandleToken(c) \/ PinCorrect(c) \/ PinWrong(c)
  BY <1>1 DEF HandleNonce, HandleToken, PinCorrect, PinWrong
<1>2. CASE \/ HandleFileList(c) \/ TooManyFiles(c) \/ EmptyList(c) \/ PairAccepted(c) \/ PairUnverified(c)
           \/ PairDeclined(c) \/ PairFailed(c)
  BY <1>2 DEF HandleFileList, TooManyFiles, EmptyList, PairAccepted, PairUnverified, AcceptFiles, PairDeclined,
     PairFailed
<1>3. CASE \/ HandleFileHeader(c) \/ RejectHeader(c) \/ HandleBinaryData(c) \/ TooMuchData(c)
           \/ RejectGarbage(c) \/ WriteGarbage(c) \/ CollectControl(c) \/ IgnoreFrame(c)
  BY <1>3 DEF HandleFileHeader, StartReceivingFile, RejectHeader, HandleBinaryData, TooMuchData,
     RejectGarbage, WriteGarbage, GarbageAsData, RejectData, RejectFileTransfer, CollectControl, IgnoreFrame
<1>4. CASE FinishLast(c) \/ FinishThenNext(c) \/ FinishThenReject(c) \/ FinishThenStop(c)
  <2>1. /\ session' = session /\ selecting' = selecting /\ saved \subseteq saved'
        /\ \E ms : Reply(ms)
    BY <1>4 DEF FinishLast, FinishThenNext, FinishThenReject, FinishThenStop, FinishCurrentFile
  <2>2. peer' \in {peer, None}
    BY <1>4 DEF FinishLast, FinishThenNext, FinishThenReject, FinishThenStop, StartReceivingFile,
       RejectFileTransfer
  <2> QED
    BY <2>1, <2>2
<1> QED
  BY <1>1, <1>2, <1>3, <1>4 DEF HandleFrame

\* A handler for c is calm for everyone else.
LEMMA CalmForOthers ==
    ASSUME QInv, NEW c \in Conn, HandleFrame(c), NEW d \in Conn, d # c
    PROVE  CalmStep(d)
<1>1. Incoming(c)
  BY FrameTaken
<1>2. peer = c /\ session = c
  BY <1>1, OwnFrame
<1>3. session' # d /\ peer' # d /\ (d \in selecting' => d \in selecting)
  BY <1>2, HandlerShape, WireAssumption
<1>4. toRecv'[d] = toRecv[d] /\ toSend'[d] = toSend[d]
  BY <1>1, <1>2, HandlerShape DEF Incoming, Reply, QInv, BaseInv, WTypes, WireTypeOK
<1> QED
  BY <1>3, <1>4 DEF CalmStep, Behind

\* The receiver greets.
LEMMA GreetKeeps ==
    ASSUME BaseInv, NEW c \in Conn, ShakeOne(c), WantOne(c), UNCHANGED senderVars, EndsStay,
           peer = c, state \in Ungreeted, state' = "waitFileList",
           Behind(toRecv'[c], toRecv[c]), UNCHANGED <<peer, session, selecting>>,
           controlBuffer' \in {None, controlBuffer},
           NEW n \in Nonce \cup {None}, Reply(<<Status("OK", n)>>)
    PROVE  ShakeOne(c)' /\ WantOne(c)'
<1> USE DEF queueVars, senderVars
<1>1. /\ ToSendOK /\ peer \in Conn \cup {None} /\ toRecv[c] \in Seq(ToRecvFrame)
      /\ recvEnd[c] # "none"
  BY WireAssumption DEF ToSendOK, BaseInv, WTypes, WireTypeOK, RCore, EndsInv
<1>2. NoList(toRecv[c]) => NoList(toRecv'[c])
  BY <1>1, FewerMessages
<1>3. NoGreeting(toSend[c]) /\ sstate[c] \notin {"waitFileAccept", "sendingFiles"}
  BY DEF ShakeOne, GreetOne
<1>4. <<Status("OK", n)>> \in Seq(ToSendFrame)
  BY Replyable
<1>5. /\ OneGreeting(toSend'[c])
      /\ NoAnswer(toSend[c]) => NoAnswer(toSend'[c])
      /\ AllFull(toSend[c], c) => AllFull(toSend'[c], c)
  <2>1. toSend[c] \in Seq(ToSendFrame) /\ toSend'[c] \in {toSend[c], toSend[c] \o <<Status("OK", n)>>}
    BY <1>1, <1>4, ReplyGoes
  <2>2. /\ NoAnswer(<<Status("OK", n)>>) /\ Len(<<Status("OK", n)>>) = 1
        /\ AllFull(<<Status("OK", n)>>, c)
    BY ReplyKinds, NoMessages
  <2>3. CASE toSend'[c] = toSend[c]
    BY <1>3, <2>3, NoMessages
  <2>4. CASE toSend'[c] = toSend[c] \o <<Status("OK", n)>>
    <3>1. ASSUME NEW ms \in Seq(ToSendFrame), NoAnswer(ms), AllFull(ms, c), Len(ms) = 1
          PROVE  /\ OneGreeting(toSend[c] \o ms)
                 /\ NoAnswer(toSend[c]) => NoAnswer(toSend[c] \o ms)
                 /\ AllFull(toSend[c], c) => AllFull(toSend[c] \o ms, c)
      BY <1>3, <2>1, <3>1, MoreMessages
    <3> QED
      BY <1>4, <2>2, <2>4, <3>1
  <2> QED
    BY <2>1, <2>3, <2>4
<1>6. Unlisted(c)' <=> Unlisted(c)
  BY DEF Unlisted
<1>7. ListOne(c)'
  BY <1>2, <1>5, <1>6 DEF ShakeOne, ListOne
<1>8. GreetOne(c)'
  BY <1>3, <1>5 DEF GreetOne, Ungreeted
<1>9. AnswerOne(c)'
  BY <1>5 DEF ShakeOne, AnswerOne, FullAnswer, Wanted
<1>10. FreshOne(c)'
  BY <1>1 DEF FreshOne, EndsStay
<1>11. WantOne(c)'
  BY DEF WantOne, Wanted
<1> QED
  BY <1>7, <1>8, <1>9, <1>10, <1>11 DEF ShakeOne

\* The handlers keep the handshakes.
LEMMA ShakeHandlers ==
    ASSUME QInv, ShakeInv, UNCHANGED senderVars, NEW c \in Conn, HandleFrame(c)
    PROVE  ShakeInv'
<1> USE WireAssumption DEF handshakeVars, listVars, writeVars, watchVars, storeVars
<1>a. Incoming(c) /\ peer = c /\ session = c /\ selecting = {} /\ FieldsOf(Frame(c), c) /\ EndsStay
  <2>1. Incoming(c) /\ (EndsStay \/ DropPeer \/ recvEnd' = recvEnd)
    BY FrameTaken
  <2>2. EndsStay
    BY <2>1, DropStays DEF EndsStay, QInv, BaseInv
  <2> QED
    BY <2>1, <2>2, OwnFrame
<1>b. /\ Behind(toRecv'[c], toRecv[c]) /\ toRecv[c] \in Seq(ToRecvFrame) /\ toRecv[c] # <<>>
      /\ Frame(c) = Head(toRecv[c])
  BY <1>a DEF Incoming, Frame, Behind, QInv, BaseInv, WTypes, WireTypeOK
<1>c. ToSendOK /\ peer \in Conn \cup {None} /\ WTypes /\ ReceiverTypeOK /\ BaseInv
  BY DEF ToSendOK, QInv, BaseInv, WTypes, WireTypeOK, ReceiverTypeOK
<1>d. OfferedInv /\ ShakeOne(c) /\ WantOne(c) /\ ListOne(c) /\ confirmed \subseteq saved
  BY DEF ShakeInv, ShakeOne
<1>e. ASSUME ShakeOne(c)' /\ WantOne(c)', OfferedInv'
      PROVE  ShakeInv'
  <2>1. ASSUME NEW d \in Conn, d # c
        PROVE  ShakeOne(d)' /\ WantOne(d)'
    <3>1. CalmStep(d)
      BY <2>1, CalmForOthers
    <3>2. ShakeOne(d) /\ WantOne(d)
      BY DEF ShakeInv
    <3> QED
      BY <1>a, <1>c, <3>1, <3>2, CalmKeeps
  <2>2. confirmed' \subseteq saved'
    BY <1>d, HandlerShape DEF senderVars, queueVars
  <2> QED
    BY <1>e, <2>1, <2>2 DEF ShakeInv
<1>f. ASSUME CalmStep(c), OfferedInv'
      PROVE  ShakeInv'
  BY <1>a, <1>c, <1>d, <1>e, <1>f, CalmKeeps
<1>g. OfferedStep => OfferedInv'
  BY <1>d, OfferedKept
<1>h. \A t : Handle(c, t) => /\ ControlMessage(c) /\ Message(c).t = t /\ Expected = t
                             /\ MessageIs(c) /\ controlBuffer' \in {None, controlBuffer}
  BY <1>a, <1>c, MessageFields DEF Handle, ControlMessage
\* A step without a reply.
<1>i. ASSUME UNCHANGED <<toSend, session, selecting>>, controlBuffer' \in {None, controlBuffer},
             peer' = None \/ (peer' = peer /\ state' \notin Ungreeted \cup {"waitPairResponse"})
                          \/ UNCHANGED <<peer, state>>
      PROVE  CalmStep(c)
  BY <1>b, <1>i DEF CalmStep
\* A reply that is calm.
<1>j. ASSUME NEW ms \in Seq(ToSendFrame), Reply(ms), NoGreeting(ms), AllFull(ms, c),
             Unlisted(c) => NoAnswer(ms),
             UNCHANGED <<session, selecting>>, controlBuffer' \in {None, controlBuffer},
             peer' = None \/ (peer' = peer /\ state' \notin Ungreeted \cup {"waitPairResponse"})
                          \/ UNCHANGED <<peer, state>>
                          \/ (peer' = peer /\ state \in Ungreeted /\ state' \in Ungreeted)
      PROVE  CalmStep(c)
  <2>1. /\ NoGreeting(toSend[c]) => NoGreeting(toSend'[c])
        /\ OneGreeting(toSend[c]) => OneGreeting(toSend'[c])
        /\ AllFull(toSend[c], c) => AllFull(toSend'[c], c)
        /\ Unlisted(c) /\ NoAnswer(toSend[c]) => NoAnswer(toSend'[c])
    BY <1>c, <1>j, CalmReply
  <2> QED
    BY <1>a, <1>b, <1>j, <2>1 DEF CalmStep, Ungreeted
<1>k. ASSUME UNCHANGED <<session, selecting, files, acceptedIDs>>, controlBuffer' \in {None, controlBuffer},
             peer' = None \/ (peer' = peer /\ (state' = state \/ state' # "waitPairResponse"))
      PROVE  OfferedInv'
  BY <1>g, <1>k DEF OfferedStep
<1>1. CASE HandleNonce(c)
  <2>1. state = "waitNonce" /\ state' \in Ungreeted
    BY <1>1, <1>c, <1>h DEF HandleNonce, Expected, ReceiverTypeOK, State, Ungreeted
  <2>2. /\ <<NonceMsg(c)>> \in Seq(ToSendFrame) /\ Reply(<<NonceMsg(c)>>)
        /\ NoGreeting(<<NonceMsg(c)>>) /\ NoAnswer(<<NonceMsg(c)>>) /\ AllFull(<<NonceMsg(c)>>, c)
    BY <1>1, <1>a, Replyable, ReplyKinds, NoMessages DEF HandleNonce
  <2>3. /\ UNCHANGED <<session, selecting, files, acceptedIDs, peer>> /\ controlBuffer' \in {None, controlBuffer}
    BY <1>1, <1>h DEF HandleNonce
  <2>4. CalmStep(c)
    BY <1>j, <2>1, <2>2, <2>3 DEF Ungreeted
  <2> QED
    BY <1>f, <1>k, <2>1, <2>3, <2>4 DEF Ungreeted
<1>2. CASE HandleToken(c)
  <2>1. /\ state = "waitToken" /\ finalNonce \in Nonce \cup {None}
        /\ UNCHANGED <<session, selecting, files, acceptedIDs, peer>> /\ controlBuffer' \in {None, controlBuffer}
        /\ state' \in {"waitPin", "waitFileList"}
    BY <1>2, <1>c, <1>h DEF HandleToken, Expected, ReceiverTypeOK, State
  <2>2. OfferedInv'
    BY <1>k, <2>1
  <2>3. CASE PinSet
    <3>1. Reply(<<Status("PIN_REQUIRED", finalNonce)>>) /\ state' = "waitPin"
      BY <1>2, <2>3 DEF HandleToken
    <3>2. /\ <<Status("PIN_REQUIRED", finalNonce)>> \in Seq(ToSendFrame)
          /\ NoGreeting(<<Status("PIN_REQUIRED", finalNonce)>>)
          /\ NoAnswer(<<Status("PIN_REQUIRED", finalNonce)>>)
          /\ AllFull(<<Status("PIN_REQUIRED", finalNonce)>>, c)
      BY <2>1, Replyable, ReplyKinds, NoMessages
    <3>3. CalmStep(c)
      BY <1>j, <2>1, <3>1, <3>2 DEF Ungreeted
    <3> QED
      BY <1>f, <2>2, <3>3
  <2>4. CASE ~PinSet
    <3>1. Reply(<<Status("OK", finalNonce)>>) /\ state' = "waitFileList" /\ state \in Ungreeted
      BY <1>2, <2>1, <2>4 DEF HandleToken, Ungreeted
    <3> QED
      BY <1>a, <1>b, <1>c, <1>d, <1>e, <2>1, <2>2, <3>1, GreetKeeps
  <2> QED
    BY <2>3, <2>4
<1>3. CASE PinCorrect(c)
  <2>1. /\ state = "waitPin" /\ state' = "waitFileList" /\ Reply(<<Status("OK", None)>>)
        /\ UNCHANGED <<session, selecting, files, acceptedIDs, peer>> /\ controlBuffer' \in {None, controlBuffer}
    BY <1>3, <1>c, <1>h DEF PinCorrect, Expected, ReceiverTypeOK, State
  <2>2. OfferedInv'
    BY <1>k, <2>1
  <2>3. state \in Ungreeted
    BY <2>1 DEF Ungreeted
  <2> QED
    BY <1>a, <1>b, <1>c, <1>d, <1>e, <2>1, <2>2, <2>3, GreetKeeps
<1>4. CASE PinWrong(c)
  <2>1. PICK st \in {"PIN_REQUIRED", "TOO_MANY_ATTEMPTS"} : Reply(<<Status(st, None)>>)
    BY <1>4 DEF PinWrong
  <2>2. /\ <<Status(st, None)>> \in Seq(ToSendFrame) /\ NoGreeting(<<Status(st, None)>>)
        /\ NoAnswer(<<Status(st, None)>>) /\ AllFull(<<Status(st, None)>>, c)
    BY <2>1, Replyable, ReplyKinds, NoMessages
  <2>3. /\ UNCHANGED <<session, selecting, files, acceptedIDs>> /\ controlBuffer' \in {None, controlBuffer}
        /\ peer' = None \/ UNCHANGED <<peer, state>>
    BY <1>4, <1>h DEF PinWrong, Terminate, DropPeer
  <2>4. CalmStep(c)
    BY <1>j, <2>1, <2>2, <2>3
  <2> QED
    BY <1>f, <1>k, <2>3, <2>4
\* A message that is a list has been sent.
<1>l. ASSUME Handle(c, "list")
      PROVE  ~Unlisted(c) /\ Message(c) = ListMsg(FilesOf(c)) /\ state = "waitFileList"
  <2>1. Message(c).t = "list" /\ ~Binary(Frame(c)) /\ Message(c) # None
    BY <1>h, <1>l DEF ControlMessage
  <2>2. Message(c) = controlBuffer
    BY <2>1 DEF Message, Binary
  <2>3. controlBuffer \notin {None, Garbage}
    BY <2>1, <2>2 DEF Garbage
  <2>4. state = "waitFileList"
    BY <1>c, <1>h, <1>l DEF Expected, ReceiverTypeOK, State
  <2> QED
    BY <1>a, <1>d, <2>2, <2>3, <2>4 DEF ListOne, OfferedInv
<1>5. CASE HandleFileList(c)
  <2>1. /\ ~Unlisted(c) /\ files' = FilesOf(c) /\ state = "waitFileList"
        /\ UNCHANGED <<session, peer, state, toSend>> /\ controlBuffer' \in {None, controlBuffer}
    BY <1>5, <1>h, <1>l DEF HandleFileList, ListMsg
  <2>2. CalmStep(c)
    BY <1>b, <2>1 DEF CalmStep
  <2>3. OfferedInv'
    BY <1>a, <1>d, <2>1 DEF OfferedInv
  <2> QED
    BY <1>f, <2>2, <2>3
\* A connection that has answered PAIR has sent its list.
<1>m. ASSUME EmptyList(c)
      PROVE  ~Unlisted(c) /\ state = "waitFileList" /\ controlBuffer' \in {None, controlBuffer}
  <2>1. ControlMessage(c) /\ Message(c).t = "pair" /\ Expected = "list"
    BY <1>m DEF EmptyList, LooksEmpty, PairMsg
  <2>2. Message(c) = Frame(c)
    BY <1>a, <1>c, <2>1, MessageFields DEF ControlMessage, MessageIs
  <2>3. ~NoList(toRecv[c])
    BY <1>b, <2>1, <2>2, GreetingTaken
  <2>4. state = "waitFileList"
    BY <1>c, <2>1 DEF Expected, ReceiverTypeOK, State
  <2> QED
    BY <1>d, <2>1, <2>3, <2>4 DEF ListOne, ControlMessage
<1>6. CASE TooManyFiles(c) \/ EmptyList(c)
  <2>1. /\ ~Unlisted(c) /\ Reply(<<Answer("DECLINED", {}), Delimiter>>) /\ {} \in SUBSET File
        /\ UNCHANGED <<session, peer, state, selecting>> /\ state = "waitFileList"
        /\ controlBuffer' \in {None, controlBuffer}
    BY <1>6, <1>h, <1>l, <1>m DEF TooManyFiles, EmptyList
  <2>2. /\ <<Answer("DECLINED", {}), Delimiter>> \in Seq(ToSendFrame)
        /\ NoGreeting(<<Answer("DECLINED", {}), Delimiter>>)
        /\ AllFull(<<Answer("DECLINED", {}), Delimiter>>, c)
    BY <2>1, Replyable, ReplyKinds
  <2>3. CalmStep(c)
    BY <1>j, <2>1, <2>2
  <2>4. OfferedInv'
    BY <1>a, <1>d, <2>1 DEF OfferedInv
  <2> QED
    BY <1>f, <2>3, <2>4
<1>7. CASE PairAccepted(c) \/ PairUnverified(c)
  <2>1. /\ state = "waitPairResponse" /\ state' \in {"waitFiles", state}
        /\ UNCHANGED <<session, peer, selecting, files, acceptedIDs>> /\ controlBuffer' \in {None, controlBuffer}
        /\ Reply(<<Answer("OK", PreparedFiles(acceptedIDs)), Delimiter>>)
    BY <1>7, <1>c, <1>h DEF PairAccepted, PairUnverified, AcceptFiles, Expected, ReceiverTypeOK, State
  <2>2. ~Unlisted(c)
    BY <1>a, <1>d, <2>1 DEF ListOne
  <2>3. PreparedFiles(acceptedIDs) \in SUBSET File /\ Wanted(c) \subseteq PreparedFiles(acceptedIDs)
    BY <1>a, <1>c, <1>d, <2>1 DEF PreparedFiles, OfferedInv, Wanted, ReceiverTypeOK
  <2>4. /\ <<Answer("OK", PreparedFiles(acceptedIDs)), Delimiter>> \in Seq(ToSendFrame)
        /\ NoGreeting(<<Answer("OK", PreparedFiles(acceptedIDs)), Delimiter>>)
        /\ AllFull(<<Answer("OK", PreparedFiles(acceptedIDs)), Delimiter>>, c)
    BY <2>3, Replyable, ReplyKinds
  <2>5. CalmStep(c)
    BY <1>j, <2>1, <2>2, <2>4 DEF Ungreeted
  <2> QED
    BY <1>f, <1>k, <2>1, <2>5
<1>8. CASE PairDeclined(c) \/ PairFailed(c)
  <2>1. /\ UNCHANGED <<session, selecting, files, acceptedIDs, toSend>> /\ controlBuffer' \in {None, controlBuffer}
        /\ peer' = None \/ UNCHANGED <<peer, state>>
    BY <1>8, <1>h DEF PairDeclined, PairFailed, Terminate, DropPeer
  <2> QED
    BY <1>f, <1>i, <1>k, <2>1
<1>9. CASE \/ HandleFileHeader(c) \/ RejectHeader(c) \/ HandleBinaryData(c) \/ TooMuchData(c)
           \/ RejectGarbage(c) \/ WriteGarbage(c) \/ IgnoreFrame(c)
  <2>1. /\ UNCHANGED <<session, selecting, files, acceptedIDs, toSend>> /\ controlBuffer' \in {None, controlBuffer}
        /\ \/ peer' = None \/ (peer' = peer /\ state' = "receivingFiles") \/ UNCHANGED <<peer, state>>
    BY <1>9, <1>h DEF HandleFileHeader, StartReceivingFile, RejectHeader, HandleBinaryData, TooMuchData,
       RejectGarbage, WriteGarbage, GarbageAsData, ControlMessage, RejectData, RejectFileTransfer, DropPeer,
       IgnoreFrame
  <2>2. CalmStep(c)
    BY <1>i, <2>1 DEF Ungreeted
  <2> QED
    BY <1>f, <1>k, <2>1, <2>2
<1>10. CASE FinishLast(c) \/ FinishThenNext(c) \/ FinishThenReject(c) \/ FinishThenStop(c)
  <2>1. FinishCurrentFile(c)
    BY <1>10 DEF FinishLast, FinishThenNext, FinishThenReject, FinishThenStop
  <2>2. /\ UNCHANGED <<session, selecting, files, acceptedIDs>> /\ controlBuffer' \in {None, controlBuffer}
        /\ \/ peer' = None \/ (peer' = peer /\ state' = "receivingFiles")
    BY <1>10, <2>1 DEF FinishLast, FinishThenNext, FinishThenReject, FinishThenStop, FinishCurrentFile,
       StartReceivingFile, RejectFileTransfer, Terminate, DropPeer
  <2>3. PICK ok \in BOOLEAN : Reply(<<FileResponse(currentFileID, ok)>>)
    BY <2>1 DEF FinishCurrentFile, Success, DiskOutcome, Acknowledge
  <2>4. currentFileID \in File
    BY <1>c, <2>1 DEF FinishCurrentFile, Receiving, ReceiverTypeOK
  <2>5. /\ <<FileResponse(currentFileID, ok)>> \in Seq(ToSendFrame)
        /\ NoGreeting(<<FileResponse(currentFileID, ok)>>) /\ NoAnswer(<<FileResponse(currentFileID, ok)>>)
        /\ AllFull(<<FileResponse(currentFileID, ok)>>, c)
    BY <2>3, <2>4, Replyable, ReplyKinds, NoMessages
  <2>6. CalmStep(c)
    BY <1>j, <2>2, <2>3, <2>5 DEF Ungreeted
  <2> QED
    BY <1>f, <1>k, <2>2, <2>6
<1>11. CASE CollectControl(c)
  <2>1. /\ UNCHANGED <<session, peer, state, selecting, files, acceptedIDs, toSend>>
        /\ controlBuffer' = Garbage \/ (Frame(c).t = "list" /\ controlBuffer' = Frame(c))
    BY <1>11 DEF CollectControl
  <2>2. CASE controlBuffer' = Garbage
    <3>1. CalmStep(c)
      BY <1>b, <2>1, <2>2 DEF CalmStep
    <3>2. OfferedInv'
      BY <1>g, <2>1, <2>2 DEF OfferedStep
    <3> QED
      BY <1>f, <3>1, <3>2
  <2>3. CASE Frame(c).t = "list" /\ controlBuffer' = Frame(c)
    <3>1. ~NoList(toRecv[c])
      BY <1>b, <2>3, GreetingTaken
    <3>2. ~Unlisted(c)
      BY <1>d, <3>1 DEF ListOne
    <3>3. CalmStep(c)
      BY <1>b, <2>1, <3>2 DEF CalmStep
    <3>4. controlBuffer' = ListMsg(FilesOf(session')) /\ session' # None
      BY <1>a, <2>1, <2>3 DEF FieldsOf
    <3>5. OfferedInv'
      BY <1>d, <2>1, <3>4 DEF OfferedInv, Wanted
    <3> QED
      BY <1>f, <3>3, <3>5
  <2> QED
    BY <2>1, <2>2, <2>3
<1> QED
  BY <1>1, <1>2, <1>3, <1>4, <1>5, <1>6, <1>7, <1>8, <1>9, <1>10, <1>11 DEF HandleFrame

\* So do the receiver's other steps.
LEMMA ShakeOthers ==
    ASSUME QInv, ShakeInv, UNCHANGED senderVars,
           \/ \E c \in Conn : \/ ReserveSession(c) \/ FailAccept(c) \/ InstallPeer(c) \/ SelectFiles(c)
                              \/ HandlePeerClosed(c) \/ CloseRecvEnd(c)
           \/ CloseReceiver
           \/ \E f \in File : StaleWatchdog(f) \/ CheckTransferWatchdog(f)
           \/ \E p \in Peer : BlockExpires(p)
    PROVE  ShakeInv'
<1> USE WireAssumption DEF handshakeVars, listVars, writeVars, watchVars, storeVars, wireVars, receiverVars
<1>a. /\ ToSendOK /\ peer \in Conn \cup {None} /\ WTypes /\ ReceiverTypeOK /\ BaseInv /\ SelectInv
      /\ recvEnd \in [Conn -> {"none", "open", "dropped", "closed"}] /\ OfferedInv /\ confirmed \subseteq saved
  BY DEF ToSendOK, QInv, BaseInv, WTypes, WireTypeOK, ReceiverTypeOK, ShakeInv
<1>b. ASSUME EndsStay, saved \subseteq saved', \A d \in Conn : CalmStep(d), OfferedInv'
      PROVE  ShakeInv'
  <2>1. \A d \in Conn : ShakeOne(d)' /\ WantOne(d)'
    BY <1>a, <1>b, CalmKeeps DEF ShakeInv
  <2>2. confirmed' \subseteq saved'
    BY <1>a, <1>b DEF senderVars, queueVars
  <2> QED
    BY <1>b, <2>1, <2>2 DEF ShakeInv
\* Most steps end the session, or leave it alone.
<1>c. ASSUME UNCHANGED <<toSend, selecting>>, \A d \in Conn : Behind(toRecv'[d], toRecv[d]), EndsStay,
             saved \subseteq saved',
             controlBuffer' = None \/ UNCHANGED <<controlBuffer, session>>,
             peer' = None \/ UNCHANGED <<peer, state, files, acceptedIDs>>
      PROVE  ShakeInv'
  <2>1. OfferedInv'
    BY <1>a, <1>c, OfferedKept DEF OfferedStep
  <2>2. \A d \in Conn : CalmStep(d)
    BY <1>c DEF CalmStep
  <2> QED
    BY <1>b, <1>c, <2>1, <2>2
<1>d. UNCHANGED toRecv => \A d \in Conn : Behind(toRecv'[d], toRecv[d])
  BY DEF Behind
<1>e. DropPeer => EndsStay /\ peer' = None
  BY <1>a, DropStays
<1>f. UNCHANGED recvEnd => EndsStay
  BY DEF EndsStay
<1>1. ASSUME NEW c \in Conn, ReserveSession(c) \/ HandlePeerClosed(c)
      PROVE  ShakeInv'
  BY <1>1, <1>c, <1>d, <1>e DEF ReserveSession, HandlePeerClosed, Terminate
<1>2. ASSUME NEW c \in Conn, FailAccept(c)
      PROVE  ShakeInv'
  <2>1. EndsStay
    BY <1>2, <1>a DEF FailAccept, EndsStay
  <2>2. peer' = None
    BY <1>2 DEF FailAccept, QInv, BaseInv, RCore, EndsInv
  <2> QED
    BY <1>2, <1>c, <1>d, <2>1, <2>2 DEF FailAccept
<1>3. ASSUME NEW c \in Conn, InstallPeer(c)
      PROVE  ShakeInv'
  <2>1. recvEnd[c] = "none" /\ peer = None /\ state = "waitNonce" /\ selecting = {}
    BY <1>3, <1>a DEF InstallPeer, QInv, BaseInv, RCore, EndsInv, ReservedInv, SelectInv
  <2>2. /\ EndsStay /\ UNCHANGED <<toRecv, toSend, session, controlBuffer, selecting, state, saved>> /\ peer' = c
        /\ recvEnd'[c] = "open"
    BY <1>3, <1>a DEF InstallPeer, EndsStay
  <2>3. OfferedInv'
    BY <1>a, <2>1, <2>2 DEF OfferedInv
  <2>4. UNCHANGED <<main, sstate, sBuffer, acceptedCh, todo, sending, announced, confirmed>>
    BY DEF senderVars, queueVars
  <2>5. ShakeOne(c)'
    <3>1. ShakeOne(c) /\ toSend[c] = <<>> /\ sstate[c] \in {"init", "done"}
      BY <2>1 DEF ShakeInv, ShakeOne, FreshOne
    <3>2. ListOne(c)'
      BY <2>1, <2>2, <2>4, <3>1 DEF ShakeOne, ListOne, Unlisted
    <3>3. GreetOne(c)'
      BY <2>2, <2>4, <3>1, NoMessages DEF GreetOne
    <3>4. AnswerOne(c)' /\ FreshOne(c)'
      BY <2>2, <2>4, <3>1 DEF ShakeOne, AnswerOne, FreshOne, FullAnswer, Wanted
    <3> QED
      BY <3>2, <3>3, <3>4 DEF ShakeOne
  <2>6. WantOne(c)'
    BY <2>4 DEF ShakeInv, WantOne, Wanted
  <2>7. ASSUME NEW d \in Conn, d # c
        PROVE  ShakeOne(d)' /\ WantOne(d)'
    <3>1. CalmStep(d)
      BY <2>2, <2>7 DEF CalmStep, Behind
    <3> QED
      BY <1>a, <2>2, <3>1, CalmKeeps DEF ShakeInv
  <2>8. confirmed' \subseteq saved'
    BY <1>a, <2>2, <2>4
  <2> QED
    BY <2>3, <2>5, <2>6, <2>7, <2>8 DEF ShakeInv
<1>4. ASSUME NEW c \in Conn, SelectFiles(c)
      PROVE  ShakeInv'
  <2>1. /\ c \in selecting /\ selecting' = selecting \ {c} /\ acceptedIDs' = Wanted(c)
        /\ UNCHANGED <<toRecv, recvEnd, peer, session, controlBuffer, files, saved>>
    BY <1>4 DEF SelectFiles, Wanted
  <2>2. EndsStay /\ \A d \in Conn : Behind(toRecv'[d], toRecv[d])
    BY <1>d, <1>f, <2>1
  <2>3. CASE peer = None
    <3>1. UNCHANGED <<toSend, state>>
      BY <1>4, <2>3 DEF SelectFiles
    <3>2. \A d \in Conn : CalmStep(d)
      BY <2>1, <2>2, <2>3, <3>1 DEF CalmStep
    <3>3. OfferedInv'
      BY <1>a, <2>1, <2>3, OfferedKept DEF OfferedStep
    <3> QED
      BY <1>b, <2>1, <2>2, <3>2, <3>3
  <2>4. CASE peer # None
    <3>1. c = peer /\ state = "waitFileList" /\ files = FilesOf(c) /\ ~Unlisted(c)
      BY <1>a, <2>1, <2>4 DEF SelectInv, OfferedInv, ShakeInv, ShakeOne, ListOne
    <3>2. state' \in {"waitFileList", "waitPairResponse", "waitFiles"}
      BY <1>4, <2>4, <3>1 DEF SelectFiles, AcceptFiles
    <3>3. OfferedInv'
      BY <1>a, <2>1, <3>1 DEF OfferedInv, Wanted
    <3>4. PICK st \in {"OK", "PAIR", "DECLINED"}, F \in SUBSET File :
             /\ Reply(<<Answer(st, F), Delimiter>>)
             /\ AllFull(<<Answer(st, F), Delimiter>>, c)
      <4>1. CASE Reply(<<Answer("DECLINED", {}), Delimiter>>) \/ Reply(<<Answer("PAIR", {}), Delimiter>>)
        <5>1. {} \in SUBSET File
          OBVIOUS
        <5> QED
          BY <4>1, <5>1, ReplyKinds
      <4>2. CASE AcceptFiles(FilesOf(c) \cap Allowed)
        <5> DEFINE G == PreparedFiles(FilesOf(c) \cap Allowed)
        <5>1. G \in SUBSET File /\ Wanted(c) \subseteq G
          BY <1>a, <3>1 DEF PreparedFiles, Wanted, ReceiverTypeOK
        <5>2. Reply(<<Answer("OK", G), Delimiter>>)
          BY <4>2 DEF AcceptFiles
        <5>3. AllFull(<<Answer("OK", G), Delimiter>>, c)
          BY <5>1, ReplyKinds
        <5> HIDE DEF G
        <5> QED
          BY <5>1, <5>2, <5>3
      <4> QED
        BY <1>4, <2>4, <4>1, <4>2 DEF SelectFiles
    <3>5. /\ <<Answer(st, F), Delimiter>> \in Seq(ToSendFrame)
          /\ NoGreeting(<<Answer(st, F), Delimiter>>)
      BY Replyable, ReplyKinds
    <3>6. ASSUME NEW d \in Conn
          PROVE  CalmStep(d)
      <4>1. ASSUME NEW ms \in Seq(ToSendFrame), Reply(ms), NoGreeting(ms), AllFull(ms, c)
            PROVE  /\ toSend'[d] = toSend[d] \/ peer = d
                   /\ NoGreeting(toSend[d]) => NoGreeting(toSend'[d])
                   /\ OneGreeting(toSend[d]) => OneGreeting(toSend'[d])
                   /\ AllFull(toSend[d], d) => AllFull(toSend'[d], d)
                   /\ Unlisted(d) /\ NoAnswer(toSend[d]) => NoAnswer(toSend'[d])
        <5>1. peer = d => AllFull(ms, d) /\ (Unlisted(d) => NoAnswer(ms))
          BY <3>1, <4>1
        <5> QED
          BY <1>a, <4>1, <5>1, CalmReply
      <4>2. /\ toSend'[d] = toSend[d] \/ peer = d
            /\ NoGreeting(toSend[d]) => NoGreeting(toSend'[d])
            /\ OneGreeting(toSend[d]) => OneGreeting(toSend'[d])
            /\ AllFull(toSend[d], d) => AllFull(toSend'[d], d)
            /\ Unlisted(d) /\ NoAnswer(toSend[d]) => NoAnswer(toSend'[d])
        BY <3>4, <3>5, <4>1
      <4> QED
        BY <2>1, <2>2, <3>1, <3>2, <4>2 DEF CalmStep, Ungreeted
    <3> QED
      BY <1>b, <2>1, <2>2, <3>3, <3>6
  <2> QED
    BY <2>3, <2>4
<1>5. ASSUME NEW c \in Conn, CloseRecvEnd(c)
      PROVE  ShakeInv'
  <2>1. EndsStay /\ \A d \in Conn : Behind(toRecv'[d], toRecv[d])
    BY <1>5, <1>a DEF CloseRecvEnd, EndsStay, Behind, WTypes, WireTypeOK
  <2> QED
    BY <1>5, <1>c, <2>1 DEF CloseRecvEnd
<1>6. CASE CloseReceiver
  <2>1. EndsStay
    BY <1>6, <1>a DEF CloseReceiver, EndsStay
  <2> QED
    BY <1>6, <1>c, <1>d, <2>1 DEF CloseReceiver
<1>7. ASSUME NEW f \in File, StaleWatchdog(f) \/ CheckTransferWatchdog(f)
      PROVE  ShakeInv'
  BY <1>7, <1>c, <1>d, <1>e, <1>f DEF StaleWatchdog, CheckTransferWatchdog, Terminate
<1>8. ASSUME NEW p \in Peer, BlockExpires(p)
      PROVE  ShakeInv'
  BY <1>8, <1>c, <1>d, <1>f DEF BlockExpires
<1> QED
  BY <1>1, <1>2, <1>3, <1>4, <1>5, <1>6, <1>7, <1>8

\* A queue without a list, to which something else is sent, has none.
LEMMA NoListSent ==
    ASSUME ToRecvOK, NEW c \in Conn, NEW ms \in Seq(From(c)), SendFrames(c, ms), NoList(ms), NoList(toRecv[c])
    PROVE  NoList(toRecv'[c])
<1>1. toRecv[c] \in Seq(From(c)) /\ toRecv'[c] \in {toRecv[c], toRecv[c] \o ms}
  BY AfterSend
<1> QED
  BY <1>1, MoreMessages

\* A step of one sender leaves the work of the others alone.
WorkOf(c) ==
    \A d \in Conn : d # c =>
        /\ sBuffer'[d] = sBuffer[d] /\ todo'[d] = todo[d]
        /\ sending'[d] = sending[d] /\ announced'[d] = announced[d]

\* What every step of a sender does to the work of the others, and to what is confirmed.
LEMMA OneWorker ==
    ASSUME BaseInv, NEW c \in Conn, SenderStep(c)
    PROVE  WorkOf(c) /\ confirmed \subseteq confirmed'
<1> USE DEF queueVars, wireVars, senderVars
<1>a. /\ \E S : sBuffer \in [Conn -> S]
      /\ \E S : todo \in [Conn -> S]
      /\ \E S : sending \in [Conn -> S]
      /\ \E S : announced \in [Conn -> S]
  BY DEF BaseInv, STypes, SenderTypeOK, PlacesTyped
<1>1. CASE AnswerArrives(c) \/ TakeAccepted(c) \/ GiveUp(c)
  BY <1>1, <1>a DEF AnswerArrives, TakeAccepted, GiveUp, WorkOf
<1>2. CASE StartQueue(c) \/ SendChunk(c) \/ EndFile(c)
  BY <1>2, <1>a DEF StartQueue, SendChunk, EndFile, WorkOf
<1>3. CASE TakeResult(c) \/ Flush(c) \/ CloseSender(c) \/ SenderPeerClosed(c)
  BY <1>3, <1>a DEF TakeResult, Flush, CloseSender, SenderPeerClosed, WorkOf
<1>4. CASE SCollectControl(c) \/ HandleFileResponse(c) \/ Refused(c) \/ FilesAccepted(c) \/ SIgnoreFrame(c)
  BY <1>4, <1>a DEF SCollectControl, HandleFileResponse, Refused, FilesAccepted, SIgnoreFrame,
     SControlMessage, WorkOf
<1>5. CASE HandleNonceResponse(c) \/ HandleTokenResponse(c) \/ PairRequested(c)
  BY <1>5, <1>a DEF HandleNonceResponse, HandleTokenResponse, PairRequested, SControlMessage, WorkOf
<1> QED
  BY <1>1, <1>2, <1>3, <1>4, <1>5 DEF SenderStep, MainStep, HandlerStep

\* The sender's view of the receiver.
SameReceiver == UNCHANGED <<recvEnd, peer, state, session, controlBuffer, selecting>>

\* The other senders keep their handshakes and their wanted files.
LEMMA OthersShake ==
    ASSUME ShakeInv, NEW c \in Conn, OnlyOf(c), WorkOf(c), confirmed \subseteq confirmed', SameReceiver,
           NEW d \in Conn, d # c
    PROVE  ShakeOne(d)' /\ WantOne(d)'
<1>1. /\ ShakeOne(d) /\ WantOne(d)
      /\ toRecv'[d] = toRecv[d] /\ toSend'[d] = toSend[d] /\ main'[d] = main[d]
      /\ acceptedCh'[d] = acceptedCh[d] /\ sstate'[d] = sstate[d]
      /\ sBuffer'[d] = sBuffer[d] /\ todo'[d] = todo[d]
      /\ sending'[d] = sending[d] /\ announced'[d] = announced[d]
  BY DEF ShakeInv, OnlyOf, WorkOf
<1>2. ListOne(d)'
  BY <1>1 DEF ShakeOne, ListOne, Unlisted, SameReceiver
<1>3. GreetOne(d)'
  BY <1>1 DEF ShakeOne, GreetOne, SameReceiver
<1>4. AnswerOne(d)' /\ FreshOne(d)'
  BY <1>1 DEF ShakeOne, AnswerOne, FreshOne, FullAnswer, Wanted, SameReceiver
<1>5. WantOne(d)'
  BY <1>1 DEF WantOne, Wanted
<1> QED
  BY <1>2, <1>3, <1>4, <1>5 DEF ShakeOne

\* What a sender does when it neither lists, nor collects, nor accepts an answer.
CalmSender(c) ==
    /\ Behind(toSend'[c], toSend[c])
    /\ Unlisted(c)' => Unlisted(c) /\ (NoList(toRecv[c]) => NoList(toRecv'[c]))
    /\ sBuffer'[c] \in {None, sBuffer[c]} /\ acceptedCh'[c] \in {None, acceptedCh[c]}
    /\ sstate'[c] = "waitFileAccept" => sstate[c] = "waitFileAccept"
    /\ sstate'[c] = "sendingFiles" => sstate[c] = "sendingFiles"
    /\ recvEnd[c] = "none" => sstate'[c] \in {"init", "done"}

\* Then what holds of its handshake goes on to hold.
LEMMA CalmSenderKeeps ==
    ASSUME BaseInv, NEW c \in Conn, ShakeOne(c), SameReceiver, CalmSender(c)
    PROVE  ShakeOne(c)'
<1>1. toSend[c] \in Seq(ToSendFrame) /\ Behind(toSend'[c], toSend[c])
  BY DEF BaseInv, WTypes, WireTypeOK, CalmSender
<1>2. /\ NoAnswer(toSend[c]) => NoAnswer(toSend'[c])
      /\ NoGreeting(toSend[c]) => NoGreeting(toSend'[c])
      /\ OneGreeting(toSend[c]) => OneGreeting(toSend'[c])
      /\ AllFull(toSend[c], c) => AllFull(toSend'[c], c)
  BY <1>1, FewerMessages
<1>3. ListOne(c)'
  BY <1>2 DEF ShakeOne, ListOne, CalmSender, SameReceiver
<1>4. GreetOne(c)'
  BY <1>2 DEF ShakeOne, GreetOne, CalmSender, SameReceiver
<1>5. AnswerOne(c)'
  BY <1>2 DEF ShakeOne, AnswerOne, CalmSender, FullAnswer, Wanted
<1>6. FreshOne(c)'
  BY <1>1 DEF ShakeOne, FreshOne, CalmSender, SameReceiver, Behind
<1> QED
  BY <1>3, <1>4, <1>5, <1>6 DEF ShakeOne

\* A command that gives up, or does not move, keeps its wanted files.
LEMMA WantKept ==
    ASSUME NEW c \in Conn, WantOne(c), main'[c] \in {main[c], "failed"}, confirmed \subseteq confirmed',
           todo'[c] = todo[c], sending'[c] = sending[c], announced'[c] = announced[c]
    PROVE  WantOne(c)'
BY DEF WantOne, Wanted

\* The steps of the command: no wanted file is left out on the way from the answer to the
\* last acknowledgement.
LEMMA ShakeMain ==
    ASSUME QInv, PipeInv, ShakeInv, NEW c \in Conn, MainStep(c) \/ SenderPeerClosed(c), SameReceiver
    PROVE  ShakeOne(c)' /\ WantOne(c)'
<1> USE WireAssumption DEF queueVars, wireVars, senderVars
<1>a. /\ toRecv \in [Conn -> Seq(ToRecvFrame)] /\ toSend \in [Conn -> Seq(ToSendFrame)] /\ ToRecvOK
      /\ main \in [Conn -> Main] /\ sstate \in [Conn -> SenderState]
      /\ acceptedCh \in [Conn -> {None} \cup SUBSET File]
      /\ todo \in [Conn -> SUBSET File]
      /\ sending \in [Conn -> File \cup {None}] /\ announced \in [Conn -> File \cup {None}]
      /\ QueueInv /\ BaseInv
  BY DEF QInv, BaseInv, WTypes, WireTypeOK, ToRecvOK, STypes, SenderTypeOK, PlacesTyped
<1>b. PhaseOne(c) /\ ShakeOne(c) /\ WantOne(c) /\ AnswerOne(c)
  BY DEF PipeInv, ShakeInv, ShakeOne
<1>c. CalmSender(c) => ShakeOne(c)'
  BY <1>a, <1>b, CalmSenderKeeps
<1>d. main[c] \in {"queue", "data", "waitAck", "flush", "success"} => ~Unlisted(c) /\ recvEnd[c] # "none"
  BY <1>b DEF PhaseOne, Unlisted
<1>e. Wanted(c) \subseteq FilesOf(c) /\ None \notin Wanted(c)
  BY DEF Wanted, FilesOf
\* A step that neither receives nor moves the handshake.
<1>f. ASSUME UNCHANGED <<toSend, sBuffer, sstate>>, acceptedCh'[c] \in {None, acceptedCh[c]},
             main[c] # "waitAnswer", main'[c] # "waitAnswer", ~Unlisted(c) \/ UNCHANGED toRecv
      PROVE  CalmSender(c)
  BY <1>b, <1>f DEF CalmSender, Behind, Unlisted, ShakeOne, FreshOne
<1>1. CASE AnswerArrives(c)
  <2>1. /\ main[c] = "waitAnswer" /\ main'[c] = "waitAccept" /\ sstate'[c] = "waitNonce"
        /\ recvEnd[c] # "none" /\ UNCHANGED <<toSend, sBuffer, acceptedCh, todo, sending, announced, confirmed>>
        /\ SendFrames(c, <<NonceMsg(c)>>)
    BY <1>1, <1>a DEF AnswerArrives, Goto, SetState
  <2>2. NoList(toRecv[c]) => NoList(toRecv'[c])
    <3>1. NoList(<<NonceMsg(c)>>)
      BY DEF NoList, NonceMsg
    <3>2. <<NonceMsg(c)>> \in Seq(From(c))
      BY Sendable
    <3> QED
      BY <1>a, <2>1, <3>1, <3>2, NoListSent
  <2>3. CalmSender(c)
    BY <2>1, <2>2 DEF CalmSender, Behind, Unlisted
  <2>4. WantOne(c)'
    BY <1>b, <2>1 DEF WantOne
  <2> QED
    BY <1>c, <2>3, <2>4
<1>2. CASE TakeAccepted(c)
  <2>1. /\ main[c] = "waitAccept" /\ main'[c] = "queue" /\ acceptedCh[c] # None /\ acceptedCh'[c] = None
        /\ todo'[c] = acceptedCh[c] \cap FilesOf(c)
        /\ UNCHANGED <<toRecv, toSend, sBuffer, sstate, sending, announced, confirmed>>
    BY <1>2, <1>a DEF TakeAccepted, Goto
  <2>2. WantOne(c)'
    BY <1>b, <1>e, <2>1 DEF WantOne, AnswerOne, Wanted
  <2> QED
    BY <1>c, <1>f, <2>1, <2>2
<1>3. CASE GiveUp(c)
  <2>1. /\ main'[c] = "failed"
        /\ UNCHANGED <<toRecv, toSend, sBuffer, sstate, acceptedCh, todo, sending, announced, confirmed>>
    BY <1>3, <1>a DEF GiveUp, Goto
  <2>2. WantOne(c)'
    BY <1>b, <2>1, WantKept
  <2>3. CalmSender(c)
    BY <1>b, <2>1 DEF CalmSender, Behind, Unlisted, ShakeOne, FreshOne
  <2> QED
    BY <1>c, <2>2, <2>3
<1>4. CASE StartQueue(c)
  <2>1. /\ main[c] = "queue" /\ UNCHANGED <<toSend, sBuffer, sstate, acceptedCh, announced, confirmed>>
        /\ \/ todo[c] = {} /\ main'[c] = "flush"
           \/ \E f \in todo[c] : todo'[c] = todo[c] \ {f} /\ sending'[c] = f /\ main'[c] = "data"
    BY <1>4, <1>a DEF StartQueue, Goto
  <2>2. WantOne(c)'
    BY <1>b, <2>1 DEF WantOne, Wanted
  <2>3. CalmSender(c)
    BY <1>d, <1>f, <2>1
  <2> QED
    BY <1>c, <2>2, <2>3
<1>5. CASE SendChunk(c)
  <2>1. /\ main[c] = "data" /\ main' = main
        /\ UNCHANGED <<toSend, sBuffer, sstate, acceptedCh, todo, sending, announced, confirmed>>
    BY <1>5 DEF SendChunk
  <2>2. WantOne(c)'
    BY <1>b, <2>1, WantKept
  <2>3. CalmSender(c)
    BY <1>d, <1>f, <2>1
  <2> QED
    BY <1>c, <2>2, <2>3
<1>6. CASE EndFile(c)
  <2>1. /\ main[c] = "data" /\ main'[c] = "waitAck"
        /\ UNCHANGED <<toSend, sBuffer, sstate, acceptedCh, sending, confirmed>>
        /\ \/ todo[c] = {} /\ UNCHANGED <<todo, announced>>
           \/ \E f \in todo[c] : todo'[c] = todo[c] \ {f} /\ announced'[c] = f
    BY <1>6, <1>a DEF EndFile, Goto
  <2>2. \A f \in todo[c] : f # None
    BY <1>a
  <2>3. WantOne(c)'
    BY <1>b, <2>1, <2>2 DEF WantOne, Wanted
  <2>4. CalmSender(c)
    BY <1>d, <1>f, <2>1
  <2> QED
    BY <1>c, <2>3, <2>4
<1>7. CASE TakeResult(c)
  <2>1. /\ main[c] = "waitAck" /\ UNCHANGED <<toRecv, toSend, sBuffer, sstate, acceptedCh, todo>>
        /\ \/ /\ main'[c] = IF announced[c] = None THEN "flush" ELSE "data"
              /\ confirmed' = confirmed \cup {sending[c]}
              /\ sending'[c] = announced[c] /\ announced'[c] = None
           \/ main'[c] = "failed"
    BY <1>7, <1>a DEF TakeResult, Goto
  <2>2. WantOne(c)'
    <3>1. CASE main'[c] = "failed"
      BY <3>1 DEF WantOne
    <3>2. CASE main'[c] # "failed" /\ announced[c] = None
      BY <1>b, <1>e, <2>1, <3>2 DEF WantOne, Wanted
    <3>3. CASE main'[c] # "failed" /\ announced[c] # None
      BY <1>b, <2>1, <3>3 DEF WantOne, Wanted
    <3> QED
      BY <3>1, <3>2, <3>3
  <2>3. CalmSender(c)
    BY <1>d, <1>f, <2>1
  <2> QED
    BY <1>c, <2>2, <2>3
<1>8. CASE Flush(c)
  <2>1. /\ main[c] = "flush" /\ main'[c] = "success" /\ sstate'[c] = "done"
        /\ UNCHANGED <<toRecv, toSend, sBuffer, acceptedCh, confirmed>>
    BY <1>8, <1>a DEF Flush, Goto, SetState
  <2>2. WantOne(c)'
    BY <1>b, <2>1 DEF WantOne, Wanted
  <2>3. CalmSender(c)
    BY <2>1 DEF CalmSender, Behind, Unlisted
  <2> QED
    BY <1>c, <2>2, <2>3
<1>9. CASE CloseSender(c) \/ SenderPeerClosed(c)
  <2>1. /\ toSend'[c] = <<>> /\ sstate'[c] \in {sstate[c], "done"}
        /\ UNCHANGED <<toRecv, main, sBuffer, acceptedCh, todo, sending, announced, confirmed>>
    BY <1>9, <1>a DEF CloseSender, SenderPeerClosed, SetState
  <2>2. WantOne(c)'
    BY <1>b, <2>1, WantKept
  <2>3. CalmSender(c)
    BY <1>b, <2>1 DEF CalmSender, Behind, Unlisted, ShakeOne, FreshOne
  <2> QED
    BY <1>c, <2>2, <2>3
<1> QED
  BY <1>1, <1>2, <1>3, <1>4, <1>5, <1>6, <1>7, <1>8, <1>9 DEF MainStep

\* The steps of the read loop.
LEMMA ShakeReplies ==
    ASSUME QInv, PipeInv, ShakeInv, NEW c \in Conn, HandlerStep(c), SameReceiver
    PROVE  ShakeOne(c)' /\ WantOne(c)'
<1> USE WireAssumption DEF queueVars, wireVars, senderVars
<1>a. /\ ToRecvOK /\ ToSendOK /\ PlacesTyped /\ BaseInv
      /\ main \in [Conn -> Main] /\ sstate \in [Conn -> SenderState]
      /\ acceptedCh \in [Conn -> {None} \cup SUBSET File]
      /\ sBuffer \in [Conn -> {None} \cup {m \in ToSendFrame : Binary(m)}]
  BY DEF QInv, BaseInv, WTypes, WireTypeOK, ToRecvOK, ToSendOK, STypes, SenderTypeOK, PlacesTyped
<1>b. /\ PhaseOne(c) /\ ShakeOne(c) /\ WantOne(c) /\ ListOne(c) /\ GreetOne(c) /\ AnswerOne(c) /\ FreshOne(c)
  BY DEF PipeInv, ShakeInv, ShakeOne
<1>c. CalmSender(c) => ShakeOne(c)'
  BY <1>a, <1>b, CalmSenderKeeps
<1>d. SIncoming(c) => /\ toSend[c] \in Seq(ToSendFrame) /\ toSend[c] # <<>>
                      /\ toSend'[c] = Tail(toSend[c]) /\ SFrame(c) = Head(toSend[c])
                      /\ Behind(toSend'[c], toSend[c]) /\ recvEnd[c] # "none"
  BY <1>a, <1>b, ReplyTaken DEF Behind, FreshOne
<1>e. SControlMessage(c) => /\ SIncoming(c) /\ SMessage(c) \in ToSendFrame /\ ReplyFields(SMessage(c))
                            /\ sBuffer'[c] \in {None, sBuffer[c]}
  BY <1>a, TakeMessage DEF SControlMessage
<1>f. \A f \in {"waitNonce", "waitToken", "waitPin", "waitFileAccept", "sendingFiles"} :
         sstate[c] = f => main[c] # "waitAnswer"
  BY <1>b DEF PhaseOne
<1>g. UNCHANGED <<main, todo, sending, announced, confirmed>> => WantOne(c)'
  BY <1>b, WantKept
\* Only a frame of its own is a status, and only the buffer holds an answer.
<1>h. ASSUME SControlMessage(c), SMessage(c).t = "status"
      PROVE  SMessage(c) = Head(toSend[c])
  <2>1. SFrame(c) # Delimiter
    <3> SUFFICES ASSUME SFrame(c) = Delimiter PROVE FALSE
      OBVIOUS
    <3>1. SMessage(c) = sBuffer[c] /\ sBuffer[c] # None
      BY <1>h DEF SMessage, SControlMessage
    <3>2. Binary(SMessage(c))
      BY <1>a, <3>1
    <3> QED
      BY <1>h, <3>2 DEF Binary
  <2> QED
    BY <1>d, <1>e, <1>h, <2>1 DEF SMessage
<1>i. ASSUME SControlMessage(c), SMessage(c).t = "answer"
      PROVE  SMessage(c) = sBuffer[c] /\ sBuffer[c] # None
  BY <1>i DEF SMessage, SControlMessage, Binary
<1>1. CASE SCollectControl(c)
  <2>1. /\ SIncoming(c) /\ Binary(SFrame(c)) /\ sBuffer'[c] = SFrame(c) /\ SFrame(c) \in ToSendFrame
        /\ UNCHANGED <<toRecv, main, sstate, acceptedCh, todo, sending, announced, confirmed>>
    BY <1>1, <1>a, TakeReply DEF SCollectControl
  <2>2. SFrame(c).t = "answer"
    BY <1>1, <1>a, <2>1, TakeReply DEF ReplyFields
  <2>3. ~NoAnswer(toSend[c]) /\ (AllFull(toSend[c], c) => FullAnswer(SFrame(c), c))
    BY <1>d, <2>1, <2>2, GreetingTaken
  <2>4. /\ NoGreeting(toSend[c]) => NoGreeting(toSend'[c])
        /\ OneGreeting(toSend[c]) => OneGreeting(toSend'[c])
        /\ AllFull(toSend[c], c) => AllFull(toSend'[c], c)
    BY <1>d, <2>1, FewerMessages
  <2>5. ~Unlisted(c) /\ ~Unlisted(c)'
    BY <1>b, <2>1, <2>3 DEF ListOne, Unlisted
  <2>6. ListOne(c)'
    BY <2>5 DEF ListOne
  <2>7. GreetOne(c)'
    BY <1>b, <2>1, <2>4 DEF GreetOne, SameReceiver
  <2>8. AnswerOne(c)'
    BY <1>b, <2>1, <2>3, <2>4 DEF AnswerOne, FullAnswer, Wanted
  <2>9. FreshOne(c)'
    BY <1>d, <2>1 DEF FreshOne, SameReceiver
  <2> QED
    BY <1>g, <2>1, <2>6, <2>7, <2>8, <2>9 DEF ShakeOne
<1>2. CASE HandleFileResponse(c)
  <2>1. /\ SControlMessage(c)
        /\ UNCHANGED <<toRecv, main, sstate, acceptedCh, todo, sending, announced, confirmed>>
    BY <1>2 DEF HandleFileResponse
  <2>2. CalmSender(c)
    BY <1>d, <1>e, <2>1 DEF CalmSender, Unlisted, SControlMessage
  <2> QED
    BY <1>c, <1>g, <2>1, <2>2
<1>3. CASE SIgnoreFrame(c)
  <2>1. /\ SIncoming(c) /\ sBuffer'[c] \in {None, sBuffer[c]}
        /\ UNCHANGED <<toRecv, main, sstate, acceptedCh, todo, sending, announced, confirmed>>
    BY <1>3, <1>a DEF SIgnoreFrame
  <2>2. CalmSender(c)
    BY <1>d, <2>1 DEF CalmSender, Unlisted
  <2> QED
    BY <1>c, <1>g, <2>1, <2>2
<1>4. CASE HandleNonceResponse(c)
  <2>1. /\ SControlMessage(c) /\ sstate[c] = "waitNonce" /\ sstate'[c] = "waitToken"
        /\ SMessage(c).by \in Conn
        /\ SendFrames(c, <<TokenMsg(PeerOf[c], <<c, SMessage(c).by>>)>>)
        /\ UNCHANGED <<main, acceptedCh, todo, sending, announced, confirmed>>
    BY <1>4, <1>a, <1>e DEF HandleNonceResponse, SetState, ReplyFields
  <2>2. /\ <<TokenMsg(PeerOf[c], <<c, SMessage(c).by>>)>> \in Seq(From(c))
        /\ NoList(<<TokenMsg(PeerOf[c], <<c, SMessage(c).by>>)>>)
    BY <2>1, Sendable DEF NoList, TokenMsg
  <2>3. NoList(toRecv[c]) => NoList(toRecv'[c])
    BY <1>a, <2>1, <2>2, NoListSent
  <2>4. CalmSender(c)
    BY <1>d, <1>e, <2>1, <2>3 DEF CalmSender, Unlisted
  <2> QED
    BY <1>c, <1>g, <2>1, <2>4
<1>5. CASE Refused(c)
  <2>1. /\ SControlMessage(c) /\ sstate'[c] = "done" /\ sstate[c] \in {"waitToken", "waitPin"}
        /\ UNCHANGED <<toRecv, main, acceptedCh, todo, sending, announced, confirmed>>
    BY <1>5, <1>a DEF Refused, SetState
  <2>2. CalmSender(c)
    BY <1>d, <1>e, <1>f, <2>1 DEF CalmSender, Unlisted
  <2> QED
    BY <1>c, <1>g, <2>1, <2>2
<1>6. CASE HandleTokenResponse(c)
  <2>1. /\ SControlMessage(c) /\ sstate[c] \in {"waitToken", "waitPin"} /\ Unlisted(c)
        /\ HasStatus(c, {"OK", "PIN_REQUIRED"}) /\ main[c] # "waitAnswer"
        /\ UNCHANGED <<main, acceptedCh, todo, sending, announced, confirmed>>
    BY <1>6, <1>f DEF HandleTokenResponse, Unlisted
  <2>2. CASE SMessage(c).st = "PIN_REQUIRED"
    <3>1. PICK ok \in {FALSE, (c \in KnowsPin)} : SendFrames(c, <<PinMsg(ok)>>)
      BY <1>6, <2>2 DEF HandleTokenResponse
    <3>2. (c \in KnowsPin) \in BOOLEAN
      OBVIOUS
    <3>3. ok \in BOOLEAN
      BY <3>1, <3>2, Zenon
    <3>4. <<PinMsg(ok)>> \in Seq(From(c)) /\ NoList(<<PinMsg(ok)>>)
      BY <3>3, Sendable DEF NoList, PinMsg
    <3>5. NoList(toRecv[c]) => NoList(toRecv'[c])
      BY <1>a, <3>1, <3>4, NoListSent
    <3>6. sstate'[c] = "waitPin"
      BY <1>6, <1>a, <2>2 DEF HandleTokenResponse, SetState
    <3>7. CalmSender(c)
      BY <1>d, <1>e, <2>1, <3>5, <3>6 DEF CalmSender, Unlisted
    <3> QED
      BY <1>c, <1>g, <2>1, <3>7
  <2>3. CASE SMessage(c).st # "PIN_REQUIRED"
    <3>1. sstate'[c] = "waitFileAccept"
      BY <1>6, <1>a, <2>3 DEF HandleTokenResponse, SetState
    <3>2. Greeted(Head(toSend[c]))
      <4>1. SMessage(c).t = "status" /\ SMessage(c).st = "OK"
        BY <1>b, <1>i, <2>1, <2>3 DEF HasStatus, ListOne
      <4> QED
        BY <1>h, <2>1, <4>1 DEF Greeted
    <3>3. ~NoGreeting(toSend[c]) /\ (OneGreeting(toSend[c]) => NoGreeting(toSend'[c]))
      BY <1>d, <1>e, <2>1, <3>2, GreetingTaken
    <3>4. /\ OneGreeting(toSend[c]) => OneGreeting(toSend'[c])
          /\ AllFull(toSend[c], c) => AllFull(toSend'[c], c)
      BY <1>d, <1>e, <2>1, FewerMessages
    <3>5. ListOne(c)'
      BY <2>1, <3>1 DEF ListOne, Unlisted
    <3>6. GreetOne(c)'
      BY <1>b, <3>1, <3>3, <3>4 DEF GreetOne, SameReceiver
    <3>7. AnswerOne(c)'
      BY <1>b, <1>e, <2>1, <3>4 DEF AnswerOne, FullAnswer, Wanted
    <3>8. FreshOne(c)'
      BY <1>d, <1>e, <2>1 DEF FreshOne, SameReceiver
    <3> QED
      BY <1>g, <2>1, <3>5, <3>6, <3>7, <3>8 DEF ShakeOne
  <2> QED
    BY <2>2, <2>3
<1>7. CASE FilesAccepted(c)
  <2>1. /\ SControlMessage(c) /\ sstate[c] = "waitFileAccept" /\ sstate'[c] = "sendingFiles"
        /\ HasStatus(c, {"OK"})
        /\ acceptedCh'[c] = IF acceptedCh[c] # None THEN acceptedCh[c]
                            ELSE IF SMessage(c).t = "answer" THEN SMessage(c).files ELSE {}
        /\ UNCHANGED <<toRecv, main, todo, sending, announced, confirmed>>
    BY <1>7, <1>a DEF FilesAccepted, SetState
  <2>2. SMessage(c).t = "answer" /\ SMessage(c).st = "OK"
    <3> SUFFICES ASSUME SMessage(c).t = "status" PROVE FALSE
      BY <2>1 DEF HasStatus
    <3>1. Greeted(Head(toSend[c]))
      BY <1>h, <2>1 DEF Greeted, HasStatus
    <3>2. ~NoGreeting(toSend[c])
      BY <1>d, <1>e, <2>1, <3>1, GreetingTaken
    <3> QED
      BY <1>b, <2>1, <3>2 DEF GreetOne
  <2>3. Wanted(c) \subseteq acceptedCh'[c]
    BY <1>b, <1>i, <2>1, <2>2 DEF AnswerOne, FullAnswer
  <2>4. /\ OneGreeting(toSend[c]) => OneGreeting(toSend'[c])
        /\ AllFull(toSend[c], c) => AllFull(toSend'[c], c)
    BY <1>d, <1>e, <2>1, FewerMessages
  <2>5. ListOne(c)'
    BY <1>f, <2>1 DEF ListOne, Unlisted
  <2>6. GreetOne(c)'
    BY <1>b, <2>1, <2>4 DEF GreetOne, SameReceiver
  <2>7. AnswerOne(c)'
    BY <1>b, <1>e, <2>1, <2>3, <2>4 DEF AnswerOne, FullAnswer, Wanted
  <2>8. FreshOne(c)'
    BY <1>d, <1>e, <2>1 DEF FreshOne, SameReceiver
  <2> QED
    BY <1>g, <2>1, <2>5, <2>6, <2>7, <2>8 DEF ShakeOne
<1>8. CASE PairRequested(c)
  <2>1. /\ SControlMessage(c) /\ sstate[c] = "waitFileAccept" /\ sstate'[c] \in {"waitFileAccept", "done"}
        /\ UNCHANGED <<main, acceptedCh, todo, sending, announced, confirmed>>
    BY <1>8, <1>a DEF PairRequested, SetState
  <2>2. CalmSender(c)
    BY <1>d, <1>e, <1>f, <2>1 DEF CalmSender, Unlisted
  <2> QED
    BY <1>c, <1>g, <2>1, <2>2
<1> QED
  BY <1>1, <1>2, <1>3, <1>4, <1>5, <1>6, <1>7, <1>8 DEF HandlerStep

\* Only a saved file is confirmed.
LEMMA ConfirmedSaved ==
    ASSUME XInv, confirmed \subseteq saved, NEW c \in Conn, SenderStep(c), UNCHANGED saved
    PROVE  confirmed' \subseteq saved'
<1> USE DEF queueVars, wireVars, senderVars
<1>1. CASE TakeResult(c)
  <2>1. CASE GoodResult(c)
    <3>1. /\ resultCh[c] # None /\ resultCh[c].ok /\ resultCh[c].file = sending[c]
          /\ confirmed' = confirmed \cup {sending[c]}
      BY <1>1, <2>1 DEF TakeResult, GoodResult
    <3>2. resultCh[c].t = "resp" /\ TrueAck(resultCh[c])
      BY <3>1 DEF XInv, BaseInv, STypes, PlacesTyped, AckInv
    <3> QED
      BY <3>1, <3>2 DEF TrueAck
  <2>2. CASE ~GoodResult(c)
    BY <1>1, <2>2 DEF TakeResult
  <2> QED
    BY <2>1, <2>2
<1>2. CASE MainStep(c) /\ ~TakeResult(c)
  BY <1>2 DEF MainStep, AnswerArrives, TakeAccepted, GiveUp, StartQueue, SendChunk, EndFile, Flush, CloseSender
<1>3. CASE SenderPeerClosed(c) \/ HandlerStep(c)
  BY <1>3 DEF SenderPeerClosed, HandlerStep, SCollectControl, HandleFileResponse, HandleNonceResponse, Refused,
     HandleTokenResponse, FilesAccepted, PairRequested, SIgnoreFrame
<1> QED
  BY <1>1, <1>2, <1>3 DEF SenderStep

\* One greeting, one list, and an answer that accepts every wanted file: nothing wanted is
\* lost between the list and the last acknowledgement.
LEMMA ShakeInvariant == ~StaleHandlers /\ Spec => []ShakeInv
<1>1. Init => ShakeInv
  <2> SUFFICES ASSUME Init PROVE ShakeInv
    OBVIOUS
  <2>1. OfferedInv /\ confirmed \subseteq saved
    BY DEF Init, ReceiverInit, SenderInit, OfferedInv
  <2>2. ASSUME NEW c \in Conn
        PROVE  ShakeOne(c) /\ WantOne(c)
    <3>1. /\ toRecv[c] = <<>> /\ toSend[c] = <<>> /\ main[c] = "waitAnswer" /\ sBuffer[c] = None
          /\ sstate[c] = "init" /\ acceptedCh[c] = None /\ peer = None /\ selecting = {}
          /\ controlBuffer = None
      BY DEF Init, WireInit, SenderInit, ReceiverInit
    <3>2. c # None
      BY WireAssumption
    <3>3. ShakeOne(c)
      BY <3>1, <3>2, NoMessages DEF ShakeOne, ListOne, GreetOne, AnswerOne, FreshOne
    <3>4. announced[c] = None /\ sending[c] = None
      BY DEF Init, SenderInit
    <3> QED
      BY <3>1, <3>3, <3>4 DEF WantOne
  <2> QED
    BY <2>1, <2>2 DEF ShakeInv
<1>2. QInv /\ XInv /\ PipeInv /\ ShakeInv /\ [Next]_vars => ShakeInv'
  <2> SUFFICES ASSUME QInv, XInv, PipeInv, ShakeInv, [Next]_vars PROVE ShakeInv'
    OBVIOUS
  <2>1. CASE ReceiverStep /\ UNCHANGED senderVars
    BY <2>1, ShakeHandlers, ShakeOthers DEF ReceiverStep
  <2>2. ASSUME NEW c \in Conn, Offer(c)
        PROVE  ShakeInv'
    BY <2>2, ShakeOthers DEF Offer
  <2>3. ASSUME NEW c \in Conn, SenderStep(c), UNCHANGED receiverVars
        PROVE  ShakeInv'
    <3>1. /\ UNCHANGED <<peer, state, session, controlBuffer, selecting, files, acceptedIDs, saved>>
      BY <2>3 DEF receiverVars, handshakeVars, listVars
    <3>2. OnlyOf(c) /\ WorkOf(c) /\ confirmed \subseteq confirmed' /\ UNCHANGED recvEnd
      BY <2>3, OneSender, OneWorker DEF QInv
    <3>3. SameReceiver
      BY <3>1, <3>2 DEF SameReceiver
    <3>4. ShakeOne(c)' /\ WantOne(c)'
      BY <2>3, <3>3, ShakeMain, ShakeReplies DEF SenderStep
    <3>5. \A d \in Conn : d # c => ShakeOne(d)' /\ WantOne(d)'
      BY <3>2, <3>3, OthersShake
    <3>6. confirmed' \subseteq saved'
      BY <2>3, <3>1, ConfirmedSaved DEF ShakeInv
    <3>7. OfferedInv'
      BY <3>1 DEF ShakeInv, OfferedInv, Wanted
    <3> QED
      BY <3>4, <3>5, <3>6, <3>7 DEF ShakeInv
  <2>4. CASE UNCHANGED vars
    <3>1. /\ UNCHANGED <<toRecv, toSend, recvEnd, peer, state, session, controlBuffer, selecting>>
          /\ UNCHANGED <<files, acceptedIDs, saved>>
          /\ UNCHANGED <<main, sstate, sBuffer, acceptedCh, todo, sending, announced, confirmed>>
      BY <2>4 DEF vars, wireVars, receiverVars, handshakeVars, listVars, senderVars, queueVars
    <3>2. \A c \in Conn : ShakeOne(c)' /\ WantOne(c)'
      BY <3>1 DEF ShakeInv, ShakeOne, ListOne, GreetOne, AnswerOne, FreshOne, FullAnswer, Wanted,
         Unlisted, WantOne
    <3>3. OfferedInv' /\ confirmed' \subseteq saved'
      BY <3>1 DEF ShakeInv, OfferedInv, Wanted
    <3> QED
      BY <3>2, <3>3 DEF ShakeInv
  <2> QED
    BY <2>1, <2>2, <2>3, <2>4 DEF Next
<1> QED
  BY <1>1, <1>2, QuietInvariant, XInvariant, PipeInvariant, PTL DEF Spec

\* As long as a dropped connection is silent, a command that reports success has every file
\* that the receiver's filter lets through on the receiver's disk, whatever was lost,
\* refused or cut off on the way (Send, SendFiles, handleFileList, finishCurrentFile).
THEOREM SuccessIsSaved == ~StaleHandlers /\ Spec => []SuccessMeansSaved
<1>1. ShakeInv => SuccessMeansSaved
  BY DEF ShakeInv, WantOne, Wanted, SuccessMeansSaved
<1> QED
  BY <1>1, ShakeInvariant, PTL
=============================================================================
