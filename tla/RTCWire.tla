------------------------------- MODULE RTCWire -------------------------------
(***************************************************************************)
(* The data channels between WebRTC senders and the receiver, as           *)
(* webrtc/transfer/peer.go offers them to both: one connection per offer,  *)
(* with an ordered, reliable channel in each direction.                    *)
(*                                                                         *)
(* The receiver's end of a connection is "open" from the moment the        *)
(* receiver installs it, "dropped" once the receiver has let go of it (it  *)
(* decided to, or ICE reported the connection disconnected) and "closed"   *)
(* when the pion connection is gone.  A dropped end still delivers frames: *)
(* its handler stays registered, the closing goroutine may not have run    *)
(* yet, and a disconnected ICE transport may come back.                    *)
(***************************************************************************)
EXTENDS Naturals, Sequences, FiniteSets

CONSTANTS
    Conn,                \* connections: one offer of one sender each
    Peer,                \* sending devices (signaling id and signing key)
    PeerOf,              \* PeerOf[c]: the device behind connection c
    File,                \* file ids (uuids: no two senders share one)
    ConnOf,              \* ConnOf[f]: the connection that offers file f
    Size,                \* Size[f]: announced size, in data frames
    None

FilesOf(c) == {f \in File : ConnOf[f] = c}

\* The two nonces of a handshake, named by the connection whose sender made the
\* first and the session in which the receiver made the second.
Nonce == Conn \X Conn

ASSUME WireAssumption ==
    /\ PeerOf \in [Conn -> Peer]
    /\ IsFiniteSet(File) /\ ConnOf \in [File -> Conn]
    /\ \A c \in Conn : FilesOf(c) # {}           \* no command sends nothing
    /\ Size \in [File -> Nat]
    /\ None \notin Conn \cup Peer \cup File \cup Nonce

(* Frames.  A text frame carries one JSON message; the sender's list of    *)
(* files and the receiver's answer to it travel as a binary frame which a  *)
(* text frame "0" completes.                                               *)
Delimiter      == [t |-> "0"]
NonceMsg(c)    == [t |-> "nonce", by |-> c]
TokenMsg(p, n) == [t |-> "token", key |-> p, nonce |-> n]
PinMsg(ok)     == [t |-> "pin", ok |-> ok]
ListMsg(F)     == [t |-> "list", files |-> F]
PairMsg(st, p) == [t |-> "pair", st |-> st, key |-> p]
Header(f)      == [t |-> "header", file |-> f]
Chunk(f)       == [t |-> "chunk", file |-> f]
Status(st, n)  == [t |-> "status", st |-> st, nonce |-> n]
Answer(st, F)  == [t |-> "answer", st |-> st, files |-> F]
FileResponse(f, ok) == [t |-> "resp", file |-> f, ok |-> ok]

Binary(m) == m.t \in {"chunk", "list", "answer"}

ToRecvFrame ==
    {Delimiter} \cup {NonceMsg(c) : c \in Conn}
    \cup {TokenMsg(p, n) : p \in Peer, n \in Nonce}
    \cup {PinMsg(ok) : ok \in BOOLEAN} \cup {ListMsg(FilesOf(c)) : c \in Conn}
    \cup {PairMsg(st, p) : st \in {"OK", "PAIR_DECLINED", "INVALID_SIGNATURE"},
                           p \in Peer \cup {None}}
    \cup {Header(f) : f \in File} \cup {Chunk(f) : f \in File}

ToSendFrame ==
    {Delimiter} \cup {NonceMsg(c) : c \in Conn}
    \cup {Status(st, n) : st \in {"OK", "PIN_REQUIRED", "TOO_MANY_ATTEMPTS",
                                  "INVALID_SIGNATURE"}, n \in Nonce \cup {None}}
    \cup {Answer(st, F) : st \in {"OK", "PAIR", "DECLINED"}, F \in SUBSET File}
    \cup {FileResponse(f, ok) : f \in File, ok \in BOOLEAN}

VARIABLES
    toRecv, toSend,      \* frames under way on each connection
    recvEnd, sendEnd,    \* the two ends
    opened               \* connections whose data channel has opened

wireVars == <<toRecv, toSend, recvEnd, sendEnd, opened>>

WireTypeOK ==
    /\ toRecv \in [Conn -> Seq(ToRecvFrame)]
    /\ toSend \in [Conn -> Seq(ToSendFrame)]
    /\ recvEnd \in [Conn -> {"none", "open", "dropped", "closed"}]
    /\ sendEnd \in [Conn -> {"open", "closed"}]
    /\ opened \subseteq Conn

WireInit ==
    /\ toRecv = [c \in Conn |-> <<>>]
    /\ toSend = [c \in Conn |-> <<>>]
    /\ recvEnd = [c \in Conn |-> "none"]
    /\ sendEnd = [c \in Conn |-> "open"]
    /\ opened = {}

=============================================================================
