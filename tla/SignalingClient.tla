--------------------------- MODULE SignalingClient ---------------------------
(***************************************************************************)
(* Clients of the LocalSend signaling server, webrtc/signaling/client.go.   *)
(*                                                                         *)
(* A client is one WebSocket connection.  Its goroutines are the reader,    *)
(* the writer and the timers; they meet their users in two channels of      *)
(* bounded capacity (offerChan, sendChan) and a table of answer callbacks.  *)
(* Anyone may close it, once.                                               *)
(*                                                                         *)
(* The other ends of the sessions are guests: LocalSend programs elsewhere, *)
(* whose offers and answers the server relays.  A guest offers at most one  *)
(* session.  The list of peers and the informational events are left out.   *)
(***************************************************************************)
EXTENDS Naturals, Sequences, FiniteSets

CONSTANTS
    Client,              \* connections to the signaling server
    Guest,               \* LocalSend programs elsewhere
    None,
    OfferCap, SendCap,   \* capacities of offerChan and sendChan
    AnswerTimeout,       \* answerTimeout of the sender, in ticks
    AnswerTTL            \* answerCallbackTTL, in ticks

ASSUME SignalingAssumption ==
    /\ IsFiniteSet(Client) /\ None \notin Client \cup Guest /\ Client \cap Guest = {}
    /\ OfferCap \in Nat \ {0} /\ SendCap \in Nat \ {0}
    /\ AnswerTimeout \in Nat \ {0} /\ AnswerTTL \in Nat /\ AnswerTTL > AnswerTimeout

\* From the server: a guest's offer, or its answer to this client's own offer.
ServerMsg == [t : {"offer", "answer"}, from : Guest]

\* To the server: an offer, an answer, a ping or a renewed token.
ClientMsg == {"offer", "answer", "keepalive"}

VARIABLES
    link,         \* the socket: "none", "up" or "down"
    inbox,        \* messages that the server has sent and the reader has not read
    reader,       \* the reader: "off", "read", "offer", "callback", "exit"
    reading,      \* the message it is delivering
    offerChan,    \* channel of offers; closed when the reader has exited
    subscribed,   \* offerSubscribed
    sendChan,     \* channel to the writer
    done          \* the client is closed

VARIABLES
    callback,     \* the session's answer callback is registered
    waited,       \* ticks since it was registered
    answerCh      \* channel of capacity one to the sending command; "spoiled" is an empty
                  \* channel whose only answer could not be decoded

VARIABLE
    pending       \* history: offers read and not yet taken by a listener

clientVars == <<link, inbox, reader, reading, offerChan, subscribed, sendChan, done, callback, waited, answerCh, pending>>

ClientTypeOK ==
    /\ link \in [Client -> {"none", "up", "down"}]
    /\ inbox \in [Client -> Seq(ServerMsg)]
    /\ reader \in [Client -> {"off", "read", "offer", "callback", "exit"}]
    /\ reading \in [Client -> Guest \cup {None}]
    /\ offerChan \in [Client -> Seq(Guest)]
    /\ \A k \in Client : Len(offerChan[k]) <= OfferCap /\ Len(sendChan[k]) <= SendCap
    /\ subscribed \in [Client -> BOOLEAN]
    /\ sendChan \in [Client -> Seq(ClientMsg)]
    /\ done \in [Client -> BOOLEAN]
    /\ callback \in [Client -> BOOLEAN]
    /\ waited \in [Client -> 0 .. AnswerTTL + 1]
    /\ answerCh \in [Client -> {"empty", "full", "spoiled"}]
    /\ pending \in [Client -> SUBSET Guest]

ClientInit ==
    /\ link = [k \in Client |-> "none"]
    /\ inbox = [k \in Client |-> <<>>]
    /\ reader = [k \in Client |-> "off"]
    /\ reading = [k \in Client |-> None]
    /\ offerChan = [k \in Client |-> <<>>]
    /\ subscribed = [k \in Client |-> FALSE]
    /\ sendChan = [k \in Client |-> <<>>]
    /\ done = [k \in Client |-> FALSE]
    /\ callback = [k \in Client |-> FALSE]
    /\ waited = [k \in Client |-> 0]
    /\ answerCh = [k \in Client |-> "empty"]
    /\ pending = [k \in Client |-> {}]

-----------------------------------------------------------------------------
(* Parts of operations that users of a client perform.                     *)

\* ConnectWithContext: the socket is up, HELLO has been read, the goroutines run.
Connect(k) ==
    /\ link[k] = "none"
    /\ link' = [link EXCEPT ![k] = "up"]
    /\ reader' = [reader EXCEPT ![k] = "read"]
    /\ UNCHANGED <<inbox, reading, offerChan, subscribed, sendChan, done, callback,
                   waited, answerCh, pending>>

LinkDown(k) ==
    /\ link' = [link EXCEPT ![k] = "down"]
    /\ inbox' = [inbox EXCEPT ![k] = <<>>]

\* Close, whose first call closes done, clears the callbacks and closes the socket.  The
\* writer and the timers end with it; what is left in sendChan is lost.
Close(k) ==
    /\ ~done[k]
    /\ done' = [done EXCEPT ![k] = TRUE]
    /\ callback' = [callback EXCEPT ![k] = FALSE]
    /\ sendChan' = [sendChan EXCEPT ![k] = <<>>]
    /\ LinkDown(k)
    /\ UNCHANGED <<reader, reading, offerChan, subscribed, waited, answerCh, pending>>

HasRoom(k) == Len(sendChan[k]) < SendCap

\* enqueue looks at done first and then waits for room or for done; with both, it may
\* still put a message into the channel, which nobody reads any more.
NeverRefused(k) == FALSE                                             \* mutant

EnqueueRefused(k) == done[k]

Enqueue(k, m) ==
    /\ HasRoom(k)
    /\ sendChan' = [sendChan EXCEPT ![k] = IF done[k] THEN @ ELSE Append(@, m)]
    /\ UNCHANGED <<link, inbox, reader, reading, offerChan, subscribed, done,
                   callback, waited, answerCh, pending>>

OnAnswer(k) ==
    /\ callback' = [callback EXCEPT ![k] = TRUE]
    /\ waited' = [waited EXCEPT ![k] = 0]
    /\ UNCHANGED <<link, inbox, reader, reading, offerChan, subscribed, sendChan, done, answerCh, pending>>

-----------------------------------------------------------------------------
(* readLoop.                                                               *)

Incoming(k) == reader[k] = "read" /\ link[k] = "up" /\ inbox[k] # <<>>

ReadNext(k) == inbox' = [inbox EXCEPT ![k] = Tail(@)]

\* A callback is taken out of the table, under answerMu, before it is called.
TakeCallback(k) == callback' = [callback EXCEPT ![k] = FALSE]

\* An answer with a callback: the callback is called without the lock.
ReadAnswer(k) ==
    /\ Incoming(k) /\ Head(inbox[k]).t = "answer" /\ callback[k]
    /\ ReadNext(k) /\ TakeCallback(k)
    /\ reader' = [reader EXCEPT ![k] = "callback"]
    /\ UNCHANGED <<link, reading, offerChan, subscribed, sendChan, done,
                   waited, answerCh, pending>>

\* The callback passes the answer on, and waits while the channel is full; an answer
\* that it cannot decode it only logs.
CallAnswer(k) ==
    /\ reader[k] = "callback" /\ answerCh[k] # "full"
    /\ \E a \in {"full", "spoiled"} : answerCh' = [answerCh EXCEPT ![k] = a]
    /\ reader' = [reader EXCEPT ![k] = "read"]
    /\ UNCHANGED <<link, inbox, reading, offerChan, subscribed, sendChan, done,
                   callback, waited, pending>>

\* Any other answer is an informational event, which the reader never waits for.
IgnoreAnswer(k) ==
    /\ Incoming(k) /\ Head(inbox[k]).t = "answer" /\ ~callback[k]
    /\ ReadNext(k)
    /\ UNCHANGED <<link, reader, reading, offerChan, subscribed, sendChan, done,
                   callback, waited, answerCh, pending>>

NextIsOffer(k) == Incoming(k) /\ Head(inbox[k]).t = "offer"

\* Before Offers has been called, an offer goes into the channel if there is room...
ReadOffer(k) ==
    /\ NextIsOffer(k) /\ ~subscribed[k] /\ Len(offerChan[k]) < OfferCap
    /\ ReadNext(k)
    /\ offerChan' = [offerChan EXCEPT ![k] = Append(@, Head(inbox[k]).from)]
    /\ pending' = [pending EXCEPT ![k] = @ \cup {Head(inbox[k]).from}]
    /\ UNCHANGED <<link, reader, reading, subscribed, sendChan, done, callback,
                   waited, answerCh>>

\* ...and is dropped if there is none.
DropOffer(k) ==
    /\ NextIsOffer(k) /\ ~subscribed[k] /\ Len(offerChan[k]) = OfferCap
    /\ ReadNext(k)
    /\ UNCHANGED <<link, reader, reading, offerChan, subscribed, sendChan, done,
                   callback, waited, answerCh, pending>>

WaitForRoom(k) ==
    /\ reader' = [reader EXCEPT ![k] = "offer"]
    /\ reading' = [reading EXCEPT ![k] = Head(inbox[k]).from]

DropWhenFull(k) ==                                                   \* mutant
    IF Len(offerChan[k]) < OfferCap THEN WaitForRoom(k) ELSE UNCHANGED <<reader, reading>>

HoldOffer(k) == WaitForRoom(k)

\* With a subscriber the reader waits for room: no offer is dropped.
BlockOnOffer(k) ==
    /\ NextIsOffer(k) /\ subscribed[k]
    /\ ReadNext(k) /\ HoldOffer(k)
    /\ pending' = [pending EXCEPT ![k] = @ \cup {Head(inbox[k]).from}]
    /\ UNCHANGED <<link, offerChan, subscribed, sendChan, done, callback,
                   waited, answerCh>>

DeliverOffer(k) ==
    /\ reader[k] = "offer" /\ Len(offerChan[k]) < OfferCap
    /\ offerChan' = [offerChan EXCEPT ![k] = Append(@, reading[k])]
    /\ reader' = [reader EXCEPT ![k] = "read"]
    /\ reading' = [reading EXCEPT ![k] = None]
    /\ UNCHANGED <<link, inbox, subscribed, sendChan, done, callback, waited,
                   answerCh, pending>>

BlockForever(k) == FALSE                                             \* mutant

GivesUpOffer(k) == reader[k] = "offer" /\ done[k]

\* The reader ends, and closes its channels, when the client is closed while an
\* offer waits, or by an error of the socket, on which it closes the client.
EndReader(k) ==
    /\ reader' = [reader EXCEPT ![k] = "exit"]
    /\ reading' = [reading EXCEPT ![k] = None]
    /\ UNCHANGED <<link, inbox, offerChan, subscribed, sendChan, done, callback,
                   waited, answerCh, pending>>

StopOffering(k) == GivesUpOffer(k) /\ EndReader(k)

ReadFails(k) ==
    /\ reader[k] = "read" /\ link[k] = "down"
    /\ Close(k)

ReaderExits(k) == reader[k] = "read" /\ link[k] = "down" /\ done[k] /\ EndReader(k)

-----------------------------------------------------------------------------
(* writeLoop, the timers and the socket.                                   *)

\* The writer sends the oldest message to the server.
WriteNext(k) ==
    /\ sendChan[k] # <<>> /\ link[k] = "up"
    /\ sendChan' = [sendChan EXCEPT ![k] = Tail(@)]
    /\ UNCHANGED <<link, inbox, reader, reading, offerChan, subscribed, done,
                   callback, waited, answerCh, pending>>

\* A write fails or times out.
WriteFails(k) ==
    /\ sendChan[k] # <<>>
    /\ Close(k)

\* A ping or a renewed token, if there is room; its timer waits otherwise.
SendKeepalive(k) ==
    /\ link[k] # "none" /\ ~done[k]
    /\ Enqueue(k, "keepalive")

\* The server or the network ends the connection.
LinkLost(k) ==
    /\ link[k] = "up"
    /\ LinkDown(k)
    /\ UNCHANGED <<reader, reading, offerChan, subscribed, sendChan, done,
                   callback, waited, answerCh, pending>>

AnswersSoonExpire(k) == waited[k] >= AnswerTimeout                   \* mutant

CallbackExpired(k) == waited[k] > AnswerTTL

\* answerCallbackCleanupLoop removes callbacks whose time is over.
ExpireCallback(k) ==
    /\ callback[k] /\ CallbackExpired(k) /\ ~done[k]
    /\ callback' = [callback EXCEPT ![k] = FALSE]
    /\ UNCHANGED <<link, inbox, reader, reading, offerChan, subscribed, sendChan, done, waited, answerCh, pending>>

ReaderStep(k) ==
    \/ ReadAnswer(k) \/ CallAnswer(k) \/ IgnoreAnswer(k)
    \/ ReadOffer(k) \/ BlockOnOffer(k) \/ DropOffer(k) \/ DeliverOffer(k)
    \/ StopOffering(k) \/ ReadFails(k) \/ ReaderExits(k)

WriterStep(k) == WriteNext(k) \/ WriteFails(k)

ClientStep(k) ==
    \/ ReaderStep(k) \/ WriterStep(k)
    \/ SendKeepalive(k) \/ LinkLost(k) \/ ExpireCallback(k)
=============================================================================
