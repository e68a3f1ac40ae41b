-------------------------- MODULE Signaling_proofs --------------------------
(***************************************************************************)
(* Proofs about Signaling and SignalingClient, for any number of            *)
(* connections, guests and senders, any capacities of the channels and any  *)
(* timeouts with answerTimeout below answerCallbackTTL.                     *)
(*                                                                         *)
(* A connection is left when the loop has closed its receiver and goes on.   *)
(* Its client is then closed, so that its listener, which may still take    *)
(* offers, can install a peer but never begin to send an answer: it always   *)
(* gets back to where no session is held (LeftInv).                         *)
(***************************************************************************)
EXTENDS Signaling, TLAPS

\* The client of the loop is connected, and closed before the loop goes on.
LoopInv ==
    /\ loop \in {"publish", "listen", "serve", "closeReceiver", "closeClient", "stopReceiver",
                 "stopClient"} => cur # None /\ link[cur] # "none"
    /\ loop \in {"closeReceiver", "closeClient", "backoff", "connect"} /\ cur # None => done[cur]

\* The loop has left the connection k behind.
Left(k) == k # cur \/ loop \in {"closeClient", "backoff", "connect"}

\* What such a connection may still be doing.
LeftOne(k) ==
    /\ link[k] = "none" => listener[k] = "off"
    /\ Left(k) => /\ done[k] \/ link[k] = "none"
                  /\ listener[k] = "answer" => held[k] \in {None, offer[k]}
                  /\ listener[k] # "answer" => held[k] = None
                  /\ listener[k] # "create" => ~accepting[k]

LeftInv == \A k \in Receiver : LeftOne(k)

\* From its registration on, a callback is in the table, being called, or was called, and
\* it is too young to be cleaned up.
WaitOne(s) ==
    command[s] \in {"registered", "offer", "wait"} =>
        /\ waited[s] <= AnswerTimeout
        /\ done[s] \/ callback[s] \/ reader[s] = "callback" \/ answerCh[s] # "empty"

WaitInv == \A s \in Sender : WaitOne(s)

\* A reader that waits for room in the channel has an offer to put there.
ReadingInv == \A k \in Client : reader[k] = "offer" => reading[k] # None

\* The inductive invariant.
SInv == TypeOK /\ ReadingInv /\ LoopInv /\ LeftInv /\ WaitInv

-----------------------------------------------------------------------------
(* Types of the clients.                                                   *)

\* What the operations on sequences return, for a channel with room.
LEMMA Channels ==
    ASSUME NEW S, NEW q \in Seq(S), NEW n \in Nat
    PROVE  /\ q # <<>> => Tail(q) \in Seq(S) /\ Head(q) \in S /\ Len(Tail(q)) <= Len(q)
           /\ \A x \in S : Append(q, x) \in Seq(S)
           /\ \A x \in S : Len(q) < n => Len(Append(q, x)) <= n
           /\ Len(q) \in Nat
OBVIOUS

\* Operations of a client keep its types, whoever calls them.
LEMMA ConnectTypes ==
    ASSUME ClientTypeOK, NEW k \in Client, Connect(k)
    PROVE  ClientTypeOK'
BY DEF Connect, ClientTypeOK

\* Close keeps them.
LEMMA CloseTypes ==
    ASSUME ClientTypeOK, NEW k \in Client, Close(k)
    PROVE  ClientTypeOK'
BY SignalingAssumption DEF Close, LinkDown, ClientTypeOK

\* enqueue never puts more into sendChan than fits.
LEMMA EnqueueTypes ==
    ASSUME ClientTypeOK, NEW k \in Client, NEW m \in ClientMsg, Enqueue(k, m)
    PROVE  ClientTypeOK'
BY SignalingAssumption, Channels DEF Enqueue, HasRoom, ClientTypeOK

\* OnAnswer keeps them.
LEMMA OnAnswerTypes ==
    ASSUME ClientTypeOK, NEW k \in Client, OnAnswer(k)
    PROVE  ClientTypeOK'
BY SignalingAssumption DEF OnAnswer, ClientTypeOK

\* So does everything that the reader, the writer, the timers and the network do.
LEMMA ClientStepTypes ==
    ASSUME ClientTypeOK, ReadingInv, NEW k \in Client, ClientStep(k)
    PROVE  ClientTypeOK'
<1> USE SignalingAssumption
<1>1. CASE ReadAnswer(k)
  BY <1>1, Channels DEF ReadAnswer, Incoming, ReadNext, TakeCallback, ClientTypeOK
<1>2. CASE CallAnswer(k)
  BY <1>2, Channels DEF CallAnswer, ClientTypeOK
<1>3. CASE IgnoreAnswer(k)
  BY <1>3, Channels DEF IgnoreAnswer, Incoming, ReadNext, ClientTypeOK
<1>4. CASE ReadOffer(k)
  <2>1. Head(inbox[k]).from \in Guest /\ Tail(inbox[k]) \in Seq(ServerMsg)
    <3>1. inbox[k] \in Seq(ServerMsg) /\ inbox[k] # <<>>
      BY <1>4 DEF ReadOffer, NextIsOffer, Incoming, ClientTypeOK
    <3>2. Head(inbox[k]) \in ServerMsg /\ Tail(inbox[k]) \in Seq(ServerMsg)
      BY <3>1
    <3> QED
      BY <3>2 DEF ServerMsg
  <2> QED
    BY <1>4, <2>1, Channels DEF ReadOffer, NextIsOffer, Incoming, ReadNext, ClientTypeOK
<1>5. CASE BlockOnOffer(k)
  <2>1. Head(inbox[k]).from \in Guest /\ Tail(inbox[k]) \in Seq(ServerMsg)
    <3>1. inbox[k] \in Seq(ServerMsg) /\ inbox[k] # <<>>
      BY <1>5 DEF BlockOnOffer, NextIsOffer, Incoming, ClientTypeOK
    <3>2. Head(inbox[k]) \in ServerMsg /\ Tail(inbox[k]) \in Seq(ServerMsg)
      BY <3>1
    <3> QED
      BY <3>2 DEF ServerMsg
  <2> QED
    BY <1>5, <2>1, Channels DEF BlockOnOffer, NextIsOffer, Incoming, ReadNext, HoldOffer,
       WaitForRoom, ClientTypeOK
<1>6. CASE DropOffer(k)
  BY <1>6, Channels DEF DropOffer, NextIsOffer, Incoming, ReadNext, ClientTypeOK
<1>7. CASE DeliverOffer(k)
  BY <1>7, Channels DEF DeliverOffer, ClientTypeOK, ReadingInv
<1>8. CASE StopOffering(k)
  BY <1>8, Channels DEF StopOffering, GivesUpOffer, EndReader, ClientTypeOK
<1>9. CASE ReaderExits(k)
  BY <1>9, Channels DEF ReaderExits, EndReader, ClientTypeOK
<1>10. CASE WriteNext(k)
  BY <1>10, Channels DEF WriteNext, ClientTypeOK
<1>11. CASE LinkLost(k)
  BY <1>11, Channels DEF LinkLost, LinkDown, ClientTypeOK
<1>12. CASE ExpireCallback(k)
  BY <1>12, Channels DEF ExpireCallback, ClientTypeOK
<1>13. CASE ReadFails(k) \/ WriteFails(k)
  BY <1>13, CloseTypes DEF ReadFails, WriteFails
<1>14. CASE SendKeepalive(k)
  BY <1>14, EnqueueTypes DEF SendKeepalive, ClientMsg
<1> QED
  BY <1>1, <1>2, <1>3, <1>4, <1>5, <1>6, <1>7, <1>8, <1>9, <1>10, <1>11, <1>12, <1>13, <1>14
  DEF ClientStep, ReaderStep, WriterStep

\* The users of the clients keep their types.
LEMMA ClientTypesKept ==
    ASSUME TypeOK, ClientTypeOK, ReadingInv, LoopInv, Next
    PROVE  ClientTypeOK'
<1> USE SignalingAssumption, RolesAssumption DEF clientVars, loopVars, acceptVars
<1>0. ASSUME UNCHANGED clientVars
      PROVE  ClientTypeOK'
  BY <1>0 DEF ClientTypeOK
<1>1. CASE ConnectReceiver
  <2>1. NextClient \in Client
    BY <1>1 DEF ConnectReceiver, NextClient, Fresh
  <2> QED
    BY <1>1, <2>1, ConnectTypes DEF ConnectReceiver
<1>2. CASE CloseClient
  <2>1. cur \in Client
    BY <1>2 DEF CloseClient, LoopInv, TypeOK
  <2> QED
    BY <1>2, <2>1, CloseTypes DEF CloseClient
<1>3. CASE \/ ConnectFails \/ Publish \/ StartListener \/ Disconnected \/ CloseReceiver
           \/ ClientClosed \/ Reconnect \/ StopServing \/ LeaveLoop \/ CancelContext
  BY <1>0, <1>3 DEF ConnectFails, Publish, StartListener, Disconnected, CloseReceiver,
     ClientClosed, Reconnect, StopServing, LeaveLoop, CancelContext, RemoveId
<1>4. ASSUME NEW k \in Receiver, Subscribe(k)
      PROVE  ClientTypeOK'
  BY <1>4 DEF Subscribe, ClientTypeOK
<1>5. ASSUME NEW k \in Receiver, RefuseOffer(k) \/ Reserve(k)
      PROVE  ClientTypeOK'
  <2>1. k \in Client /\ TakeOffer(k) /\ offerChan[k] \in Seq(Guest) /\ offerChan[k] # <<>>
    BY <1>5 DEF RefuseOffer, Reserve, TakeOffer, ClientTypeOK
  <2>2. Tail(offerChan[k]) \in Seq(Guest) /\ Len(Tail(offerChan[k])) = Len(offerChan[k]) - 1
    BY <2>1
  <2>3. Len(offerChan[k]) <= OfferCap /\ Len(offerChan[k]) \in Nat
    BY <2>1 DEF ClientTypeOK
  <2>4. Len(Tail(offerChan[k])) <= OfferCap
    BY <2>2, <2>3
  <2>5. offerChan' \in [Client -> Seq(Guest)] /\ \A c \in Client : Len(offerChan'[c]) <= OfferCap
    BY <2>1, <2>2, <2>4 DEF TakeOffer, ClientTypeOK
  <2>6. pending' \in [Client -> SUBSET Guest]
    BY <2>1 DEF TakeOffer, ClientTypeOK
  <2> QED
    BY <2>1, <2>5, <2>6 DEF TakeOffer, ClientTypeOK
<1>6. ASSUME NEW k \in Receiver,
             \/ CreateFails(k) \/ Install(k) \/ AnswerFails(k) \/ MakeAnswer(k)
             \/ ListenerExits(k) \/ SessionEnds(k)
      PROVE  ClientTypeOK'
  BY <1>0, <1>6 DEF CreateFails, Install, AnswerFails, MakeAnswer, ListenerExits,
     SessionEnds, BackToWait, DropPeer, EnqueueRefused
<1>7. ASSUME NEW k \in Receiver, SendAnswer(k)
      PROVE  ClientTypeOK'
  BY <1>7, EnqueueTypes DEF SendAnswer, ClientMsg
<1>8. ASSUME NEW s \in Sender, ConnectSender(s)
      PROVE  ClientTypeOK'
  BY <1>8, ConnectTypes DEF ConnectSender
<1>9. ASSUME NEW s \in Sender, RegisterCallback(s)
      PROVE  ClientTypeOK'
  BY <1>9, OnAnswerTypes DEF RegisterCallback
<1>10. ASSUME NEW s \in Sender, SendOffer(s)
      PROVE  ClientTypeOK'
  BY <1>10, EnqueueTypes DEF SendOffer, ClientMsg
<1>11. ASSUME NEW s \in Sender, BeginOffer(s) \/ Fail(s)
      PROVE  ClientTypeOK'
  BY <1>0, <1>11 DEF BeginOffer, Fail, EnqueueRefused, GoTo
<1>12. ASSUME NEW s \in Sender, GetAnswer(s)
      PROVE  ClientTypeOK'
  BY <1>12 DEF GetAnswer, GoTo, ClientTypeOK
<1>13. ASSUME NEW s \in Sender, CloseSender(s)
      PROVE  ClientTypeOK'
  BY <1>0, <1>13, CloseTypes DEF CloseSender
<1>14. ASSUME NEW s \in Sender, Tick(s)
      PROVE  ClientTypeOK'
  BY <1>14 DEF Tick, ClientTypeOK
<1>15. ASSUME NEW s \in Sender, GuestAnswers(s)
      PROVE  ClientTypeOK'
  <2>1. [t |-> "answer", from |-> NextGuest] \in ServerMsg
    BY <1>15 DEF GuestAnswers, NextGuest, ServerMsg, TypeOK
  <2> QED
    BY <1>15, <2>1, Channels DEF GuestAnswers, ClientTypeOK
<1>16. ASSUME NEW k \in Client, GuestOffers(k)
      PROVE  ClientTypeOK'
  <2>1. [t |-> "offer", from |-> NextGuest] \in ServerMsg
    BY <1>16 DEF GuestOffers, NextGuest, ServerMsg, TypeOK
  <2> QED
    BY <1>16, <2>1, Channels DEF GuestOffers, ClientTypeOK
<1>17. ASSUME NEW k \in Client, ClientStep(k)
      PROVE  ClientTypeOK'
  BY <1>17, ClientStepTypes
<1> QED
  BY <1>17, <1>1, <1>2, <1>3, <1>4, <1>5, <1>6, <1>7, <1>8, <1>9, <1>10, <1>11, <1>12, <1>13,
     <1>14, <1>15, <1>16
  DEF Next, LoopStep, ListenerStep, SenderStep

\* Everyone keeps the types.
LEMMA TypeStep ==
    ASSUME TypeOK, ReadingInv, LoopInv, Next
    PROVE  TypeOK'
<1> USE SignalingAssumption, RolesAssumption DEF clientVars, loopVars, acceptVars
<1>0. ClientTypeOK'
  BY ClientTypesKept DEF TypeOK
<1>1. CASE ConnectReceiver
  <2>1. NextClient \in Receiver
    BY <1>1 DEF ConnectReceiver, NextClient, Fresh
  <2> QED
    BY <1>0, <1>1, <2>1 DEF ConnectReceiver, TypeOK
<1>2. CASE ConnectFails
  BY <1>0, <1>2 DEF ConnectFails, TypeOK
<1>3. CASE Publish
  BY <1>0, <1>3 DEF Publish, TypeOK, LoopInv
<1>4. CASE StartListener
  BY <1>0, <1>4 DEF StartListener, TypeOK, LoopInv
<1>5. CASE Disconnected
  BY <1>0, <1>5 DEF Disconnected, RemoveId, TypeOK
<1>6. CASE CloseReceiver
  BY <1>0, <1>6 DEF CloseReceiver, TypeOK, LoopInv
<1>7. CASE CloseClient
  BY <1>0, <1>7 DEF CloseClient, Close, LinkDown, TypeOK
<1>8. CASE ClientClosed
  BY <1>0, <1>8 DEF ClientClosed, TypeOK
<1>9. CASE Reconnect
  BY <1>0, <1>9 DEF Reconnect, TypeOK
<1>10. CASE StopServing
  BY <1>0, <1>10 DEF StopServing, TypeOK
<1>11. CASE LeaveLoop
  BY <1>0, <1>11 DEF LeaveLoop, TypeOK
<1>12. CASE CancelContext
  BY <1>0, <1>12 DEF CancelContext, TypeOK
<1>13. ASSUME NEW k \in Receiver, Subscribe(k)
      PROVE  TypeOK'
  BY <1>0, <1>13 DEF Subscribe, TypeOK
<1>14. ASSUME NEW k \in Receiver, RefuseOffer(k)
      PROVE  TypeOK'
  BY <1>0, <1>14 DEF RefuseOffer, TakeOffer, TypeOK
<1>15. ASSUME NEW k \in Receiver, Reserve(k)
      PROVE  TypeOK'
  <2>1. Head(offerChan[k]) \in Guest
    <3>1. offerChan[k] \in Seq(Guest) /\ offerChan[k] # <<>>
      BY <1>15 DEF Reserve, TakeOffer, TypeOK, ClientTypeOK
    <3> QED
      BY <3>1
  <2> QED
    BY <1>0, <1>15, <2>1 DEF Reserve, TakeOffer, TypeOK
<1>16. ASSUME NEW k \in Receiver, CreateFails(k)
      PROVE  TypeOK'
  BY <1>0, <1>16 DEF CreateFails, BackToWait, TypeOK
<1>17. ASSUME NEW k \in Receiver, Install(k)
      PROVE  TypeOK'
  BY <1>0, <1>17 DEF Install, BackToWait, TypeOK
<1>18. ASSUME NEW k \in Receiver, AnswerFails(k)
      PROVE  TypeOK'
  BY <1>0, <1>18 DEF AnswerFails, BackToWait, DropPeer, TypeOK
<1>19. ASSUME NEW k \in Receiver, MakeAnswer(k)
      PROVE  TypeOK'
  BY <1>0, <1>19 DEF MakeAnswer, EnqueueRefused, TypeOK
<1>20. ASSUME NEW k \in Receiver, SendAnswer(k)
      PROVE  TypeOK'
  BY <1>0, <1>20 DEF SendAnswer, Enqueue, HasRoom, BackToWait, TypeOK
<1>21. ASSUME NEW k \in Receiver, ListenerExits(k)
      PROVE  TypeOK'
  BY <1>0, <1>21 DEF ListenerExits, TypeOK
<1>22. ASSUME NEW k \in Receiver, SessionEnds(k)
      PROVE  TypeOK'
  BY <1>0, <1>22 DEF SessionEnds, DropPeer, TypeOK
<1>23. ASSUME NEW s \in Sender, ConnectSender(s)
      PROVE  TypeOK'
  BY <1>0, <1>23 DEF ConnectSender, Connect, GoTo, TypeOK
<1>24. ASSUME NEW s \in Sender, RegisterCallback(s)
      PROVE  TypeOK'
  BY <1>0, <1>24 DEF RegisterCallback, OnAnswer, GoTo, TypeOK
<1>25. ASSUME NEW s \in Sender, BeginOffer(s)
      PROVE  TypeOK'
  BY <1>0, <1>25 DEF BeginOffer, EnqueueRefused, GoTo, TypeOK
<1>26. ASSUME NEW s \in Sender, SendOffer(s)
      PROVE  TypeOK'
  BY <1>0, <1>26 DEF SendOffer, Enqueue, HasRoom, GoTo, TypeOK
<1>27. ASSUME NEW s \in Sender, Fail(s)
      PROVE  TypeOK'
  BY <1>0, <1>27 DEF Fail, GoTo, TypeOK
<1>28. ASSUME NEW s \in Sender, GetAnswer(s)
      PROVE  TypeOK'
  BY <1>0, <1>28 DEF GetAnswer, GoTo, TypeOK
<1>29. ASSUME NEW s \in Sender, CloseSender(s)
      PROVE  TypeOK'
  BY <1>0, <1>29 DEF CloseSender, Close, LinkDown, GoTo, TypeOK
<1>30. ASSUME NEW s \in Sender, GuestAnswers(s)
      PROVE  TypeOK'
  BY <1>0, <1>30 DEF GuestAnswers, TypeOK
<1>31. ASSUME NEW s \in Sender, Tick(s)
      PROVE  TypeOK'
  BY <1>0, <1>31 DEF Tick, TypeOK
<1>32. ASSUME NEW k \in Client, GuestOffers(k)
      PROVE  TypeOK'
  BY <1>0, <1>32 DEF GuestOffers, TypeOK
<1>33. CASE UNCHANGED <<loopVars, acceptVars, command, guests>>
  BY <1>0, <1>33 DEF TypeOK
<1> QED
  BY <1>33, <1>1, <1>2, <1>3, <1>4, <1>5, <1>6, <1>7, <1>8, <1>9, <1>10, <1>11, <1>12, <1>13,
     <1>14, <1>15, <1>16, <1>17, <1>18, <1>19, <1>20, <1>21, <1>22, <1>23, <1>24, <1>25,
     <1>26, <1>27, <1>28, <1>29, <1>30, <1>31, <1>32
  DEF Next, LoopStep, ListenerStep, SenderStep

-----------------------------------------------------------------------------
(* The other parts.                                                        *)

\* A reader waits for room only with an offer in hand.
LEMMA ReadingStep ==
    ASSUME TypeOK, ReadingInv, Next
    PROVE  ReadingInv'
<1> USE SignalingAssumption, RolesAssumption DEF clientVars, loopVars, acceptVars
<1>0. ASSUME UNCHANGED <<reader, reading>>
      PROVE  ReadingInv'
  BY <1>0 DEF ReadingInv
<1>1. CASE ConnectReceiver
  <2>1. NextClient \in Client
    BY <1>1 DEF ConnectReceiver, NextClient, Fresh
  <2> QED
    BY <1>1, <2>1 DEF ConnectReceiver, Connect, ReadingInv, TypeOK, ClientTypeOK
<1>2. CASE \/ ConnectFails \/ Publish \/ StartListener \/ Disconnected \/ CloseReceiver
           \/ CloseClient \/ ClientClosed \/ Reconnect \/ StopServing \/ LeaveLoop
           \/ CancelContext
  BY <1>0, <1>2 DEF ConnectFails, Publish, StartListener, Disconnected, CloseReceiver,
     CloseClient, ClientClosed, Reconnect, StopServing, LeaveLoop, CancelContext, RemoveId,
     Close, LinkDown
<1>3. ASSUME NEW k \in Receiver,
             \/ Subscribe(k) \/ RefuseOffer(k) \/ Reserve(k) \/ CreateFails(k)
             \/ Install(k) \/ AnswerFails(k) \/ MakeAnswer(k) \/ SendAnswer(k)
             \/ ListenerExits(k) \/ SessionEnds(k)
      PROVE  ReadingInv'
  BY <1>0, <1>3 DEF Subscribe, RefuseOffer, Reserve, CreateFails, Install, AnswerFails,
     MakeAnswer, SendAnswer, ListenerExits, SessionEnds, TakeOffer, Busy, BackToWait,
     DropPeer, EnqueueRefused, Enqueue, HasRoom
<1>4. ASSUME NEW s \in Sender, ConnectSender(s)
      PROVE  ReadingInv'
  BY <1>4 DEF ConnectSender, Connect, GoTo, ReadingInv, TypeOK, ClientTypeOK
<1>5. ASSUME NEW s \in Sender,
             \/ RegisterCallback(s) \/ BeginOffer(s) \/ SendOffer(s) \/ Fail(s)
             \/ GetAnswer(s) \/ CloseSender(s) \/ GuestAnswers(s) \/ Tick(s)
      PROVE  ReadingInv'
  BY <1>0, <1>5 DEF RegisterCallback, BeginOffer, SendOffer, Fail, GetAnswer, CloseSender,
     GuestAnswers, Tick, OnAnswer, GoTo, EnqueueRefused, Enqueue, HasRoom, Close, LinkDown
<1>6. ASSUME NEW k \in Client, GuestOffers(k)
      PROVE  ReadingInv'
  BY <1>0, <1>6 DEF GuestOffers
<1>7. ASSUME NEW k \in Client, ReadAnswer(k)
      PROVE  ReadingInv'
  BY <1>7 DEF ReadAnswer, Incoming, ReadNext, TakeCallback, ReadingInv, TypeOK, ClientTypeOK
<1>8. ASSUME NEW k \in Client, CallAnswer(k)
      PROVE  ReadingInv'
  BY <1>8 DEF CallAnswer, ReadingInv, TypeOK, ClientTypeOK
<1>9. ASSUME NEW k \in Client, BlockOnOffer(k)
      PROVE  ReadingInv'
  <2>1. Head(inbox[k]).from \in Guest
    <3>1. inbox[k] \in Seq(ServerMsg) /\ inbox[k] # <<>>
      BY <1>9 DEF BlockOnOffer, NextIsOffer, Incoming, TypeOK, ClientTypeOK
    <3>2. Head(inbox[k]) \in ServerMsg
      BY <3>1
    <3> QED
      BY <3>2 DEF ServerMsg
  <2>2. reading'[k] # None /\ \A c \in Client \ {k} : reader'[c] = reader[c] /\ reading'[c] = reading[c]
    BY <1>9, <2>1 DEF BlockOnOffer, HoldOffer, WaitForRoom, TypeOK, ClientTypeOK
  <2> QED
    BY <2>2 DEF ReadingInv
<1>10. ASSUME NEW k \in Client, DeliverOffer(k)
      PROVE  ReadingInv'
  BY <1>10 DEF DeliverOffer, ReadingInv, TypeOK, ClientTypeOK
<1>11. ASSUME NEW k \in Client, StopOffering(k)
      PROVE  ReadingInv'
  BY <1>11 DEF StopOffering, GivesUpOffer, EndReader, ReadingInv, TypeOK, ClientTypeOK
<1>12. ASSUME NEW k \in Client, ReaderExits(k)
      PROVE  ReadingInv'
  BY <1>12 DEF ReaderExits, EndReader, ReadingInv, TypeOK, ClientTypeOK
<1>13. ASSUME NEW k \in Client,
             \/ IgnoreAnswer(k) \/ ReadOffer(k) \/ DropOffer(k) \/ ReadFails(k)
             \/ WriteNext(k) \/ WriteFails(k) \/ SendKeepalive(k) \/ LinkLost(k)
             \/ ExpireCallback(k)
      PROVE  ReadingInv'
  BY <1>0, <1>13 DEF IgnoreAnswer, ReadOffer, DropOffer, ReadFails, WriteNext, WriteFails,
     SendKeepalive, LinkLost, ExpireCallback, Incoming, ReadNext, NextIsOffer, Close,
     LinkDown, Enqueue
<1> QED
  BY <1>1, <1>2, <1>3, <1>4, <1>5, <1>6, <1>7, <1>8, <1>9, <1>10, <1>11, <1>12, <1>13
  DEF Next, LoopStep, ListenerStep, SenderStep,
      ClientStep, ReaderStep, WriterStep

\* No step but a new connection makes a client of the loop usable again.
StaysConnected ==
    \A c \in Receiver :
        /\ link'[c] = "none" => link[c] = "none"
        /\ link[c] = "none" => link'[c] = "none" \/ done'[c]
        /\ done[c] => done'[c]

\* Close is final, and nothing undoes a connection.
LEMMA ClosedStays ==
    ASSUME TypeOK, LoopInv, ~ConnectReceiver, Next
    PROVE  StaysConnected
<1> USE SignalingAssumption, RolesAssumption DEF clientVars, loopVars, acceptVars
<1>0. ASSUME UNCHANGED <<link, done>>
      PROVE  StaysConnected
  BY <1>0 DEF StaysConnected
<1>1. CASE CloseClient
  <2>1. cur \in Client
    BY <1>1 DEF CloseClient, LoopInv, TypeOK
  <2> QED
    BY <1>1, <2>1 DEF CloseClient, Close, LinkDown, StaysConnected, TypeOK, ClientTypeOK
<1>2. CASE \/ ConnectFails \/ Publish \/ StartListener \/ Disconnected \/ CloseReceiver
           \/ ClientClosed \/ Reconnect \/ StopServing \/ LeaveLoop \/ CancelContext
  BY <1>0, <1>2 DEF ConnectFails, Publish, StartListener, Disconnected, CloseReceiver,
     ClientClosed, Reconnect, StopServing, LeaveLoop, CancelContext, RemoveId
<1>3. ASSUME NEW k \in Receiver,
             \/ Subscribe(k) \/ RefuseOffer(k) \/ Reserve(k) \/ CreateFails(k)
             \/ Install(k) \/ AnswerFails(k) \/ MakeAnswer(k) \/ SendAnswer(k)
             \/ ListenerExits(k) \/ SessionEnds(k)
      PROVE  StaysConnected
  BY <1>0, <1>3 DEF Subscribe, RefuseOffer, Reserve, CreateFails, Install, AnswerFails,
     MakeAnswer, SendAnswer, ListenerExits, SessionEnds, TakeOffer, Busy, BackToWait,
     DropPeer, EnqueueRefused, Enqueue, HasRoom
<1>4. ASSUME NEW s \in Sender, ConnectSender(s)
      PROVE  StaysConnected
  BY <1>4 DEF ConnectSender, Connect, GoTo, StaysConnected, TypeOK, ClientTypeOK
<1>5. ASSUME NEW s \in Sender, CloseSender(s)
      PROVE  StaysConnected
  <2>1. CASE done[s]
    BY <1>0, <1>5, <2>1 DEF CloseSender
  <2>2. CASE ~done[s]
    <3>1. Close(s) /\ s \in Client /\ s \notin Receiver
      BY <1>5, <2>2 DEF CloseSender
    <3> QED
      BY <3>1 DEF Close, LinkDown, StaysConnected, TypeOK, ClientTypeOK
  <2> QED
    BY <2>1, <2>2
<1>6. ASSUME NEW s \in Sender,
             \/ RegisterCallback(s) \/ BeginOffer(s) \/ SendOffer(s) \/ Fail(s)
             \/ GetAnswer(s) \/ GuestAnswers(s) \/ Tick(s)
      PROVE  StaysConnected
  BY <1>0, <1>6 DEF RegisterCallback, BeginOffer, SendOffer, Fail, GetAnswer, GuestAnswers,
     Tick, OnAnswer, GoTo, EnqueueRefused, Enqueue, HasRoom
<1>7. ASSUME NEW k \in Client, GuestOffers(k)
      PROVE  StaysConnected
  BY <1>0, <1>7 DEF GuestOffers
<1>8. ASSUME NEW k \in Client, ReadFails(k)
      PROVE  StaysConnected
  BY <1>8 DEF ReadFails, Close, LinkDown, StaysConnected, TypeOK, ClientTypeOK
<1>9. ASSUME NEW k \in Client, WriteFails(k)
      PROVE  StaysConnected
  BY <1>9 DEF WriteFails, Close, LinkDown, StaysConnected, TypeOK, ClientTypeOK
<1>10. ASSUME NEW k \in Client, LinkLost(k)
      PROVE  StaysConnected
  BY <1>10 DEF LinkLost, LinkDown, StaysConnected, TypeOK, ClientTypeOK
<1>11. ASSUME NEW k \in Client,
             \/ ReadAnswer(k) \/ CallAnswer(k) \/ IgnoreAnswer(k) \/ ReadOffer(k)
             \/ BlockOnOffer(k) \/ DropOffer(k) \/ DeliverOffer(k) \/ StopOffering(k)
             \/ ReaderExits(k) \/ WriteNext(k) \/ SendKeepalive(k) \/ ExpireCallback(k)
      PROVE  StaysConnected
  BY <1>0, <1>11 DEF ReadAnswer, CallAnswer, IgnoreAnswer, ReadOffer, BlockOnOffer,
     DropOffer, DeliverOffer, StopOffering, ReaderExits, WriteNext, SendKeepalive,
     ExpireCallback, Incoming, ReadNext, TakeCallback, NextIsOffer, HoldOffer, WaitForRoom,
     GivesUpOffer, EndReader, Enqueue
<1> QED
  BY <1>1, <1>2, <1>3, <1>4, <1>5, <1>6, <1>7, <1>8, <1>9, <1>10, <1>11
  DEF Next, LoopStep, ListenerStep, SenderStep,
      ClientStep, ReaderStep, WriterStep

\* The loop goes on to another client only when the one it has is closed.
LEMMA LoopKept ==
    ASSUME TypeOK, LoopInv, Next
    PROVE  LoopInv'
<1> USE SignalingAssumption, RolesAssumption DEF clientVars, loopVars, acceptVars
<1>0. ASSUME StaysConnected, UNCHANGED <<loop, cur>>
      PROVE  LoopInv'
  BY <1>0 DEF LoopInv, StaysConnected, TypeOK
<1>a. ~ConnectReceiver => StaysConnected
  BY ClosedStays
<1>1. CASE ConnectReceiver
  <2>1. NextClient \in Receiver
    BY <1>1 DEF ConnectReceiver, NextClient, Fresh
  <2> QED
    BY <1>1, <2>1 DEF ConnectReceiver, Connect, LoopInv, TypeOK, ClientTypeOK
<1>2. CASE ConnectFails
  BY <1>2 DEF ConnectFails, LoopInv, TypeOK
<1>3. CASE Publish
  BY <1>3 DEF Publish, LoopInv, TypeOK
<1>4. CASE StartListener
  BY <1>4 DEF StartListener, LoopInv, TypeOK
<1>5. CASE Disconnected
  BY <1>5 DEF Disconnected, RemoveId, LoopInv, TypeOK
<1>6. CASE CloseReceiver
  BY <1>6 DEF CloseReceiver, LoopInv, TypeOK
<1>7. CASE CloseClient
  BY <1>a, <1>7 DEF ConnectReceiver, CloseClient, Close, LinkDown, StaysConnected, LoopInv,
     TypeOK
<1>8. CASE ClientClosed
  BY <1>8 DEF ClientClosed, LoopInv, TypeOK
<1>9. CASE Reconnect
  BY <1>9 DEF Reconnect, LoopInv, TypeOK
<1>10. CASE StopServing
  BY <1>10 DEF StopServing, LoopInv, TypeOK
<1>11. CASE LeaveLoop
  BY <1>11 DEF LeaveLoop, LoopInv, TypeOK
<1>12. CASE CancelContext
  BY <1>12 DEF CancelContext, LoopInv, TypeOK
<1>13. ASSUME NEW k \in Receiver,
             \/ Subscribe(k) \/ RefuseOffer(k) \/ Reserve(k) \/ CreateFails(k)
             \/ Install(k) \/ AnswerFails(k) \/ MakeAnswer(k) \/ SendAnswer(k)
             \/ ListenerExits(k) \/ SessionEnds(k)
      PROVE  LoopInv'
  <2>1. UNCHANGED <<loop, cur>>
    BY <1>13 DEF Subscribe, RefuseOffer, Reserve, CreateFails, Install, AnswerFails,
       MakeAnswer, SendAnswer, ListenerExits, SessionEnds, TakeOffer, Busy, BackToWait,
       DropPeer, EnqueueRefused, Enqueue, HasRoom
  <2> QED
    BY <1>0, <1>a, <2>1 DEF ConnectReceiver, LoopInv
<1>14. ASSUME NEW s \in Sender,
             \/ ConnectSender(s) \/ RegisterCallback(s) \/ BeginOffer(s) \/ SendOffer(s)
             \/ Fail(s) \/ GetAnswer(s) \/ CloseSender(s) \/ GuestAnswers(s) \/ Tick(s)
      PROVE  LoopInv'
  <2>1. UNCHANGED <<loop, cur>>
    BY <1>14 DEF ConnectSender, RegisterCallback, BeginOffer, SendOffer, Fail, GetAnswer,
       CloseSender, GuestAnswers, Tick
  <2> QED
    BY <1>0, <1>a, <2>1 DEF ConnectReceiver, LoopInv
<1>15. ASSUME NEW k \in Client, GuestOffers(k)
      PROVE  LoopInv'
  <2>1. UNCHANGED <<loop, cur>>
    BY <1>15 DEF GuestOffers
  <2> QED
    BY <1>0, <1>a, <2>1 DEF ConnectReceiver, LoopInv
<1>16. CASE UNCHANGED <<loopVars, acceptVars, command, guests>>
  <2>1. UNCHANGED <<loop, cur>>
    BY <1>16
  <2> QED
    BY <1>0, <1>a, <2>1 DEF ConnectReceiver, LoopInv
<1> QED
  BY <1>16, <1>1, <1>2, <1>3, <1>4, <1>5, <1>6, <1>7, <1>8, <1>9, <1>10, <1>11, <1>12, <1>13,
     <1>14, <1>15
  DEF Next, LoopStep, ListenerStep, SenderStep

\* A connection that is left behind stays closed, and its listener installs no session for good.
LEMMA LeftKept ==
    ASSUME TypeOK, LoopInv, LeftInv, Next
    PROVE  LeftInv'
<1> USE SignalingAssumption, RolesAssumption DEF clientVars, loopVars, acceptVars
<1>a. ~ConnectReceiver => StaysConnected
  BY ClosedStays
<1>0. ASSUME NEW r \in Receiver, StaysConnected, UNCHANGED <<loop, cur>>,
             listener'[r] = listener[r] /\ offer'[r] = offer[r],
             held'[r] = held[r] /\ accepting'[r] = accepting[r]
      PROVE  LeftOne(r)'
  BY <1>0 DEF LeftInv, LeftOne, Left, StaysConnected
<1>b. ASSUME ~ConnectReceiver, UNCHANGED <<loop, cur, acceptVars>>
      PROVE  LeftInv'
  BY <1>0, <1>a, <1>b DEF LeftInv
<1>1. CASE ConnectReceiver
  <2>1. NextClient \in Receiver /\ link[NextClient] = "none"
    BY <1>1 DEF ConnectReceiver, NextClient, Fresh
  <2>2. /\ UNCHANGED <<done, acceptVars>> /\ loop = "connect" /\ loop' = "publish" /\ cur' = NextClient
        /\ link' = [link EXCEPT ![NextClient] = "up"]
    BY <1>1 DEF ConnectReceiver, Connect
  <2> HIDE DEF NextClient
  <2>3. ASSUME NEW r \in Receiver
        PROVE  LeftOne(r)'
    BY <2>1, <2>2, <2>3 DEF LeftInv, LeftOne, Left, TypeOK, ClientTypeOK
  <2> QED
    BY <2>3 DEF LeftInv
<1>2. CASE ConnectFails
  <2>1. ASSUME NEW r \in Receiver
        PROVE  LeftOne(r)'
    BY <1>a, <1>2, <2>1 DEF ConnectFails, ConnectReceiver, StaysConnected, LeftInv, LeftOne,
       Left, LoopInv, TypeOK
  <2> QED
    BY <2>1 DEF LeftInv
<1>3. CASE Publish
  <2>1. ASSUME NEW r \in Receiver
        PROVE  LeftOne(r)'
    BY <1>a, <1>3, <2>1 DEF Publish, ConnectReceiver, StaysConnected, LeftInv, LeftOne,
       Left, LoopInv, TypeOK
  <2> QED
    BY <2>1 DEF LeftInv
<1>4. CASE StartListener
  <2>1. ASSUME NEW r \in Receiver
        PROVE  LeftOne(r)'
    BY <1>a, <1>4, <2>1 DEF StartListener, ConnectReceiver, StaysConnected, LeftInv,
       LeftOne, Left, LoopInv, TypeOK
  <2> QED
    BY <2>1 DEF LeftInv
<1>5. CASE Disconnected
  <2>1. ASSUME NEW r \in Receiver
        PROVE  LeftOne(r)'
    BY <1>a, <1>5, <2>1 DEF Disconnected, RemoveId, ConnectReceiver, StaysConnected,
       LeftInv, LeftOne, Left, LoopInv, TypeOK
  <2> QED
    BY <2>1 DEF LeftInv
<1>6. CASE CloseReceiver
  <2>1. ASSUME NEW r \in Receiver
        PROVE  LeftOne(r)'
    BY <1>a, <1>6, <2>1 DEF CloseReceiver, ConnectReceiver, StaysConnected, LeftInv,
       LeftOne, Left, LoopInv, TypeOK
  <2> QED
    BY <2>1 DEF LeftInv
<1>7. CASE CloseClient
  BY <1>b, <1>7 DEF CloseClient, ConnectReceiver, LoopInv
<1>8. CASE ClientClosed
  <2>1. ASSUME NEW r \in Receiver
        PROVE  LeftOne(r)'
    BY <1>a, <1>8, <2>1 DEF ClientClosed, ConnectReceiver, StaysConnected, LeftInv, LeftOne,
       Left, LoopInv, TypeOK
  <2> QED
    BY <2>1 DEF LeftInv
<1>9. CASE Reconnect
  <2>1. ASSUME NEW r \in Receiver
        PROVE  LeftOne(r)'
    BY <1>a, <1>9, <2>1 DEF Reconnect, ConnectReceiver, StaysConnected, LeftInv, LeftOne,
       Left, LoopInv, TypeOK
  <2> QED
    BY <2>1 DEF LeftInv
<1>10. CASE StopServing
  <2>1. ASSUME NEW r \in Receiver
        PROVE  LeftOne(r)'
    BY <1>a, <1>10, <2>1 DEF StopServing, ConnectReceiver, StaysConnected, LeftInv, LeftOne,
       Left, LoopInv, TypeOK
  <2> QED
    BY <2>1 DEF LeftInv
<1>11. CASE LeaveLoop
  <2>1. ASSUME NEW r \in Receiver
        PROVE  LeftOne(r)'
    BY <1>a, <1>11, <2>1 DEF LeaveLoop, ConnectReceiver, StaysConnected, LeftInv, LeftOne,
       Left, LoopInv, TypeOK
  <2> QED
    BY <2>1 DEF LeftInv
<1>12. CASE CancelContext
  BY <1>b, <1>12 DEF CancelContext, ConnectReceiver
<1>13. ASSUME NEW k \in Receiver, Subscribe(k)
      PROVE  LeftInv'
  <2>1. StaysConnected /\ UNCHANGED <<loop, cur>> /\ UNCHANGED <<link, done>>
    BY <1>13 DEF Subscribe, StaysConnected
  <2>2. ASSUME NEW r \in Receiver, r # k
        PROVE  LeftOne(r)'
    BY <1>0, <1>13, <2>1, <2>2 DEF Subscribe, TypeOK
  <2>3. LeftOne(k)'
    BY <1>13, <2>1 DEF Subscribe, LeftInv, LeftOne, Left, TypeOK, ClientTypeOK
  <2> QED
    BY <2>2, <2>3 DEF LeftInv
<1>14. ASSUME NEW k \in Receiver, RefuseOffer(k)
      PROVE  LeftInv'
  <2>1. StaysConnected /\ UNCHANGED <<loop, cur>> /\ UNCHANGED <<link, done>>
    BY <1>14 DEF RefuseOffer, TakeOffer, StaysConnected
  <2>2. ASSUME NEW r \in Receiver, r # k
        PROVE  LeftOne(r)'
    BY <1>0, <1>14, <2>1, <2>2 DEF RefuseOffer, TakeOffer, TypeOK
  <2>3. LeftOne(k)'
    BY <1>14, <2>1 DEF RefuseOffer, TakeOffer, LeftInv, LeftOne, Left, TypeOK, ClientTypeOK
  <2> QED
    BY <2>2, <2>3 DEF LeftInv
<1>15. ASSUME NEW k \in Receiver, Reserve(k)
      PROVE  LeftInv'
  <2>1. StaysConnected /\ UNCHANGED <<loop, cur>> /\ UNCHANGED <<link, done>>
    BY <1>15 DEF Reserve, TakeOffer, Busy, StaysConnected
  <2>2. ASSUME NEW r \in Receiver, r # k
        PROVE  LeftOne(r)'
    BY <1>0, <1>15, <2>1, <2>2 DEF Reserve, TakeOffer, Busy, TypeOK
  <2>3. LeftOne(k)'
    BY <1>15, <2>1 DEF Reserve, TakeOffer, Busy, LeftInv, LeftOne, Left, TypeOK,
       ClientTypeOK
  <2> QED
    BY <2>2, <2>3 DEF LeftInv
<1>16. ASSUME NEW k \in Receiver, CreateFails(k)
      PROVE  LeftInv'
  <2>1. StaysConnected /\ UNCHANGED <<loop, cur>> /\ UNCHANGED <<link, done>>
    BY <1>16 DEF CreateFails, BackToWait, StaysConnected
  <2>2. ASSUME NEW r \in Receiver, r # k
        PROVE  LeftOne(r)'
    BY <1>0, <1>16, <2>1, <2>2 DEF CreateFails, BackToWait, TypeOK
  <2>3. LeftOne(k)'
    BY <1>16, <2>1 DEF CreateFails, BackToWait, LeftInv, LeftOne, Left, TypeOK, ClientTypeOK
  <2> QED
    BY <2>2, <2>3 DEF LeftInv
<1>17. ASSUME NEW k \in Receiver, Install(k)
      PROVE  LeftInv'
  <2>1. StaysConnected /\ UNCHANGED <<loop, cur>> /\ UNCHANGED <<link, done>>
    BY <1>17 DEF Install, BackToWait, StaysConnected
  <2>2. ASSUME NEW r \in Receiver, r # k
        PROVE  LeftOne(r)'
    BY <1>0, <1>17, <2>1, <2>2 DEF Install, BackToWait, TypeOK
  <2>3. LeftOne(k)'
    BY <1>17, <2>1 DEF Install, BackToWait, LeftInv, LeftOne, Left, TypeOK, ClientTypeOK
  <2> QED
    BY <2>2, <2>3 DEF LeftInv
<1>18. ASSUME NEW k \in Receiver, AnswerFails(k)
      PROVE  LeftInv'
  <2>1. StaysConnected /\ UNCHANGED <<loop, cur>> /\ UNCHANGED <<link, done>>
    BY <1>18 DEF AnswerFails, BackToWait, DropPeer, StaysConnected
  <2>2. ASSUME NEW r \in Receiver, r # k
        PROVE  LeftOne(r)'
    BY <1>0, <1>18, <2>1, <2>2 DEF AnswerFails, BackToWait, DropPeer, TypeOK
  <2>3. LeftOne(k)'
    BY <1>18, <2>1 DEF AnswerFails, BackToWait, DropPeer, LeftInv, LeftOne, Left, TypeOK,
       ClientTypeOK
  <2> QED
    BY <2>2, <2>3 DEF LeftInv
<1>19. ASSUME NEW k \in Receiver, MakeAnswer(k)
      PROVE  LeftInv'
  <2>1. StaysConnected /\ UNCHANGED <<loop, cur>> /\ UNCHANGED <<link, done>>
    BY <1>19 DEF MakeAnswer, EnqueueRefused, StaysConnected
  <2>2. ASSUME NEW r \in Receiver, r # k
        PROVE  LeftOne(r)'
    BY <1>0, <1>19, <2>1, <2>2 DEF MakeAnswer, TypeOK
  <2>3. LeftOne(k)'
    BY <1>19, <2>1 DEF MakeAnswer, EnqueueRefused, LeftInv, LeftOne, Left, TypeOK,
       ClientTypeOK
  <2> QED
    BY <2>2, <2>3 DEF LeftInv
<1>20. ASSUME NEW k \in Receiver, SendAnswer(k)
      PROVE  LeftInv'
  <2>1. StaysConnected /\ UNCHANGED <<loop, cur>> /\ UNCHANGED <<link, done>>
    BY <1>20 DEF SendAnswer, Enqueue, HasRoom, BackToWait, StaysConnected
  <2>2. ASSUME NEW r \in Receiver, r # k
        PROVE  LeftOne(r)'
    BY <1>0, <1>20, <2>1, <2>2 DEF SendAnswer, BackToWait, TypeOK
  <2>3. LeftOne(k)'
    BY <1>20, <2>1 DEF SendAnswer, BackToWait, LeftInv, LeftOne, Left, TypeOK, ClientTypeOK
  <2> QED
    BY <2>2, <2>3 DEF LeftInv
<1>21. ASSUME NEW k \in Receiver, ListenerExits(k)
      PROVE  LeftInv'
  <2>1. StaysConnected /\ UNCHANGED <<loop, cur>> /\ UNCHANGED <<link, done>>
    BY <1>21 DEF ListenerExits, StaysConnected
  <2>2. ASSUME NEW r \in Receiver, r # k
        PROVE  LeftOne(r)'
    BY <1>0, <1>21, <2>1, <2>2 DEF ListenerExits, TypeOK
  <2>3. LeftOne(k)'
    BY <1>21, <2>1 DEF ListenerExits, LeftInv, LeftOne, Left, TypeOK, ClientTypeOK
  <2> QED
    BY <2>2, <2>3 DEF LeftInv
<1>22. ASSUME NEW k \in Receiver, SessionEnds(k)
      PROVE  LeftInv'
  <2>1. StaysConnected /\ UNCHANGED <<loop, cur>> /\ UNCHANGED <<link, done>>
    BY <1>22 DEF SessionEnds, DropPeer, StaysConnected
  <2>2. ASSUME NEW r \in Receiver, r # k
        PROVE  LeftOne(r)'
    BY <1>0, <1>22, <2>1, <2>2 DEF SessionEnds, DropPeer, TypeOK
  <2>3. LeftOne(k)'
    BY <1>22, <2>1 DEF SessionEnds, DropPeer, LeftInv, LeftOne, Left, TypeOK, ClientTypeOK
  <2> QED
    BY <2>2, <2>3 DEF LeftInv
<1>23. ASSUME NEW s \in Sender,
             \/ ConnectSender(s) \/ RegisterCallback(s) \/ BeginOffer(s) \/ SendOffer(s)
             \/ Fail(s) \/ GetAnswer(s) \/ CloseSender(s) \/ GuestAnswers(s) \/ Tick(s)
      PROVE  LeftInv'
  <2>1. UNCHANGED <<loop, cur, acceptVars>>
    BY <1>23 DEF ConnectSender, RegisterCallback, BeginOffer, SendOffer, Fail, GetAnswer,
       CloseSender, GuestAnswers, Tick
  <2>2. ~ConnectReceiver
    BY <2>1 DEF ConnectReceiver
  <2> QED
    BY <1>b, <2>1, <2>2
<1>24. ASSUME NEW k \in Client, GuestOffers(k)
      PROVE  LeftInv'
  <2>1. UNCHANGED <<loop, cur, acceptVars>>
    BY <1>24 DEF GuestOffers
  <2>2. ~ConnectReceiver
    BY <2>1 DEF ConnectReceiver
  <2> QED
    BY <1>b, <2>1, <2>2
<1>25. CASE UNCHANGED <<loopVars, acceptVars, command, guests>>
  <2>1. ~ConnectReceiver
    BY <1>25 DEF ConnectReceiver
  <2> QED
    BY <1>b, <2>1, <1>25
<1> QED
  BY <1>25, <1>1, <1>2, <1>3, <1>4, <1>5, <1>6, <1>7, <1>8, <1>9, <1>10, <1>11, <1>12, <1>13,
     <1>14, <1>15, <1>16, <1>17, <1>18, <1>19, <1>20, <1>21, <1>22, <1>23, <1>24
  DEF Next, LoopStep, ListenerStep, SenderStep

\* The callback of a sender that waits is neither lost nor cleaned up.
LEMMA WaitKept ==
    ASSUME TypeOK, LoopInv, WaitInv, Next
    PROVE  WaitInv'
<1> USE SignalingAssumption, RolesAssumption DEF clientVars, loopVars, acceptVars
<1>0. ASSUME UNCHANGED <<command, waited, done, callback, reader, answerCh>>
      PROVE  WaitInv'
  BY <1>0 DEF WaitInv, WaitOne
<1>a. ASSUME NEW r \in Sender, command'[r] = command[r] /\ waited'[r] = waited[r],
             done'[r] = done[r] /\ callback'[r] = callback[r],
             reader'[r] = reader[r] /\ answerCh'[r] = answerCh[r]
      PROVE  WaitOne(r)'
  BY <1>a DEF WaitInv, WaitOne
<1>1. CASE ConnectReceiver
  <2>1. NextClient \in Receiver
    BY <1>1 DEF ConnectReceiver, NextClient, Fresh
  <2>2. ASSUME NEW r \in Sender
        PROVE  WaitOne(r)'
    BY <1>a, <1>1, <2>1, <2>2 DEF ConnectReceiver, Connect, TypeOK, ClientTypeOK
  <2> QED
    BY <2>2 DEF WaitInv
<1>2. CASE CloseClient
  <2>1. cur \in Receiver
    BY <1>2 DEF CloseClient, LoopInv, TypeOK
  <2>2. ASSUME NEW r \in Sender
        PROVE  WaitOne(r)'
    BY <1>a, <1>2, <2>1, <2>2 DEF CloseClient, Close, TypeOK, ClientTypeOK
  <2> QED
    BY <2>2 DEF WaitInv
<1>3. CASE \/ ConnectFails \/ Publish \/ StartListener \/ Disconnected \/ CloseReceiver
           \/ ClientClosed \/ Reconnect \/ StopServing \/ LeaveLoop \/ CancelContext
  BY <1>0, <1>3 DEF ConnectFails, Publish, StartListener, Disconnected, CloseReceiver,
     ClientClosed, Reconnect, StopServing, LeaveLoop, CancelContext, RemoveId
<1>4. ASSUME NEW k \in Receiver,
             \/ Subscribe(k) \/ RefuseOffer(k) \/ Reserve(k) \/ CreateFails(k)
             \/ Install(k) \/ AnswerFails(k) \/ MakeAnswer(k) \/ SendAnswer(k)
             \/ ListenerExits(k) \/ SessionEnds(k)
      PROVE  WaitInv'
  BY <1>0, <1>4 DEF Subscribe, RefuseOffer, Reserve, CreateFails, Install, AnswerFails,
     MakeAnswer, SendAnswer, ListenerExits, SessionEnds, TakeOffer, Busy, BackToWait,
     DropPeer, EnqueueRefused, Enqueue, HasRoom
<1>5. ASSUME NEW s \in Sender, ConnectSender(s)
      PROVE  WaitInv'
  <2>1. ASSUME NEW r \in Sender, r # s
        PROVE  WaitOne(r)'
    BY <1>a, <1>5, <2>1 DEF ConnectSender, Connect, GoTo, TypeOK, ClientTypeOK
  <2>2. ASSUME s \in Sender
        PROVE  WaitOne(s)'
    BY <1>5, <2>2 DEF ConnectSender, Connect, GoTo, WaitInv, WaitOne, TypeOK, ClientTypeOK
  <2> QED
    BY <2>1, <2>2 DEF WaitInv
<1>6. ASSUME NEW s \in Sender, RegisterCallback(s)
      PROVE  WaitInv'
  <2>1. ASSUME NEW r \in Sender, r # s
        PROVE  WaitOne(r)'
    BY <1>a, <1>6, <2>1 DEF RegisterCallback, OnAnswer, GoTo, TypeOK, ClientTypeOK
  <2>2. ASSUME s \in Sender
        PROVE  WaitOne(s)'
    BY <1>6, <2>2 DEF RegisterCallback, OnAnswer, GoTo, WaitInv, WaitOne, TypeOK,
       ClientTypeOK
  <2> QED
    BY <2>1, <2>2 DEF WaitInv
<1>7. ASSUME NEW s \in Sender, BeginOffer(s)
      PROVE  WaitInv'
  <2>1. ASSUME NEW r \in Sender, r # s
        PROVE  WaitOne(r)'
    BY <1>a, <1>7, <2>1 DEF BeginOffer, EnqueueRefused, GoTo, TypeOK, ClientTypeOK
  <2>2. ASSUME s \in Sender
        PROVE  WaitOne(s)'
    BY <1>7, <2>2 DEF BeginOffer, EnqueueRefused, GoTo, WaitInv, WaitOne, TypeOK,
       ClientTypeOK
  <2> QED
    BY <2>1, <2>2 DEF WaitInv
<1>8. ASSUME NEW s \in Sender, SendOffer(s)
      PROVE  WaitInv'
  <2>1. ASSUME NEW r \in Sender, r # s
        PROVE  WaitOne(r)'
    BY <1>a, <1>8, <2>1 DEF SendOffer, Enqueue, GoTo, TypeOK, ClientTypeOK
  <2>2. ASSUME s \in Sender
        PROVE  WaitOne(s)'
    BY <1>8, <2>2 DEF SendOffer, Enqueue, GoTo, WaitInv, WaitOne, TypeOK, ClientTypeOK
  <2> QED
    BY <2>1, <2>2 DEF WaitInv
<1>9. ASSUME NEW s \in Sender, Fail(s)
      PROVE  WaitInv'
  <2>1. ASSUME NEW r \in Sender, r # s
        PROVE  WaitOne(r)'
    BY <1>a, <1>9, <2>1 DEF Fail, GoTo, TypeOK, ClientTypeOK
  <2>2. ASSUME s \in Sender
        PROVE  WaitOne(s)'
    BY <1>9, <2>2 DEF Fail, GoTo, WaitInv, WaitOne, TypeOK, ClientTypeOK
  <2> QED
    BY <2>1, <2>2 DEF WaitInv
<1>10. ASSUME NEW s \in Sender, GetAnswer(s)
      PROVE  WaitInv'
  <2>1. ASSUME NEW r \in Sender, r # s
        PROVE  WaitOne(r)'
    BY <1>a, <1>10, <2>1 DEF GetAnswer, GoTo, TypeOK, ClientTypeOK
  <2>2. ASSUME s \in Sender
        PROVE  WaitOne(s)'
    BY <1>10, <2>2 DEF GetAnswer, GoTo, WaitInv, WaitOne, TypeOK, ClientTypeOK
  <2> QED
    BY <2>1, <2>2 DEF WaitInv
<1>11. ASSUME NEW s \in Sender, CloseSender(s)
      PROVE  WaitInv'
  <2>1. ASSUME NEW r \in Sender, r # s
        PROVE  WaitOne(r)'
    <3>1. CASE done[s]
      BY <1>a, <1>11, <2>1, <3>1 DEF CloseSender, GoTo, TypeOK
    <3>2. CASE ~done[s]
      <4>1. Close(s) /\ s \in Client
        BY <1>11, <3>2 DEF CloseSender
      <4> QED
        BY <1>a, <1>11, <2>1, <4>1 DEF CloseSender, Close, GoTo, TypeOK, ClientTypeOK
    <3> QED
      BY <3>1, <3>2
  <2>2. WaitOne(s)'
    BY <1>11 DEF CloseSender, GoTo, WaitOne, TypeOK
  <2> QED
    BY <2>1, <2>2 DEF WaitInv
<1>12. ASSUME NEW s \in Sender, GuestAnswers(s)
      PROVE  WaitInv'
  BY <1>0, <1>12 DEF GuestAnswers
<1>13. ASSUME NEW s \in Sender, Tick(s)
      PROVE  WaitInv'
  <2>1. ASSUME NEW r \in Sender, r # s
        PROVE  WaitOne(r)'
    BY <1>a, <1>13, <2>1 DEF Tick, TypeOK, ClientTypeOK
  <2>2. ASSUME s \in Sender
        PROVE  WaitOne(s)'
    BY <1>13, <2>2 DEF Tick, WaitInv, WaitOne, TypeOK, ClientTypeOK
  <2> QED
    BY <2>1, <2>2 DEF WaitInv
<1>14. ASSUME NEW k \in Client, GuestOffers(k)
      PROVE  WaitInv'
  BY <1>0, <1>14 DEF GuestOffers
<1>15. ASSUME NEW k \in Client, ReadAnswer(k), UNCHANGED command
      PROVE  WaitInv'
  <2>1. ASSUME NEW r \in Sender, r # k
        PROVE  WaitOne(r)'
    BY <1>a, <1>15, <2>1 DEF ReadAnswer, Incoming, ReadNext, TakeCallback, TypeOK,
       ClientTypeOK
  <2>2. ASSUME k \in Sender
        PROVE  WaitOne(k)'
    BY <1>15, <2>2 DEF ReadAnswer, Incoming, ReadNext, TakeCallback, WaitInv, WaitOne,
       TypeOK, ClientTypeOK
  <2> QED
    BY <2>1, <2>2 DEF WaitInv
<1>16. ASSUME NEW k \in Client, CallAnswer(k), UNCHANGED command
      PROVE  WaitInv'
  <2>1. ASSUME NEW r \in Sender, r # k
        PROVE  WaitOne(r)'
    BY <1>a, <1>16, <2>1 DEF CallAnswer, TypeOK, ClientTypeOK
  <2>2. ASSUME k \in Sender
        PROVE  WaitOne(k)'
    BY <1>16, <2>2 DEF CallAnswer, WaitInv, WaitOne, TypeOK, ClientTypeOK
  <2> QED
    BY <2>1, <2>2 DEF WaitInv
<1>17. ASSUME NEW k \in Client, BlockOnOffer(k), UNCHANGED command
      PROVE  WaitInv'
  <2>1. ASSUME NEW r \in Sender, r # k
        PROVE  WaitOne(r)'
    BY <1>a, <1>17, <2>1 DEF BlockOnOffer, NextIsOffer, Incoming, ReadNext, HoldOffer,
       WaitForRoom, TypeOK, ClientTypeOK
  <2>2. ASSUME k \in Sender
        PROVE  WaitOne(k)'
    BY <1>17, <2>2 DEF BlockOnOffer, NextIsOffer, Incoming, ReadNext, HoldOffer,
       WaitForRoom, WaitInv, WaitOne, TypeOK, ClientTypeOK
  <2> QED
    BY <2>1, <2>2 DEF WaitInv
<1>18. ASSUME NEW k \in Client, DeliverOffer(k), UNCHANGED command
      PROVE  WaitInv'
  <2>1. ASSUME NEW r \in Sender, r # k
        PROVE  WaitOne(r)'
    BY <1>a, <1>18, <2>1 DEF DeliverOffer, TypeOK, ClientTypeOK
  <2>2. ASSUME k \in Sender
        PROVE  WaitOne(k)'
    BY <1>18, <2>2 DEF DeliverOffer, WaitInv, WaitOne, TypeOK, ClientTypeOK
  <2> QED
    BY <2>1, <2>2 DEF WaitInv
<1>19. ASSUME NEW k \in Client, StopOffering(k), UNCHANGED command
      PROVE  WaitInv'
  <2>1. ASSUME NEW r \in Sender, r # k
        PROVE  WaitOne(r)'
    BY <1>a, <1>19, <2>1 DEF StopOffering, GivesUpOffer, EndReader, TypeOK, ClientTypeOK
  <2>2. ASSUME k \in Sender
        PROVE  WaitOne(k)'
    BY <1>19, <2>2 DEF StopOffering, GivesUpOffer, EndReader, WaitInv, WaitOne, TypeOK,
       ClientTypeOK
  <2> QED
    BY <2>1, <2>2 DEF WaitInv
<1>20. ASSUME NEW k \in Client, ReadFails(k), UNCHANGED command
      PROVE  WaitInv'
  <2>1. ASSUME NEW r \in Sender, r # k
        PROVE  WaitOne(r)'
    BY <1>a, <1>20, <2>1 DEF ReadFails, Close, LinkDown, TypeOK, ClientTypeOK
  <2>2. ASSUME k \in Sender
        PROVE  WaitOne(k)'
    BY <1>20, <2>2 DEF ReadFails, Close, LinkDown, WaitInv, WaitOne, TypeOK, ClientTypeOK
  <2> QED
    BY <2>1, <2>2 DEF WaitInv
<1>21. ASSUME NEW k \in Client, ReaderExits(k), UNCHANGED command
      PROVE  WaitInv'
  <2>1. ASSUME NEW r \in Sender, r # k
        PROVE  WaitOne(r)'
    BY <1>a, <1>21, <2>1 DEF ReaderExits, EndReader, TypeOK, ClientTypeOK
  <2>2. ASSUME k \in Sender
        PROVE  WaitOne(k)'
    BY <1>21, <2>2 DEF ReaderExits, EndReader, WaitInv, WaitOne, TypeOK, ClientTypeOK
  <2> QED
    BY <2>1, <2>2 DEF WaitInv
<1>22. ASSUME NEW k \in Client, WriteFails(k), UNCHANGED command
      PROVE  WaitInv'
  <2>1. ASSUME NEW r \in Sender, r # k
        PROVE  WaitOne(r)'
    BY <1>a, <1>22, <2>1 DEF WriteFails, Close, LinkDown, TypeOK, ClientTypeOK
  <2>2. ASSUME k \in Sender
        PROVE  WaitOne(k)'
    BY <1>22, <2>2 DEF WriteFails, Close, LinkDown, WaitInv, WaitOne, TypeOK, ClientTypeOK
  <2> QED
    BY <2>1, <2>2 DEF WaitInv
<1>23. ASSUME NEW k \in Client, ExpireCallback(k), UNCHANGED command
      PROVE  WaitInv'
  <2>1. ASSUME NEW r \in Sender, r # k
        PROVE  WaitOne(r)'
    BY <1>a, <1>23, <2>1 DEF ExpireCallback, CallbackExpired, TypeOK, ClientTypeOK
  <2>2. ASSUME k \in Sender
        PROVE  WaitOne(k)'
    BY <1>23, <2>2 DEF ExpireCallback, CallbackExpired, WaitInv, WaitOne, TypeOK,
       ClientTypeOK
  <2> QED
    BY <2>1, <2>2 DEF WaitInv
<1>24. ASSUME NEW k \in Client,
             \/ IgnoreAnswer(k) \/ ReadOffer(k) \/ DropOffer(k) \/ WriteNext(k)
             \/ SendKeepalive(k) \/ LinkLost(k),
             UNCHANGED command
      PROVE  WaitInv'
  BY <1>0, <1>24 DEF IgnoreAnswer, ReadOffer, DropOffer, WriteNext, SendKeepalive, LinkLost,
     Incoming, ReadNext, NextIsOffer, Enqueue, LinkDown
<1> QED
  BY <1>1, <1>2, <1>3, <1>4, <1>5, <1>6, <1>7, <1>8, <1>9, <1>10, <1>11, <1>12, <1>13,
     <1>14, <1>15, <1>16, <1>17, <1>18, <1>19, <1>20, <1>21, <1>22, <1>23, <1>24
  DEF Next, LoopStep, ListenerStep, SenderStep,
      ClientStep, ReaderStep, WriterStep

-----------------------------------------------------------------------------
(* The invariant and what follows from it.                                 *)

\* SInv holds at the start.
LEMMA InitSInv == Init => SInv
<1> SUFFICES ASSUME Init PROVE SInv
  OBVIOUS
<1> USE SignalingAssumption, RolesAssumption
<1>1. TypeOK
  <2>1. 0 \in 0 .. AnswerTTL + 1
    OBVIOUS
  <2>2. ClientTypeOK
    BY <2>1 DEF Init, ClientInit, ClientTypeOK
  <2> QED
    BY <2>2 DEF Init, TypeOK
<1>2. ReadingInv /\ LoopInv /\ LeftInv /\ WaitInv
  BY DEF Init, ClientInit, ReadingInv, LoopInv, LeftInv, LeftOne, WaitInv, WaitOne
<1> QED
  BY <1>1, <1>2 DEF SInv

\* Every step keeps it.
LEMMA StepSInv == SInv /\ [Next]_vars => SInv'
<1> SUFFICES ASSUME SInv, [Next]_vars PROVE SInv'
  OBVIOUS
<1>1. CASE Next
  BY <1>1, TypeStep, ReadingStep, LoopKept, LeftKept, WaitKept DEF SInv
<1>2. CASE UNCHANGED vars
  <2>1. TypeOK' /\ ReadingInv'
    BY <1>2 DEF SInv, vars, clientVars, loopVars, acceptVars, TypeOK, ClientTypeOK, ReadingInv
  <2>2. LoopInv' /\ LeftInv' /\ WaitInv'
    BY <1>2 DEF SInv, vars, clientVars, loopVars, acceptVars, LoopInv, LeftInv, LeftOne, Left,
       WaitInv, WaitOne
  <2> QED
    BY <2>1, <2>2 DEF SInv
<1> QED
  BY <1>1, <1>2

\* So it always holds.
LEMMA SignalingInvariant == Spec => []SInv
BY InitSInv, StepSInv, PTL DEF Spec

\* The clients, the loop, the listeners and the senders keep their types: no channel ever
\* holds more than it has room for (offerChan, sendChan of signaling/client.go).
THEOREM SignalingTypes == Spec => []TypeOK
<1>1. SInv => TypeOK
  BY DEF SInv
<1> QED
  BY <1>1, SignalingInvariant, PTL

\* A `send` that waits for its answer on an open connection has its callback in the table,
\* or it is being called, or it has been called: answerCallbackCleanupLoop never takes it,
\* however the timers, the reader and other closers interleave.
THEOREM WaiterKeepsCallback == Spec => []WaiterHasCallback
<1>1. SInv => WaiterHasCallback
  BY DEF SInv, WaitInv, WaitOne, WaiterHasCallback
<1> QED
  BY <1>1, SignalingInvariant, PTL

\* A connection that startWebRTCReceiver has left behind is closed, and its RTCReceiver
\* holds no session and no reservation whenever its listener is back at its channel.
THEOREM OldIsIdle == Spec => []OldReceiverIdle
<1>1. SInv => OldReceiverIdle
  BY DEF SInv, LeftInv, LeftOne, Left, OldReceiverIdle
<1> QED
  BY <1>1, SignalingInvariant, PTL
=============================================================================
