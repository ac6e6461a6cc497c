-------------------------- MODULE ConnectionProofs --------------------------
(***************************************************************************)
(* Proofs about Connection, for every role, capacity, bound and            *)
(* environment.                                                            *)
(***************************************************************************)
EXTENDS Connection, TLAPS

\* What the types depend on: a Send is in progress only while the main
\* goroutine is in it, the sender is busy only with a Send, and
\* sendRemainingMessages has counted no more than there is.
CallInv ==
  /\ call # <<>> => pc \in {"sending", "flushing"} /\ counter # 0
  /\ sender = "busy" => call # <<>>
  /\ pc \in {"remaining", "flushing"} => left <= Len(queue)
  /\ rpc = "push" => target \in Channels

\* Before what is written stands what is being sent, before that the queue,
\* and before that the messages to come.
OrderInv ==
  /\ SentInOrder
  /\ \A i, j \in DOMAIN queue : i < j => queue[i].id < queue[j].id
  /\ \A i \in DOMAIN sent : /\ sent[i].id < nextMsg
                            /\ \A j \in DOMAIN call : sent[i].id < call[j].id
                            /\ \A j \in DOMAIN queue : sent[i].id < queue[j].id
  /\ \A i \in DOMAIN call : /\ call[i].id < nextMsg
                            /\ \A j \in DOMAIN queue : call[i].id < queue[j].id
  /\ \A i \in DOMAIN queue : queue[i].id < nextMsg

TypeInv == TypeOK /\ CallInv

\* A tomb without goroutines has none, one that was never used tracks nothing,
\* and what is tracked awaits its answer or is the Send in progress.
TrackInv ==
  /\ tomb \in {"fresh", "zombie", "dead"} => sender = "none" /\ reader = "none"
  /\ pc = "connect" => tomb \in {"fresh", "dead"}
  /\ tomb = "fresh" /\ call = <<>> => tracked = {}
  /\ tomb \in {"alive", "dying"} =>
       \A id \in tracked :
         id \in unanswered \/ (call # <<>> /\ id = counter - 1)

\* Nobody needs to wait for such a message any more.
Late(msg) == ~msg.due /\ msg.kind # "closeConnection"

\* Once the connection is on its way out it is not alive, so that what is
\* submitted then is late: everything behind the messages that
\* sendRemainingMessages has counted, and in the end the whole queue.
FlushInv ==
  /\ pc \in {"lock", "closing", "notify", "count", "remaining", "flushing",
            "clientClose", "clientWait"} => cTomb # "alive"
  /\ pc \in {"remaining", "flushing"} =>
       \A i \in DOMAIN queue : i > left => Late(queue[i])
  /\ pc \in {"clientClose", "clientWait"} /\ Role # "control" =>
       \A i \in DOMAIN queue : Late(queue[i])

\* The node does not ask a daemon to open or close channels.
DaemonKinds == {"connected", "close", "data"}

\* A daemon's channel that was told to close is the one that broker.Close waits
\* for.
WaitInv ==
  Role = "daemon" =>
    /\ \A i \in DOMAIN inbound : inbound[i].kind \in DaemonKinds
    /\ \A i \in DOMAIN held : held[i].kind \in DaemonKinds
    /\ rpc \notin {"close", "closeWait"}
    /\ \A c \in Channels : chan[c] = "dying" => pc = "closing" /\ closing = c

\* The messages that are queued, being sent or written.
Elements(s) == {s[i] : i \in DOMAIN s}
Known == Elements(sent) \union Elements(call) \union Elements(queue)

Notified == {"count", "remaining", "flushing", "clientClose", "clientWait", "done"}

\* The notice is submitted once broker.Close is over, and after all that the
\* channels it waited for have submitted.
LastInv ==
  /\ \A m \in Known : m.kind = "closeConnection" => pc \in Notified
  /\ \A m, n \in Known :
       m.kind = "closeConnection" /\ n.kind = "closeChannel" => n.id < m.id

-----------------------------------------------------------------------------
(* The messenger.                                                          *)

\* A message built by Submit is a message, and an id is spent on it.
LEMMA SubmitTypes ==
  ASSUME MainTypeOK,
         NEW kind \in MessageKinds, Submit(kind)
  PROVE  /\ queue' \in Seq(Messages) /\ nextMsg' \in Nat
         /\ Len(queue') = Len(queue) + 1
  <1>1. Message(kind) \in Messages
    BY DEF MainTypeOK, Message, Messages
  <1>. QED  BY <1>1 DEF MainTypeOK, Submit

\* Killed leaves a tomb and a reason.
LEMMA KilledTypes ==
  ASSUME SignalRTypeOK, NEW why \in {"lost", "normal", "closed"}, Killed(why)
  PROVE  /\ tomb' \in {"fresh", "zombie", "alive", "dying", "dead"}
         /\ reason' \in {"none", "lost", "normal", "closed"}
  BY DEF SignalRTypeOK, Killed

\* Connect starts a tracker of its own or keeps one that was never used.
LEMMA ConnectTypes ==
  ASSUME SignalRTypeOK, ConnectOK \/ ConnectFails
  PROVE  SignalRTypeOK' /\ call' = call /\ sender' \in {"starting", sender}
  <1>1. tracked' \subseteq Nat /\ counter' \in Nat
    <2>1. ResetTracker
      BY DEF ConnectOK, ConnectFails
    <2>2. CASE tomb = "fresh"
      BY <2>1, <2>2 DEF SignalRTypeOK, ResetTracker
    <2>3. CASE tomb # "fresh"
      BY <2>1, <2>3 DEF ResetTracker
    <2>. QED  BY <2>2, <2>3
  <1>2. unanswered' \subseteq Nat /\ stale' \subseteq Nat
    BY DEF SignalRTypeOK, ConnectOK, ConnectFails
  <1>. QED  BY <1>1, <1>2 DEF SignalRTypeOK, ConnectOK, ConnectFails

\* Send takes a message and an invocation id.
LEMMA StartSendTypes ==
  ASSUME SignalRTypeOK, NEW msg \in Messages, StartSend(msg)
  PROVE  SignalRTypeOK' /\ call' # <<>> /\ counter' # 0 /\ sender' = sender
  <1>1. <<msg>> \in Seq(Messages) /\ <<msg>> # <<>>
    OBVIOUS
  <1>. QED  BY <1>1 DEF SignalRTypeOK, StartSend

\* The sender serves the Send in progress and no other.
LEMMA SenderTypes ==
  ASSUME TypeInv, SenderStep
  PROVE  /\ SignalRTypeOK' /\ call' \in {call, <<>>} /\ counter' = counter
         /\ sender' = "busy" => call' # <<>>
  <1>1. CASE SenderStarts
    BY <1>1, KilledTypes
    DEF SenderStarts, TypeInv, TypeOK, SignalRTypeOK, CallInv, trackVars
  <1>2. CASE SenderTakes
    BY <1>2 DEF SenderTakes, TypeInv, TypeOK, SignalRTypeOK, CallInv, trackVars
  <1>3. CASE SenderWrites
    <2>1. /\ Head(call) \in Messages /\ counter - 1 \in Nat
          /\ <<>> \in Seq(Messages)
      BY <1>3 DEF SenderWrites, TypeInv, TypeOK, SignalRTypeOK, CallInv
    <2>2. CASE ws = "up"
      <3>1. Append(sent, Head(call)) \in Seq(Messages)
        BY <2>1 DEF TypeInv, TypeOK, SignalRTypeOK
      <3>2. unanswered \union {counter - 1} \subseteq Nat
        BY <2>1 DEF TypeInv, TypeOK, SignalRTypeOK
      <3>. QED
        BY <1>3, <2>1, <2>2, <3>1, <3>2
        DEF SenderWrites, TypeInv, TypeOK, SignalRTypeOK
    <2>3. CASE ws # "up"
      <3>1. tracked \ {counter - 1} \subseteq Nat
        BY DEF TypeInv, TypeOK, SignalRTypeOK
      <3>. QED
        BY <1>3, <2>1, <2>3, <3>1
        DEF SenderWrites, TypeInv, TypeOK, SignalRTypeOK
    <2>. QED  BY <2>2, <2>3
  <1>4. CASE SenderEnds
    BY <1>4 DEF SenderEnds, TypeInv, TypeOK, SignalRTypeOK, trackVars
  <1>. QED  BY <1>1, <1>2, <1>3, <1>4 DEF SenderStep

\* The reader, the server and the network leave the Send in progress alone.
LEMMA ReaderTypes ==
  ASSUME SignalRTypeOK,
         \/ ReaderStep \/ Completion \/ ServerCloses \/ Break
         \/ ReaderEnds(TRUE)
         \/ \E msg \in Invocations : Invocation(msg)
  PROVE  /\ SignalRTypeOK'
         /\ call' = call /\ counter' = counter /\ sender' = sender
  <1>1. CASE ReaderResumes
    BY <1>1 DEF ReaderResumes, SignalRTypeOK, trackVars
  <1>2. CASE Endgame
    BY <1>2 DEF Endgame, SignalRTypeOK, trackVars
  <1>3. CASE TombDies
    BY <1>3 DEF TombDies, SignalRTypeOK, trackVars
  <1>4. CASE ReaderEnds(FALSE) \/ ReaderEnds(TRUE)
    BY <1>4, KilledTypes DEF ReaderEnds, SignalRTypeOK, trackVars
  <1>5. CASE EndgameDone(TRUE)
    BY <1>5 DEF EndgameDone, SignalRTypeOK, trackVars
  <1>6. CASE Completion
    BY <1>6 DEF Completion, SignalRTypeOK, trackVars
  <1>7. CASE ServerCloses
    BY <1>7, KilledTypes DEF ServerCloses, SignalRTypeOK, trackVars
  <1>8. CASE Break
    BY <1>8 DEF Break, SignalRTypeOK, trackVars
  <1>9. ASSUME NEW msg \in Invocations, Invocation(msg)
        PROVE  /\ SignalRTypeOK'
               /\ call' = call /\ counter' = counter /\ sender' = sender
    <2>1. <<msg>> \in Seq(Invocations) /\ Append(inbound, msg) \in Seq(Invocations)
      BY DEF SignalRTypeOK
    <2>. QED  BY <1>9, <2>1 DEF Invocation, SignalRTypeOK, trackVars
  <1>. QED
    BY <1>1, <1>2, <1>3, <1>4, <1>5, <1>6, <1>7, <1>8, <1>9 DEF ReaderStep

-----------------------------------------------------------------------------
(* Types.                                                                  *)

\* Initially.
LEMMA TypeInit == Init => TypeInv
  <1>. SUFFICES ASSUME Init
                PROVE  TypeInv
    OBVIOUS
  <1>1. SignalRTypeOK
    BY DEF Init, SignalRInit, SignalRTypeOK
  <1>2. /\ ready \in BOOLEAN /\ token \in BOOLEAN
        /\ timerFired \in BOOLEAN /\ announced \in BOOLEAN
    BY Zenon DEF Init
  <1>3. MainTypeOK
    BY <1>2 DEF Init, MainTypeOK, PCs
  <1>4. ReceiveTypeOK
    BY <1>2, ConnectionAssumption
    DEF Init, ReceiveTypeOK, ReceivePCs, ChannelStates
  <1>5. CallInv
    BY DEF Init, SignalRInit, CallInv
  <1>. QED  BY <1>1, <1>3, <1>4, <1>5 DEF TypeInv, TypeOK

\* The broker closes channels that are subscribed.
LEMMA BrokerTypes ==
  ASSUME ReceiveTypeOK, (\E c \in Channels : CloseChannel(c)) \/ ChannelClosed
  PROVE  /\ subscribed' \subseteq Channels
         /\ closing' \in Channels \union {NoChannel}
         /\ chan' \in [Channels -> ChannelStates]
         /\ UNCHANGED <<lock, inputs>>
  BY DEF ReceiveTypeOK, CloseChannel, ChannelClosed, ChannelStates

\* What receive takes from inbound is an invocation.
LEMMA ReceivingTypes ==
  ASSUME SignalRTypeOK, NEW kind, Receiving(kind)
  PROVE  /\ SignalRTypeOK'
         /\ Head(inbound) \in Invocations
         /\ kind # "connected" => Head(inbound).chan \in Channels
         /\ call' = call /\ counter' = counter /\ sender' = sender
  <1>1. Head(inbound) \in Invocations /\ Tail(inbound) \in Seq(Invocations)
    BY DEF SignalRTypeOK, Receiving
  <1>2. kind # "connected" => Head(inbound).chan \in Channels
    BY <1>1 DEF Receiving, Invocations
  <1>. QED  BY <1>1, <1>2 DEF SignalRTypeOK, Receiving, trackVars

\* A step of the main goroutine.
LEMMA MainTypes ==
  ASSUME TypeInv, MainStep \/ AttemptFails \/ GivesUp \/ WaitTimeout
  PROVE  TypeInv'
  <1>1. CASE Connected
    <2>0. /\ ready' \in BOOLEAN /\ token' \in BOOLEAN
          /\ announced' \in BOOLEAN
      BY <1>1, Zenon
      DEF Connected, TypeInv, TypeOK, MainTypeOK, ReceiveTypeOK, mainVars, boundVars
    <2>1. SignalRTypeOK' /\ call' = call /\ sender' \in {"starting", sender}
      BY <1>1, ConnectTypes DEF Connected, TypeInv, TypeOK
    <2>. QED
      BY ZenonT(40), <1>1, <2>0, <2>1
      DEF Connected, TypeInv, TypeOK, MainTypeOK,
          ReceiveTypeOK, CallInv, PCs, ReceivePCs, signalRVars, trackVars,
          mainVars, receiveVars, brokerVars, boundVars
  <1>2. CASE ConnectDying
    BY <1>2
    DEF ConnectDying, TypeInv, TypeOK, SignalRTypeOK, MainTypeOK,
        ReceiveTypeOK, CallInv, PCs, ReceivePCs, signalRVars, trackVars,
        mainVars, receiveVars, brokerVars, boundVars
  <1>3. CASE WaitOver
    <2>0. /\ ready' \in BOOLEAN /\ token' \in BOOLEAN
          /\ announced' \in BOOLEAN
      BY <1>3, Zenon
      DEF WaitOver, TypeInv, TypeOK, MainTypeOK, ReceiveTypeOK, mainVars, boundVars
    <2>. QED
      BY <1>3, <2>0
      DEF WaitOver, TypeInv, TypeOK, SignalRTypeOK, MainTypeOK,
          ReceiveTypeOK, CallInv, PCs, ReceivePCs, signalRVars, trackVars,
          mainVars, receiveVars, brokerVars, boundVars
  <1>4. CASE SelfCloseTimeout
    BY <1>4
    DEF SelfCloseTimeout, TypeInv, TypeOK, SignalRTypeOK, MainTypeOK,
        ReceiveTypeOK, CallInv, PCs, ReceivePCs, signalRVars, trackVars,
        mainVars, receiveVars, brokerVars, boundVars
  <1>5. CASE ClientDone
    <2>0. /\ ready' \in BOOLEAN /\ token' \in BOOLEAN
          /\ announced' \in BOOLEAN
      BY <1>5, Zenon
      DEF ClientDone, TypeInv, TypeOK, MainTypeOK, ReceiveTypeOK, mainVars, boundVars
    <2>. QED
      BY <1>5, <2>0
      DEF ClientDone, TypeInv, TypeOK, SignalRTypeOK, MainTypeOK,
          ReceiveTypeOK, CallInv, PCs, ReceivePCs, signalRVars, trackVars,
          mainVars, receiveVars, brokerVars, boundVars
  <1>6. CASE SendNext
    <2>1. /\ Head(queue) \in Messages /\ Tail(queue) \in Seq(Messages)
          /\ Len(Tail(queue)) = Len(queue) - 1
      BY <1>6 DEF SendNext, TypeInv, TypeOK, MainTypeOK, CallInv
    <2>2. SignalRTypeOK' /\ call' # <<>> /\ counter' # 0 /\ sender' = sender
      BY <1>6, <2>1, StartSendTypes DEF SendNext, TypeInv, TypeOK
    <2>. QED
      BY <1>6, <2>1, <2>2
      DEF SendNext, TypeInv, TypeOK, MainTypeOK,
          ReceiveTypeOK, CallInv, PCs, ReceivePCs, signalRVars, trackVars,
          mainVars, receiveVars, brokerVars, boundVars
  <1>7. CASE SendReturns
    BY <1>7
    DEF SendReturns, TypeInv, TypeOK, SignalRTypeOK, MainTypeOK,
        ReceiveTypeOK, CallInv, PCs, ReceivePCs, signalRVars, trackVars,
        mainVars, receiveVars, brokerVars, boundVars
  <1>8. CASE LoopDying
    <2>0. /\ ready' \in BOOLEAN /\ token' \in BOOLEAN
          /\ announced' \in BOOLEAN
      BY <1>8, Zenon
      DEF LoopDying, TypeInv, TypeOK, MainTypeOK, ReceiveTypeOK, mainVars, boundVars
    <2>. QED
      BY <1>8, <2>0
      DEF LoopDying, TypeInv, TypeOK, SignalRTypeOK, MainTypeOK,
          ReceiveTypeOK, CallInv, PCs, ReceivePCs, signalRVars, trackVars,
          mainVars, receiveVars, brokerVars, boundVars
  <1>9. CASE LockBroker
    BY <1>9
    DEF LockBroker, TypeInv, TypeOK, SignalRTypeOK, MainTypeOK,
        ReceiveTypeOK, CallInv, PCs, ReceivePCs, signalRVars, trackVars,
        mainVars, receiveVars, brokerVars, boundVars
  <1>10. CASE CloseChannels
    <2>1. /\ subscribed' \subseteq Channels
          /\ closing' \in Channels \union {NoChannel}
          /\ chan' \in [Channels -> ChannelStates]
          /\ UNCHANGED <<lock, inputs>>
      BY <1>10, BrokerTypes DEF CloseChannels, TypeInv, TypeOK
    <2>. QED
      BY <1>10, <2>1
      DEF CloseChannels, TypeInv, TypeOK, SignalRTypeOK, MainTypeOK,
          ReceiveTypeOK, CallInv, PCs, ReceivePCs, signalRVars, trackVars,
          mainVars, receiveVars, brokerVars, boundVars
  <1>11. CASE AllClosed
    BY <1>11
    DEF AllClosed, TypeInv, TypeOK, SignalRTypeOK, MainTypeOK, ReceiveTypeOK,
        CallInv, PCs, ReceivePCs, signalRVars, trackVars, mainVars,
        receiveVars, brokerVars, boundVars
  <1>12. CASE Notify
    <2>1. /\ queue' \in Seq(Messages) /\ nextMsg' \in Nat
          /\ Len(queue') = Len(queue) + 1
      BY <1>12, SubmitTypes DEF Notify, MessageKinds, TypeInv, TypeOK
    <2>. QED
      BY <1>12, <2>1
      DEF Notify, TypeInv, TypeOK, SignalRTypeOK, MainTypeOK, ReceiveTypeOK,
          CallInv, PCs, ReceivePCs, signalRVars, trackVars, mainVars,
          receiveVars, brokerVars, boundVars
  <1>13. CASE CountRemaining
    BY <1>13
    DEF CountRemaining, TypeInv, TypeOK, SignalRTypeOK, MainTypeOK,
        ReceiveTypeOK, CallInv, PCs, ReceivePCs, signalRVars, trackVars,
        mainVars, receiveVars, brokerVars, boundVars
  <1>14. CASE SendRemaining
    <2>1. /\ Head(queue) \in Messages /\ Tail(queue) \in Seq(Messages)
          /\ Len(Tail(queue)) = Len(queue) - 1
      BY <1>14 DEF SendRemaining, TypeInv, TypeOK, MainTypeOK, CallInv
    <2>2. SignalRTypeOK' /\ call' # <<>> /\ counter' # 0 /\ sender' = sender
      BY <1>14, <2>1, StartSendTypes DEF SendRemaining, TypeInv, TypeOK
    <2>. QED
      BY <1>14, <2>1, <2>2
      DEF SendRemaining, TypeInv, TypeOK, MainTypeOK,
          ReceiveTypeOK, CallInv, PCs, ReceivePCs, signalRVars, trackVars,
          mainVars, receiveVars, brokerVars, boundVars
  <1>15. CASE RemainingReturns
    BY <1>15
    DEF RemainingReturns, TypeInv, TypeOK, SignalRTypeOK, MainTypeOK,
        ReceiveTypeOK, CallInv, PCs, ReceivePCs, signalRVars, trackVars,
        mainVars, receiveVars, brokerVars, boundVars
  <1>16. CASE RemainingDone
    BY <1>16
    DEF RemainingDone, TypeInv, TypeOK, SignalRTypeOK, MainTypeOK,
        ReceiveTypeOK, CallInv, PCs, ReceivePCs, signalRVars, trackVars,
        mainVars, receiveVars, brokerVars, boundVars
  <1>17. CASE ClientClose
    <2>1. /\ tomb' \in {"fresh", "zombie", "alive", "dying", "dead"}
          /\ reason' \in {"none", "lost", "normal", "closed"}
      BY <1>17, KilledTypes DEF ClientClose, TypeInv, TypeOK
    <2>. QED
      BY <1>17, <2>1
      DEF ClientClose, TypeInv, TypeOK, SignalRTypeOK, MainTypeOK,
          ReceiveTypeOK, CallInv, PCs, ReceivePCs, signalRVars, trackVars,
          mainVars, receiveVars, brokerVars, boundVars
  <1>18. CASE ClientClosed
    BY <1>18
    DEF ClientClosed, TypeInv, TypeOK, SignalRTypeOK, MainTypeOK,
        ReceiveTypeOK, CallInv, PCs, ReceivePCs, signalRVars, trackVars,
        mainVars, receiveVars, brokerVars, boundVars
  <1>19. CASE AttemptFails
    <2>0. /\ ready' \in BOOLEAN /\ token' \in BOOLEAN
          /\ announced' \in BOOLEAN
      BY <1>19, Zenon
      DEF AttemptFails, TypeInv, TypeOK, MainTypeOK, ReceiveTypeOK, mainVars, boundVars
    <2>1. SignalRTypeOK' /\ call' = call /\ sender' \in {"starting", sender}
      BY <1>19, ConnectTypes
      DEF AttemptFails, TypeInv, TypeOK, SignalRTypeOK, signalRVars, trackVars
    <2>. QED
      BY <1>19, <2>0, <2>1
      DEF AttemptFails, TypeInv, TypeOK, MainTypeOK,
          ReceiveTypeOK, CallInv, PCs, ReceivePCs, signalRVars, trackVars,
          mainVars, receiveVars, brokerVars, boundVars
  <1>20. CASE GivesUp
    BY <1>20
    DEF GivesUp, TypeInv, TypeOK, SignalRTypeOK, MainTypeOK, ReceiveTypeOK,
        CallInv, PCs, ReceivePCs, signalRVars, trackVars, mainVars,
        receiveVars, brokerVars, boundVars
  <1>21. CASE WaitTimeout
    BY <1>21
    DEF WaitTimeout, TypeInv, TypeOK, SignalRTypeOK, MainTypeOK,
        ReceiveTypeOK, CallInv, PCs, ReceivePCs, signalRVars, trackVars,
        mainVars, receiveVars, brokerVars, boundVars
  <1>. QED  BY <1>1, <1>2, <1>3, <1>4, <1>5, <1>6, <1>7, <1>8, <1>9, <1>10,
               <1>11, <1>12, <1>13, <1>14, <1>15, <1>16, <1>17, <1>18, <1>19,
               <1>20, <1>21
       DEF MainStep

\* A step of the receive goroutine.
LEMMA ReceiveTypes ==
  ASSUME TypeInv, ReceiveStep \/ IdleTimer
  PROVE  TypeInv'
  <1>1. CASE ReceiveConnected
    <2>0. /\ ready' \in BOOLEAN /\ token' \in BOOLEAN
          /\ announced' \in BOOLEAN
      BY <1>1, Zenon
      DEF ReceiveConnected, TypeInv, TypeOK, MainTypeOK, ReceiveTypeOK, mainVars, boundVars
    <2>1. /\ SignalRTypeOK'
          /\ "connected" # "connected" => Head(inbound).chan \in Channels
          /\ call' = call /\ counter' = counter /\ sender' = sender
      BY <1>1, ReceivingTypes DEF ReceiveConnected, TypeInv, TypeOK
    <2>. QED
      BY <1>1, <2>0, <2>1
      DEF ReceiveConnected, NextReceive, TypeInv, TypeOK,
          MainTypeOK, ReceiveTypeOK, CallInv, PCs, ReceivePCs, signalRVars,
          trackVars, mainVars, receiveVars, brokerVars, boundVars
  <1>2. CASE ReadyPushed
    <2>0. /\ ready' \in BOOLEAN /\ token' \in BOOLEAN
          /\ announced' \in BOOLEAN
      BY <1>2, Zenon
      DEF ReadyPushed, TypeInv, TypeOK, MainTypeOK, ReceiveTypeOK, mainVars, boundVars
    <2>. QED
      BY <1>2, <2>0
      DEF ReadyPushed, TypeInv, TypeOK, SignalRTypeOK, MainTypeOK,
          ReceiveTypeOK, CallInv, PCs, ReceivePCs, signalRVars, trackVars,
          mainVars, receiveVars, brokerVars, boundVars
  <1>3. CASE ReceiveClose
    <2>1. /\ SignalRTypeOK'
          /\ "close" # "connected" => Head(inbound).chan \in Channels
          /\ call' = call /\ counter' = counter /\ sender' = sender
      BY <1>3, ReceivingTypes DEF ReceiveClose, TypeInv, TypeOK
    <2>. QED
      BY <1>3, <2>1
      DEF ReceiveClose, NextReceive, TypeInv, TypeOK,
          MainTypeOK, ReceiveTypeOK, CallInv, PCs, ReceivePCs, signalRVars,
          trackVars, mainVars, receiveVars, brokerVars, boundVars
  <1>4. CASE ReceiveData
    <2>1. /\ SignalRTypeOK'
          /\ "data" # "connected" => Head(inbound).chan \in Channels
          /\ call' = call /\ counter' = counter /\ sender' = sender
      BY <1>4, ReceivingTypes DEF ReceiveData, TypeInv, TypeOK
    <2>. QED
      BY <1>4, <2>1
      DEF ReceiveData, NextReceive, TypeInv, TypeOK,
          MainTypeOK, ReceiveTypeOK, CallInv, PCs, ReceivePCs, signalRVars,
          trackVars, mainVars, receiveVars, brokerVars, boundVars
  <1>5. CASE Route
    BY <1>5
    DEF Route, NextReceive, TypeInv, TypeOK, SignalRTypeOK, MainTypeOK,
        ReceiveTypeOK, CallInv, PCs, ReceivePCs, signalRVars, trackVars,
        mainVars, receiveVars, brokerVars, boundVars
  <1>6. CASE Push
    BY <1>6
    DEF Push, NextReceive, TypeInv, TypeOK, SignalRTypeOK, MainTypeOK,
        ReceiveTypeOK, CallInv, PCs, ReceivePCs, signalRVars, trackVars,
        mainVars, receiveVars, brokerVars, boundVars
  <1>7. CASE ReceiveOpen
    <2>1. /\ SignalRTypeOK'
          /\ Head(inbound).chan \in Channels
          /\ call' = call /\ counter' = counter /\ sender' = sender
      BY <1>7, ReceivingTypes DEF ReceiveOpen, TypeInv, TypeOK
    <2>2. /\ subscribed' \subseteq Channels
          /\ chan' \in [Channels -> ChannelStates]
      <3>. DEFINE c == Head(inbound).chan
      <3>1. CASE subscribed' = subscribed \union {c}
        <4>1. /\ [chan EXCEPT ![c] = "open"] \in [Channels -> ChannelStates]
              /\ [chan EXCEPT ![c] = "failed"] \in [Channels -> ChannelStates]
          BY <2>1 DEF TypeInv, TypeOK, ReceiveTypeOK, ChannelStates
        <4>. QED
          BY <1>7, <2>1, <3>1, <4>1
          DEF ReceiveOpen, TypeInv, TypeOK, ReceiveTypeOK
      <3>2. CASE UNCHANGED <<subscribed, chan>>
        BY <3>2 DEF TypeInv, TypeOK, ReceiveTypeOK
      <3>. QED  BY <1>7, <3>1, <3>2 DEF ReceiveOpen
    <2>3. \/ /\ queue' \in Seq(Messages) /\ nextMsg' \in Nat
             /\ Len(queue') = Len(queue) + 1
          \/ UNCHANGED <<queue, nextMsg>>
      BY <1>7, SubmitTypes DEF ReceiveOpen, MessageKinds, TypeInv, TypeOK
    <2>. QED
      BY <1>7, <2>1, <2>2, <2>3
      DEF ReceiveOpen, NextReceive, TypeInv, TypeOK,
          MainTypeOK, ReceiveTypeOK, CallInv, PCs, ReceivePCs, signalRVars,
          trackVars, mainVars, receiveVars, brokerVars, boundVars
  <1>8. CASE ReceiveCloseChannel
    <2>1. /\ SignalRTypeOK'
          /\ "closeChannel" # "connected" => Head(inbound).chan \in Channels
          /\ call' = call /\ counter' = counter /\ sender' = sender
      BY <1>8, ReceivingTypes DEF ReceiveCloseChannel, TypeInv, TypeOK
    <2>. QED
      BY <1>8, <2>1
      DEF ReceiveCloseChannel, NextReceive, TypeInv, TypeOK,
          MainTypeOK, ReceiveTypeOK, CallInv, PCs, ReceivePCs, signalRVars,
          trackVars, mainVars, receiveVars, brokerVars, boundVars
  <1>9. CASE CloseOne
    <2>1. /\ subscribed' \subseteq Channels
          /\ closing' \in Channels \union {NoChannel}
          /\ chan' \in [Channels -> ChannelStates]
          /\ UNCHANGED <<lock, inputs>>
      <3>1. (\E c \in Channels : CloseChannel(c)) \/ ChannelClosed
        BY <1>9 DEF CloseOne, CloseChannel, TypeInv, TypeOK, ReceiveTypeOK
      <3>. QED  BY <3>1, BrokerTypes DEF TypeInv, TypeOK
    <2>. QED
      BY <1>9, <2>1
      DEF CloseOne, TypeInv, TypeOK, SignalRTypeOK, MainTypeOK,
          ReceiveTypeOK, CallInv, PCs, ReceivePCs, signalRVars, trackVars,
          mainVars, receiveVars, brokerVars, boundVars
  <1>10. CASE OneClosed
    BY <1>10
    DEF OneClosed, NextReceive, TypeInv, TypeOK, SignalRTypeOK, MainTypeOK,
        ReceiveTypeOK, CallInv, PCs, ReceivePCs, signalRVars, trackVars,
        mainVars, receiveVars, brokerVars, boundVars
  <1>11. CASE IdleCloseOver
    BY <1>11
    DEF IdleCloseOver, NextReceive, TypeInv, TypeOK, SignalRTypeOK,
        MainTypeOK, ReceiveTypeOK, CallInv, PCs, ReceivePCs, signalRVars,
        trackVars, mainVars, receiveVars, brokerVars, boundVars
  <1>12. CASE ReceiveEnds
    BY <1>12
    DEF ReceiveEnds, NextReceive, TypeInv, TypeOK, SignalRTypeOK, MainTypeOK,
        ReceiveTypeOK, CallInv, PCs, ReceivePCs, signalRVars, trackVars,
        mainVars, receiveVars, brokerVars, boundVars
  <1>13. CASE IdleTimer
    BY <1>13
    DEF IdleTimer, NextReceive, TypeInv, TypeOK, SignalRTypeOK, MainTypeOK,
        ReceiveTypeOK, CallInv, PCs, ReceivePCs, signalRVars, trackVars,
        mainVars, receiveVars, brokerVars, boundVars
  <1>. QED  BY <1>1, <1>2, <1>3, <1>4, <1>5, <1>6, <1>7, <1>8, <1>9, <1>10,
               <1>11, <1>12, <1>13
       DEF ReceiveStep

\* A step of a channel, or a call from above.
LEMMA ChannelTypes ==
  ASSUME TypeInv,
         \/ \E c \in Channels : \/ ChannelStep(c) \/ Subscribe(c)
                                \/ ChannelSends(c) \/ ChannelStops(c)
         \/ Close
  PROVE  TypeInv'
  <1>1. ASSUME NEW c \in Channels, ChannelReads(c)
        PROVE  TypeInv'
    BY <1>1
    DEF ChannelReads, ChannelStates, TypeInv, TypeOK, SignalRTypeOK,
        MainTypeOK, ReceiveTypeOK, CallInv, PCs, ReceivePCs, signalRVars,
        trackVars, mainVars, receiveVars, brokerVars, boundVars
  <1>2. ASSUME NEW c \in Channels, ChannelDies(c)
        PROVE  TypeInv'
    <2>1. \/ /\ queue' \in Seq(Messages) /\ nextMsg' \in Nat
             /\ Len(queue') = Len(queue) + 1
          \/ UNCHANGED <<queue, nextMsg>>
      BY <1>2, SubmitTypes DEF ChannelDies, MessageKinds, TypeInv, TypeOK
    <2>2. chan' \in [Channels -> ChannelStates]
      BY <1>2 DEF ChannelDies, TypeInv, TypeOK, ReceiveTypeOK, ChannelStates
    <2>. QED
      BY SMTT(30), <1>2, <2>1, <2>2
      DEF ChannelDies, TypeInv, TypeOK, SignalRTypeOK, MainTypeOK,
          ReceiveTypeOK, CallInv, PCs, ReceivePCs, signalRVars, trackVars,
          mainVars, receiveVars, brokerVars, boundVars
  <1>3. ASSUME NEW c \in Channels, Subscribe(c)
        PROVE  TypeInv'
    BY <1>3
    DEF Subscribe, ChannelStates, TypeInv, TypeOK, SignalRTypeOK, MainTypeOK,
        ReceiveTypeOK, CallInv, PCs, ReceivePCs, signalRVars, trackVars,
        mainVars, receiveVars, brokerVars, boundVars
  <1>4. ASSUME NEW c \in Channels, ChannelSends(c)
        PROVE  TypeInv'
    <2>1. \/ /\ queue' \in Seq(Messages) /\ nextMsg' \in Nat
             /\ Len(queue') = Len(queue) + 1
          \/ UNCHANGED <<queue, nextMsg>>
      BY <1>4, SubmitTypes DEF ChannelSends, MessageKinds, TypeInv, TypeOK
    <2>2. UNCHANGED <<signalRVars, pc, cTomb, ready, token, left, receiveVars,
                      brokerVars, Role, announced, invocations, breaks>>
      BY <1>4 DEF ChannelSends
    <2>. QED
      BY <2>1, <2>2
      DEF TypeInv, TypeOK, SignalRTypeOK, MainTypeOK, ReceiveTypeOK, CallInv,
          signalRVars, trackVars, receiveVars, brokerVars
  <1>5. ASSUME NEW c \in Channels, ChannelStops(c)
        PROVE  TypeInv'
    BY <1>5
    DEF ChannelStops, ChannelStates, TypeInv, TypeOK, SignalRTypeOK,
        MainTypeOK, ReceiveTypeOK, CallInv, PCs, ReceivePCs, signalRVars,
        trackVars, mainVars, receiveVars, brokerVars, boundVars
  <1>6. CASE Close
    BY <1>6
    DEF Close, TypeInv, TypeOK, SignalRTypeOK, MainTypeOK, ReceiveTypeOK,
        CallInv, PCs, ReceivePCs, signalRVars, trackVars, mainVars,
        receiveVars, brokerVars, boundVars
  <1>. QED  BY <1>1, <1>2, <1>3, <1>4, <1>5, <1>6 DEF ChannelStep

\* A step of the messenger's goroutines or of the node.
LEMMA ClientTypes ==
  ASSUME TypeInv,
         \/ ClientStep(SenderStep) \/ ClientStep(ReaderStep)
         \/ ClientStep(Completion) \/ ClientStep(ServerCloses)
         \/ Invokes \/ Announces \/ Breaks \/ PingTimeout
  PROVE  TypeInv'
  <1>1. CASE ClientStep(SenderStep)
    BY <1>1, SenderTypes
    DEF ClientStep, TypeInv, TypeOK, MainTypeOK, ReceiveTypeOK, CallInv,
        connVars, mainVars, receiveVars, brokerVars, boundVars
  <1>2. CASE ClientStep(ReaderStep) \/ ClientStep(Completion) \/ ClientStep(ServerCloses)
    <2>1. /\ SignalRTypeOK'
          /\ call' = call /\ counter' = counter /\ sender' = sender
      BY <1>2, ReaderTypes DEF ClientStep, TypeInv, TypeOK
    <2>2. UNCHANGED connVars
      BY <1>2 DEF ClientStep
    <2>. QED
      BY <2>1, <2>2
      DEF TypeInv, TypeOK, MainTypeOK, ReceiveTypeOK, CallInv, connVars, mainVars,
          receiveVars, brokerVars, boundVars
  <1>3. CASE Invokes \/ Announces
    <2>1. \E msg \in Invocations : Invocation(msg)
      <3>1. CASE Invokes
        <4>1. Kinds \subseteq {"close", "data", "open", "closeChannel"}
          BY DEF Kinds, TypeInv, TypeOK, ReceiveTypeOK, Roles
        <4>2. PICK kind \in Kinds, c \in Channels :
                Invocation([kind |-> kind, chan |-> c])
          BY <3>1 DEF Invokes
        <4>3. [kind |-> kind, chan |-> c] \in Invocations
          BY <4>1 DEF Invocations
        <4>. QED  BY <4>2, <4>3
      <3>2. CASE Announces
        BY <3>2 DEF Announces, Invocations
      <3>. QED  BY <1>3, <3>1, <3>2
    <2>2. /\ SignalRTypeOK'
          /\ call' = call /\ counter' = counter /\ sender' = sender
      BY <2>1, ReaderTypes DEF TypeInv, TypeOK
    <2>3. announced' \in BOOLEAN
      BY <1>3, Zenon DEF Invokes, Announces, TypeInv, TypeOK, ReceiveTypeOK
    <2>. QED
      BY <1>3, <2>2, <2>3
      DEF Invokes, Announces, TypeInv, TypeOK, MainTypeOK, ReceiveTypeOK, CallInv,
          mainVars, receiveVars, brokerVars
  <1>4. CASE Breaks \/ PingTimeout
    <2>1. /\ SignalRTypeOK'
          /\ call' = call /\ counter' = counter /\ sender' = sender
      BY <1>4, ReaderTypes DEF Breaks, PingTimeout, TypeInv, TypeOK
    <2>2. /\ breaks' = breaks + 1
          /\ UNCHANGED <<mainVars, receiveVars, brokerVars, Role, nextMsg,
                         announced, invocations>>
      BY <1>4 DEF Breaks, PingTimeout
    <2>. QED
      BY <2>1, <2>2
      DEF TypeInv, TypeOK, MainTypeOK, ReceiveTypeOK, CallInv, mainVars,
          receiveVars, brokerVars
  <1>. QED  BY <1>1, <1>2, <1>3, <1>4

\* Every step keeps the types and what they depend on.
THEOREM TypeStep == TypeInv /\ [Next]_vars => TypeInv'
  <1>. SUFFICES ASSUME TypeInv, [Next]_vars
                PROVE  TypeInv'
    OBVIOUS
  <1>1. CASE UNCHANGED vars
    BY <1>1
    DEF TypeInv, TypeOK, SignalRTypeOK, MainTypeOK, ReceiveTypeOK, CallInv, vars,
        signalRVars, trackVars, connVars, mainVars, receiveVars, brokerVars,
        boundVars
  <1>2. CASE Next
    BY <1>2, MainTypes, ReceiveTypes, ChannelTypes, ClientTypes DEF Next
  <1>. QED  BY <1>1, <1>2

\* Every variable of a connection keeps its type.
THEOREM TypeCorrect == Spec => []TypeOK
  <1>1. TypeInv => TypeOK
    BY DEF TypeInv
  <1>. QED  BY <1>1, TypeInit, TypeStep, PTL DEF Spec

-----------------------------------------------------------------------------
(* Order.  A message moves from the queue to the call in progress and from *)
(* there to the websocket, and in no other way.                            *)

orderVars == <<sent, call, queue, nextMsg>>

Submits(kind) == Submit(kind) /\ UNCHANGED <<sent, call>>

\* What a channel submits of its own accord.
Talks == Submits("data") \/ Submits("stopChannel")

Takes ==
  /\ call = <<>> /\ queue # <<>>
  /\ call' = <<Head(queue)>> /\ queue' = Tail(queue)
  /\ UNCHANGED <<sent, nextMsg>>

Writes ==
  /\ call # <<>> /\ call' = <<>>
  /\ sent' = sent \/ sent' = Append(sent, Head(call))
  /\ UNCHANGED <<queue, nextMsg>>

\* Ids are numbers.
LEMMA IdsAreNat ==
  ASSUME NEW s \in Seq(Messages), NEW i \in DOMAIN s
  PROVE  s[i].id \in Nat
  <1>1. s[i] \in Messages
    OBVIOUS
  <1>. QED  BY <1>1 DEF Messages

\* Submitting appends the greatest id.
LEMMA SubmitsKeepsOrder ==
  ASSUME TypeInv, OrderInv, NEW kind \in MessageKinds, Submits(kind)
  PROVE  OrderInv'
  <1>2. /\ queue' = Append(queue, Message(kind)) /\ nextMsg' = nextMsg + 1
        /\ Message(kind).id = nextMsg /\ nextMsg \in Nat
        /\ UNCHANGED <<sent, call>>
    BY DEF Submits, Submit, Message, TypeInv, TypeOK, MainTypeOK
  <1>3. /\ \A i \in DOMAIN queue : queue[i].id \in Nat
        /\ \A i \in DOMAIN sent : sent[i].id \in Nat
        /\ \A i \in DOMAIN call : call[i].id \in Nat
    BY IdsAreNat DEF TypeInv, TypeOK, SignalRTypeOK, MainTypeOK
  <1>4. /\ DOMAIN queue' = 1..(Len(queue) + 1) /\ DOMAIN queue = 1..Len(queue)
        /\ \A i \in 1..Len(queue) : queue'[i] = queue[i]
        /\ queue'[Len(queue) + 1] = Message(kind)
        /\ Len(queue) \in Nat
    BY <1>2 DEF TypeInv, TypeOK, MainTypeOK
  <1>. QED  BY <1>2, <1>3, <1>4 DEF OrderInv, SentInOrder

\* Taking the head of the queue takes its least id.
LEMMA TakesKeepsOrder ==
  ASSUME TypeInv, OrderInv, Takes
  PROVE  OrderInv'
  <1>1. /\ DOMAIN queue = 1..Len(queue) /\ Len(queue) \in Nat \ {0}
        /\ DOMAIN queue' = 1..(Len(queue) - 1)
        /\ \A i \in 1..(Len(queue) - 1) : queue'[i] = queue[i + 1]
        /\ DOMAIN call' = {1} /\ call'[1] = queue[1]
        /\ UNCHANGED <<sent, nextMsg>>
    BY DEF Takes, TypeInv, TypeOK, MainTypeOK
  <1>2. ASSUME NEW i \in DOMAIN queue'
        PROVE  i + 1 \in DOMAIN queue /\ queue'[i] = queue[i + 1] /\ 1 < i + 1
    BY <1>1
  <1>3. 1 \in DOMAIN queue
    BY <1>1
  <1>4. \A i, j \in DOMAIN queue' : i < j => queue'[i].id < queue'[j].id
    <2>. TAKE i, j \in DOMAIN queue'
    <2>1. i < j => i + 1 < j + 1
      BY <1>1
    <2>. QED  BY <1>2, <2>1 DEF OrderInv
  <1>5. \A i \in DOMAIN sent' :
          /\ sent'[i].id < nextMsg'
          /\ \A j \in DOMAIN call' : sent'[i].id < call'[j].id
          /\ \A j \in DOMAIN queue' : sent'[i].id < queue'[j].id
    BY <1>1, <1>2, <1>3 DEF OrderInv
  <1>6. \A i \in DOMAIN call' :
          /\ call'[i].id < nextMsg'
          /\ \A j \in DOMAIN queue' : call'[i].id < queue'[j].id
    BY <1>1, <1>2, <1>3 DEF OrderInv
  <1>7. \A i \in DOMAIN queue' : queue'[i].id < nextMsg'
    BY <1>1, <1>2 DEF OrderInv
  <1>8. SentInOrder'
    BY <1>1 DEF OrderInv, SentInOrder
  <1>. QED  BY <1>4, <1>5, <1>6, <1>7, <1>8 DEF OrderInv

\* Writing appends an id that is greater than what was written before.
LEMMA WritesKeepsOrder ==
  ASSUME TypeInv, OrderInv, Writes
  PROVE  OrderInv'
  <1>1. DOMAIN call' = {} /\ UNCHANGED <<queue, nextMsg>>
    BY DEF Writes
  <1>2. CASE sent' = sent
    BY <1>1, <1>2 DEF OrderInv, SentInOrder
  <1>3. CASE sent' = Append(sent, Head(call))
    <2>1. /\ DOMAIN sent = 1..Len(sent) /\ Len(sent) \in Nat
          /\ DOMAIN sent' = 1..(Len(sent) + 1)
          /\ \A i \in 1..Len(sent) : sent'[i] = sent[i]
          /\ 1 \in DOMAIN call /\ sent'[Len(sent) + 1] = call[1]
      BY <1>3 DEF Writes, TypeInv, TypeOK, SignalRTypeOK
    <2>. QED  BY <1>1, <2>1 DEF OrderInv, SentInOrder
  <1>. QED  BY <1>2, <1>3 DEF Writes

\* Every step moves messages in one of these ways or not at all.
LEMMA OrderSteps ==
  ASSUME TypeInv, Next
  PROVE  \/ UNCHANGED orderVars \/ (Takes /\ MainStep) \/ Writes \/ Talks
         \/ /\ Submits("closeChannel")
            /\ Role = "daemon" /\ \E c \in Channels : chan[c] = "dying"
         \/ Submits("closeConnection") /\ Notify
  <1>1. CASE MainStep
    <2>1. CASE SendNext \/ SendRemaining
      <3>1. call = <<>> /\ queue # <<>>
        BY <2>1
        DEF SendNext, SendRemaining, TypeInv, TypeOK, MainTypeOK, CallInv
      <3>. QED
        BY <1>1, <2>1, <3>1
        DEF SendNext, SendRemaining, StartSend, Takes, boundVars
    <2>2. CASE Notify
      BY <2>2 DEF Notify, Submits, signalRVars
    <2>3. CASE Connected
      BY <2>3 DEF Connected, ConnectOK, orderVars
    <2>4. CASE ClientClose
      BY <2>4 DEF ClientClose, orderVars, boundVars
    <2>5. CASE \/ ConnectDying \/ WaitOver \/ SelfCloseTimeout \/ ClientDone
               \/ SendReturns \/ LoopDying \/ LockBroker \/ CloseChannels
      BY <2>5
      DEF ConnectDying, WaitOver, SelfCloseTimeout, ClientDone, SendReturns,
          LoopDying, LockBroker, CloseChannels, orderVars, signalRVars, mainVars,
          boundVars
    <2>6. CASE \/ AllClosed \/ CountRemaining \/ RemainingReturns
               \/ RemainingDone \/ ClientClosed
      BY <2>6
      DEF AllClosed, CountRemaining, RemainingReturns, RemainingDone,
          ClientClosed, orderVars, signalRVars, boundVars
    <2>. QED
      BY <1>1, <2>1, <2>2, <2>3, <2>4, <2>5, <2>6 DEF MainStep
  <1>2. CASE AttemptFails \/ GivesUp \/ WaitTimeout \/ IdleTimer \/ Close
    BY <1>2
    DEF AttemptFails, ConnectFails, GivesUp, WaitTimeout, IdleTimer, Close,
        orderVars, signalRVars, mainVars, boundVars
  <1>3. CASE ReceiveStep
    <2>1. CASE \/ ReceiveConnected \/ ReceiveClose \/ ReceiveData
               \/ ReceiveOpen \/ ReceiveCloseChannel
      BY <2>1
      DEF ReceiveConnected, ReceiveClose, ReceiveData, ReceiveOpen,
          ReceiveCloseChannel, Receiving, Talks, Submits, orderVars, mainVars,
          boundVars
    <2>2. CASE \/ ReadyPushed \/ Route \/ Push \/ CloseOne \/ OneClosed
               \/ IdleCloseOver \/ ReceiveEnds
      BY <2>2
      DEF ReadyPushed, Route, Push, CloseOne, OneClosed, IdleCloseOver,
          ReceiveEnds, orderVars, signalRVars, mainVars, boundVars
    <2>. QED  BY <1>3, <2>1, <2>2 DEF ReceiveStep
  <1>4. ASSUME NEW c \in Channels,
               ChannelStep(c) \/ Subscribe(c) \/ ChannelSends(c) \/ ChannelStops(c)
        PROVE  \/ UNCHANGED orderVars \/ Talks
               \/ /\ Submits("closeChannel")
                  /\ Role = "daemon" /\ chan[c] = "dying"
    BY <1>4
    DEF ChannelStep, ChannelReads, ChannelDies, Subscribe, ChannelSends,
        ChannelStops, Talks, Submits, orderVars, signalRVars, mainVars, boundVars
  <1>5. CASE ClientStep(SenderStep)
    <2>1. UNCHANGED <<queue, nextMsg>>
      BY <1>5 DEF ClientStep, connVars, mainVars, boundVars
    <2>2. CASE SenderWrites
      BY <2>1, <2>2 DEF SenderWrites, Writes, TypeInv, CallInv
    <2>3. CASE SenderStarts \/ SenderTakes \/ SenderEnds
      BY <2>1, <2>3 DEF SenderStarts, SenderTakes, SenderEnds, orderVars
    <2>. QED  BY <1>5, <2>2, <2>3 DEF ClientStep, SenderStep
  <1>6. CASE \/ ClientStep(ReaderStep) \/ ClientStep(Completion)
             \/ ClientStep(ServerCloses)
    <2>1. UNCHANGED <<queue, nextMsg>>
      BY <1>6 DEF ClientStep, connVars, mainVars, boundVars
    <2>2. UNCHANGED <<sent, call>>
      BY <1>6
      DEF ClientStep, ReaderStep, ReaderResumes, Endgame, TombDies, ReaderEnds,
          EndgameDone, Completion, ServerCloses
    <2>. QED  BY <2>1, <2>2 DEF orderVars
  <1>7. CASE Invokes \/ Announces \/ Breaks \/ PingTimeout
    BY <1>7
    DEF Invokes, Announces, Breaks, PingTimeout, Invocation, Break, ReaderEnds,
        orderVars, mainVars
  <1>. QED  BY <1>1, <1>2, <1>3, <1>4, <1>5, <1>6, <1>7 DEF Next

\* Nothing has been sent at the start.
LEMMA OrderInit == Init => OrderInv
  BY DEF Init, SignalRInit, OrderInv, SentInOrder

\* Every step keeps OrderInv.
LEMMA OrderStep == TypeInv /\ OrderInv /\ [Next]_vars => OrderInv'
  <1>. SUFFICES ASSUME TypeInv, OrderInv, [Next]_vars
                PROVE  OrderInv'
    OBVIOUS
  <1>1. CASE UNCHANGED orderVars
    BY <1>1 DEF OrderInv, SentInOrder, orderVars
  <1>2. CASE UNCHANGED vars
    BY <1>2
    DEF OrderInv, SentInOrder, vars, signalRVars, connVars, mainVars, boundVars
  <1>. QED
    BY <1>1, <1>2, OrderSteps, SubmitsKeepsOrder, TakesKeepsOrder,
       WritesKeepsOrder DEF Talks, MessageKinds

\* Over all the websockets a connection ever has, and in the end through
\* sendRemainingMessages, messages are written in the order in which they were
\* submitted and none is written twice.
THEOREM SendsInOrder == Spec => []SentInOrder
  <1>. DEFINE IInv == TypeInv /\ OrderInv
  <1>1. Init => IInv
    BY TypeInit, OrderInit
  <1>2. IInv /\ [Next]_vars => IInv'
    BY TypeStep, OrderStep
  <1>3. IInv => SentInOrder
    BY DEF OrderInv
  <1>. QED  BY <1>1, <1>2, <1>3, PTL DEF Spec

-----------------------------------------------------------------------------
(* Where the main goroutine is.                                            *)

\* Only the main goroutine moves itself, and it connects again only when the
\* messenger is dead.
LEMMA OthersKeepPlace ==
  ASSUME Next, ~MainStep, ~GivesUp, ~WaitTimeout
  PROVE  /\ UNCHANGED <<pc, left, Role>>
         /\ cTomb' = cTomb \/ cTomb' = "dying"
  <1>1. CASE AttemptFails \/ IdleTimer \/ Close
    BY <1>1 DEF AttemptFails, IdleTimer, Close, mainVars, boundVars
  <1>2. CASE ReceiveStep
    BY <1>2
    DEF ReceiveStep, ReceiveConnected, ReadyPushed, ReceiveClose, ReceiveData,
        Route, Push, ReceiveOpen, ReceiveCloseChannel, CloseOne, OneClosed,
        IdleCloseOver, ReceiveEnds, mainVars, boundVars
  <1>3. ASSUME NEW c \in Channels,
               ChannelStep(c) \/ Subscribe(c) \/ ChannelSends(c) \/ ChannelStops(c)
        PROVE  UNCHANGED <<pc, left, Role, cTomb>>
    BY <1>3
    DEF ChannelStep, ChannelReads, ChannelDies, Subscribe, ChannelSends,
        ChannelStops, mainVars, boundVars
  <1>4. CASE \/ ClientStep(SenderStep) \/ ClientStep(ReaderStep)
             \/ ClientStep(Completion) \/ ClientStep(ServerCloses)
    BY <1>4 DEF ClientStep, connVars, mainVars, boundVars
  <1>5. CASE Invokes \/ Announces \/ Breaks \/ PingTimeout
    BY <1>5 DEF Invokes, Announces, Breaks, PingTimeout, mainVars
  <1>. QED  BY <1>1, <1>2, <1>3, <1>4, <1>5 DEF Next

-----------------------------------------------------------------------------
(* The tracker.                                                            *)

\* Steps that leave the messenger alone, but for what has come in.
LEMMA TrackAlone ==
  ASSUME TrackInv, pc' = "connect" => pc = "connect",
         UNCHANGED <<tomb, sender, reader, tracked, counter, unanswered, call>>
  PROVE  TrackInv'
  BY DEF TrackInv

\* Every step keeps TrackInv.
LEMMA TrackStep == TypeInv /\ TrackInv /\ [Next]_vars => TrackInv'
  <1>. SUFFICES ASSUME TypeInv, TrackInv, [Next]_vars PROVE TrackInv'
    OBVIOUS
  <1>1. CASE Connected
    <2>1. pc = "connect" /\ call = <<>> /\ tomb \in {"fresh", "dead"}
      BY <1>1 DEF Connected, TypeInv, CallInv, TrackInv
    <2>2. tracked' = {}
      BY <1>1, <2>1 DEF Connected, ConnectOK, ResetTracker, TrackInv
    <2>. QED  BY <1>1, <2>2 DEF Connected, ConnectOK, TrackInv
  <1>2. CASE AttemptFails
    <2>1. pc = "connect" /\ call = <<>> /\ tomb \in {"fresh", "dead"}
      BY <1>2 DEF AttemptFails, TypeInv, CallInv, TrackInv
    <2>2. CASE ConnectFails
      <3>1. tracked' = {}
        BY <2>1, <2>2 DEF ConnectFails, ResetTracker, TrackInv
      <3>. QED  BY <2>1, <2>2, <3>1 DEF ConnectFails, TrackInv
    <2>3. CASE UNCHANGED signalRVars
      BY <1>2, <2>3, TrackAlone
      DEF AttemptFails, signalRVars, trackVars, mainVars
    <2>. QED  BY <1>2, <2>2, <2>3 DEF AttemptFails
  <1>3. CASE SendNext \/ SendRemaining
    <2>1. /\ call' = <<Head(queue)>> /\ counter' = counter + 1
          /\ tracked' = tracked \union {counter}
          /\ UNCHANGED <<tomb, sender, reader, unanswered>>
          /\ pc' # "connect" /\ pc \in {"loop", "remaining"}
      BY <1>3 DEF SendNext, SendRemaining, StartSend
    <2>2. call = <<>> /\ call' # <<>> /\ counter \in Nat
      BY <2>1 DEF TypeInv, TypeOK, SignalRTypeOK, CallInv
    <2>. QED  BY <2>1, <2>2 DEF TrackInv
  <1>4. CASE ClientDone
    BY <1>4 DEF ClientDone, TrackInv, signalRVars, trackVars
  <1>5. CASE ClientClose
    BY <1>5 DEF ClientClose, Killed, TrackInv, trackVars
  <1>6. CASE \/ ConnectDying \/ WaitOver \/ SelfCloseTimeout \/ SendReturns
             \/ LoopDying \/ LockBroker \/ CloseChannels \/ AllClosed
             \/ Notify \/ CountRemaining \/ RemainingReturns \/ RemainingDone
             \/ ClientClosed \/ GivesUp \/ WaitTimeout
    BY <1>6, TrackAlone
    DEF ConnectDying, WaitOver, SelfCloseTimeout, SendReturns, LoopDying,
        LockBroker, CloseChannels, AllClosed, Notify, CountRemaining,
        RemainingReturns, RemainingDone, ClientClosed, GivesUp, WaitTimeout,
        signalRVars, trackVars, mainVars
  <1>7. CASE ClientStep(SenderStep)
    <2>. pc' = pc
      BY <1>7 DEF ClientStep, connVars, mainVars
    <2>1. CASE SenderStarts
      BY <2>1 DEF SenderStarts, Killed, TrackInv, trackVars
    <2>2. CASE SenderTakes \/ SenderEnds
      BY <2>2 DEF SenderTakes, SenderEnds, TrackInv, trackVars
    <2>3. CASE SenderWrites
      <3>1. /\ tomb \in {"alive", "dying"} /\ call # <<>> /\ call' = <<>>
            /\ UNCHANGED <<tomb, reader, counter>>
        BY <2>3
        DEF SenderWrites, TrackInv, TypeInv, TypeOK, SignalRTypeOK, CallInv
      <3>. QED  BY <2>3, <3>1 DEF SenderWrites, TrackInv
    <2>. QED  BY <1>7, <2>1, <2>2, <2>3 DEF ClientStep, SenderStep
  <1>8. CASE \/ ClientStep(ReaderStep) \/ ClientStep(ServerCloses)
             \/ Breaks \/ PingTimeout
    <2>1. /\ UNCHANGED <<pc, sender, tracked, counter, unanswered, call>>
          /\ reader' = reader \/ (reader # "none" /\ tomb' # "zombie")
          /\ \/ UNCHANGED tomb
             \/ tomb = "alive" /\ tomb' = "dying"
             \/ tomb = "dying" /\ tomb' = "dead" /\ sender' = "none" /\ reader' = "none"
      BY <1>8
      DEF ClientStep, ReaderStep, ReaderResumes, Endgame, TombDies, ReaderEnds,
          EndgameDone, ServerCloses, Killed, Breaks, Break, PingTimeout,
          TrackInv, TypeInv, TypeOK, SignalRTypeOK, trackVars, connVars, mainVars
    <2>. QED  BY <2>1 DEF TrackInv
  <1>9. CASE ClientStep(Completion)
    <2>1. PICK id : /\ tracked' = tracked \ {id}
                    /\ unanswered' = unanswered \ {id} \/ UNCHANGED unanswered
      BY <1>9 DEF ClientStep, Completion
    <2>2. UNCHANGED <<pc, tomb, sender, reader, counter, call>>
      BY <1>9 DEF ClientStep, Completion, connVars, mainVars
    <2>. QED  BY <2>1, <2>2 DEF TrackInv
  <1>10. CASE Invokes \/ Announces
    <2>1. /\ UNCHANGED <<pc, tomb, sender, tracked, counter, unanswered, call>>
          /\ reader' = reader \/ reader # "none"
      BY <1>10
      DEF Invokes, Announces, Invocation, Reading, trackVars, mainVars
    <2>. QED  BY <2>1 DEF TrackInv
  <1>11. CASE ReceiveStep \/ IdleTimer \/ Close
    <2>1. UNCHANGED <<pc, tomb, sender, reader, tracked, counter, unanswered, call>>
      BY <1>11
      DEF ReceiveStep, ReceiveConnected, ReadyPushed, ReceiveClose, ReceiveData,
          Route, Push, ReceiveOpen, ReceiveCloseChannel, CloseOne, OneClosed,
          IdleCloseOver, ReceiveEnds, Receiving, IdleTimer, Close, signalRVars,
          trackVars, mainVars
    <2>. QED  BY <2>1, TrackAlone
  <1>12. ASSUME NEW c \in Channels,
               ChannelStep(c) \/ Subscribe(c) \/ ChannelSends(c) \/ ChannelStops(c)
        PROVE  TrackInv'
    BY <1>12, TrackAlone
    DEF ChannelStep, ChannelReads, ChannelDies, Subscribe, ChannelSends,
        ChannelStops, signalRVars, trackVars, mainVars
  <1>13. CASE UNCHANGED vars
    BY <1>13, TrackAlone DEF vars, signalRVars, trackVars, connVars, mainVars
  <1>. QED
    BY <1>1, <1>2, <1>3, <1>4, <1>5, <1>6, <1>7, <1>8, <1>9, <1>10, <1>11, <1>12,
       <1>13 DEF Next, MainStep

\* What avengersEndgame waits for is something the server has still to answer,
\* over all the websockets, failed attempts and late completions.
THEOREM TrackedAreAwaited == Spec => []TrackedIsAwaited
  <1>. DEFINE IInv == TypeInv /\ TrackInv
  <1>1. Init => IInv
    BY TypeInit DEF Init, SignalRInit, TrackInv
  <1>2. IInv /\ [Next]_vars => IInv'
    BY TypeStep, TrackStep
  <1>3. IInv => TrackedIsAwaited
    BY DEF TrackInv, TrackedIsAwaited
  <1>. QED  BY <1>1, <1>2, <1>3, PTL DEF Spec

-----------------------------------------------------------------------------
(* The flush.                                                              *)

\* What is submitted when the connection is not alive, and is not the notice,
\* is late.
LEMMA LateSubmit ==
  ASSUME TypeInv, NEW kind \in MessageKinds, Submit(kind), cTomb # "alive",
         kind # "closeConnection"
  PROVE  /\ \A i \in DOMAIN queue : i \in DOMAIN queue' /\ queue'[i] = queue[i]
         /\ \A i \in DOMAIN queue' : i \in DOMAIN queue \/ Late(queue'[i])
  <1>1. Late(Message(kind))
    <2>1. Message(kind).due = FALSE
      BY Zenon DEF Message
    <2>. QED  BY <2>1 DEF Message, Late
  <1>2. /\ DOMAIN queue' = 1..(Len(queue) + 1) /\ DOMAIN queue = 1..Len(queue)
        /\ \A i \in 1..Len(queue) : queue'[i] = queue[i]
        /\ queue'[Len(queue) + 1] = Message(kind)
        /\ Len(queue) \in Nat
    BY DEF Submit, TypeInv, TypeOK, MainTypeOK
  <1>. QED  BY <1>1, <1>2

\* The steps of the others: the queue may grow at its end.
LEMMA FlushOthers ==
  ASSUME TypeInv, FlushInv, Next, ~MainStep, ~GivesUp, ~WaitTimeout
  PROVE  FlushInv'
  <1>1. UNCHANGED <<pc, left, Role>> /\ (cTomb' = cTomb \/ cTomb' = "dying")
    BY OthersKeepPlace
  <1>2. \/ queue' = queue
        \/ \E kind \in MessageKinds : Submit(kind) /\ kind # "closeConnection"
    <2>1. ~Notify
      BY DEF MainStep
    <2>. QED
      BY <2>1, OrderSteps DEF orderVars, Writes, Talks, Submits, MessageKinds
  <1>3. CASE queue' = queue
    BY <1>1, <1>3 DEF FlushInv
  <1>4. CASE cTomb = "alive"
    BY <1>1, <1>4 DEF FlushInv
  <1>5. ASSUME NEW kind \in MessageKinds, Submit(kind), kind # "closeConnection",
               cTomb # "alive"
        PROVE  FlushInv'
    BY <1>1, <1>5, LateSubmit DEF FlushInv
  <1>. QED  BY <1>2, <1>3, <1>4, <1>5

\* Every step keeps FlushInv.
LEMMA FlushStep == TypeInv /\ FlushInv /\ [Next]_vars => FlushInv'
  <1>. SUFFICES ASSUME TypeInv, FlushInv, [Next]_vars PROVE FlushInv'
    OBVIOUS
  <1>1. CASE SendRemaining
    <2>1. /\ pc = "remaining" /\ pc' = "flushing" /\ left > 0 /\ left' = left - 1
          /\ left \in Nat /\ left <= Len(queue)
          /\ UNCHANGED cTomb /\ queue' = Tail(queue)
      BY <1>1 DEF SendRemaining, TypeInv, TypeOK, MainTypeOK, CallInv
    <2>2. /\ DOMAIN queue = 1..Len(queue) /\ Len(queue) \in Nat \ {0}
          /\ DOMAIN queue' = 1..(Len(queue) - 1)
          /\ \A i \in 1..(Len(queue) - 1) : queue'[i] = queue[i + 1]
      BY <2>1 DEF TypeInv, TypeOK, MainTypeOK
    <2>. QED  BY <2>1, <2>2 DEF FlushInv
  <1>2. CASE CountRemaining
    <2>1. /\ pc' = "remaining" /\ left' = Len(queue) /\ UNCHANGED <<cTomb, queue>>
          /\ cTomb # "alive"
      BY <1>2 DEF CountRemaining, FlushInv
    <2>2. \A i \in DOMAIN queue : ~(i > Len(queue))
      BY DEF TypeInv, TypeOK, MainTypeOK
    <2>. QED  BY <2>1, <2>2 DEF FlushInv
  <1>3. CASE RemainingReturns \/ RemainingDone
    <2>1. \A i \in DOMAIN queue : i > 0
      BY DEF TypeInv, TypeOK, MainTypeOK
    <2>. QED  BY <1>3, <2>1 DEF RemainingReturns, RemainingDone, FlushInv
  <1>4. CASE LoopDying \/ LockBroker \/ AllClosed \/ Notify
    BY <1>4 DEF LoopDying, LockBroker, AllClosed, Notify, FlushInv, boundVars
  <1>5. CASE \/ Connected \/ ConnectDying \/ WaitOver \/ SelfCloseTimeout
             \/ ClientDone \/ SendNext \/ SendReturns
    BY <1>5
    DEF Connected, ConnectDying, WaitOver, SelfCloseTimeout, ClientDone,
        SendNext, SendReturns, FlushInv
  <1>6. CASE CloseChannels \/ ClientClose \/ ClientClosed \/ GivesUp \/ WaitTimeout
    BY <1>6
    DEF CloseChannels, ClientClose, ClientClosed, GivesUp, WaitTimeout, FlushInv,
        mainVars, boundVars
  <1>7. CASE UNCHANGED vars
    BY <1>7 DEF FlushInv, vars, connVars, mainVars, boundVars
  <1>. QED
    BY <1>1, <1>2, <1>3, <1>4, <1>5, <1>6, <1>7, FlushOthers DEF MainStep

\* When the messenger is told to close, everything that was submitted while the
\* connection was alive has been taken from the queue, and so has the notice,
\* however many messages are submitted while the queue is being emptied.
THEOREM QueueIsFlushed == Spec => []Flushed
  <1>. DEFINE IInv == TypeInv /\ FlushInv
  <1>1. Init => IInv
    BY TypeInit DEF Init, FlushInv
  <1>2. IInv /\ [Next]_vars => IInv'
    BY TypeStep, FlushStep
  <1>3. IInv => Flushed
    BY DEF FlushInv, Flushed, Late
  <1>. QED  BY <1>1, <1>2, <1>3, PTL DEF Spec

-----------------------------------------------------------------------------
(* The last word.                                                          *)

\* What the node sends a daemon.
LEMMA DaemonInbound ==
  ASSUME TypeInv, WaitInv, Role = "daemon", [Next]_vars
  PROVE  /\ \A i \in DOMAIN inbound' : inbound'[i].kind \in DaemonKinds
         /\ \A i \in DOMAIN held' : held'[i].kind \in DaemonKinds
  <1>. DEFINE Fine(s) == \A i \in DOMAIN s : s[i].kind \in DaemonKinds
  <1>0. /\ inbound \in Seq(Invocations) /\ held \in Seq(Invocations)
        /\ Fine(inbound) /\ Fine(held)
    BY DEF TypeInv, TypeOK, SignalRTypeOK, WaitInv
  <1>1. ASSUME NEW msg, msg.kind \in DaemonKinds, Invocation(msg)
        PROVE  Fine(inbound') /\ Fine(held')
    <2>1. CASE inbound' = Append(inbound, msg) /\ held' = held
      BY <1>0, <1>1, <2>1
    <2>2. CASE inbound' = inbound /\ held' = <<msg>>
      BY <1>0, <1>1, <2>2
    <2>. QED  BY <1>1, <2>1, <2>2 DEF Invocation
  <1>2. CASE Invokes
    <2>1. PICK kind \in Kinds, c \in Channels :
            Invocation([kind |-> kind, chan |-> c])
      BY <1>2 DEF Invokes
    <2>2. kind \in DaemonKinds
      BY DEF Kinds, DaemonKinds
    <2>. QED  BY <1>1, <2>1, <2>2
  <1>3. CASE Announces
    BY <1>1, <1>3 DEF Announces, DaemonKinds
  <1>4. CASE ClientStep(ReaderStep)
    <2>1. CASE ReaderResumes
      <3>1. inbound' = inbound \o held /\ held' = <<>>
        BY <2>1 DEF ReaderResumes
      <3>. QED  BY <1>0, <3>1
    <2>2. CASE ~ReaderResumes
      BY <1>0, <1>4, <2>2
      DEF ClientStep, ReaderStep, Endgame, TombDies, ReaderEnds, EndgameDone
    <2>. QED  BY <2>1, <2>2
  <1>5. CASE \/ ReceiveConnected \/ ReceiveClose \/ ReceiveData \/ ReceiveOpen
             \/ ReceiveCloseChannel
    <2>1. inbound' = Tail(inbound) /\ inbound # <<>> /\ held' = held
      BY <1>5
      DEF ReceiveConnected, ReceiveClose, ReceiveData, ReceiveOpen,
          ReceiveCloseChannel, Receiving
    <2>. QED  BY <1>0, <2>1
  <1>6. CASE UNCHANGED <<inbound, held>>
    BY <1>0, <1>6
  <1>7. CASE \/ ReadyPushed \/ Route \/ Push \/ CloseOne \/ OneClosed
             \/ IdleCloseOver \/ ReceiveEnds \/ IdleTimer \/ Close
             \/ GivesUp \/ WaitTimeout \/ AttemptFails \/ UNCHANGED vars
    BY <1>6, <1>7
    DEF ReadyPushed, Route, Push, CloseOne, OneClosed, IdleCloseOver, ReceiveEnds,
        IdleTimer, Close, GivesUp, WaitTimeout, AttemptFails, ConnectFails, vars,
        signalRVars
  <1>8. CASE MainStep
    BY <1>6, <1>8
    DEF MainStep, Connected, ConnectOK, ConnectDying, WaitOver, SelfCloseTimeout,
        ClientDone, SendNext, SendRemaining, StartSend, SendReturns, LoopDying,
        LockBroker, CloseChannels, AllClosed, Notify, CountRemaining,
        RemainingReturns, RemainingDone, ClientClose, ClientClosed, signalRVars
  <1>9. CASE \/ ClientStep(SenderStep) \/ ClientStep(Completion)
             \/ ClientStep(ServerCloses) \/ Breaks \/ PingTimeout
    BY <1>6, <1>9
    DEF ClientStep, SenderStep, SenderStarts, SenderTakes, SenderWrites,
        SenderEnds, Completion, ServerCloses, Breaks, Break, PingTimeout,
        ReaderEnds
  <1>10. ASSUME NEW c \in Channels,
               ChannelStep(c) \/ Subscribe(c) \/ ChannelSends(c) \/ ChannelStops(c)
        PROVE  UNCHANGED <<inbound, held>>
    BY <1>10
    DEF ChannelStep, ChannelReads, ChannelDies, Subscribe, ChannelSends,
        ChannelStops, signalRVars
  <1>. QED
    BY <1>2, <1>3, <1>4, <1>5, <1>6, <1>7, <1>8, <1>9, <1>10
    DEF Next, ReceiveStep

\* A channel of a daemon is told to close by broker.Close alone, which waits
\* for it.
LEMMA DaemonWaits ==
  ASSUME TypeInv, WaitInv, Role = "daemon", [Next]_vars
  PROVE  /\ rpc' \notin {"close", "closeWait"}
         /\ \A c \in Channels : chan'[c] = "dying" => pc' = "closing" /\ closing' = c
  <1>0. /\ rpc \notin {"close", "closeWait"}
        /\ \A c \in Channels : chan[c] = "dying" => pc = "closing" /\ closing = c
        /\ chan \in [Channels -> ChannelStates]
    BY DEF TypeInv, TypeOK, ReceiveTypeOK, WaitInv
  <1>1. CASE CloseChannels
    <2>0. UNCHANGED <<pc, rpc>> /\ pc = "closing"
      BY <1>1 DEF CloseChannels, mainVars, receiveVars
    <2>1. ASSUME NEW c \in Channels, CloseChannel(c)
          PROVE  \A d \in Channels : chan'[d] = "dying" => closing' = d
      <3>1. \A d \in Channels : chan[d] # "dying"
        BY <1>0, <2>1, ConnectionAssumption DEF CloseChannel
      <3>. QED  BY <1>0, <2>1, <3>1 DEF CloseChannel
    <2>2. ASSUME ChannelClosed
          PROVE  \A d \in Channels : chan'[d] # "dying"
      BY <1>0, <2>2 DEF ChannelClosed
    <2>. QED  BY <1>0, <1>1, <2>0, <2>1, <2>2 DEF CloseChannels
  <1>2. CASE AllClosed
    BY <1>0, <1>2, ConnectionAssumption DEF AllClosed, receiveVars
  <1>3. CASE MainStep /\ ~CloseChannels /\ ~AllClosed
    <2>1. /\ UNCHANGED <<rpc, chan, closing>>
          /\ pc # "closing"
      BY <1>3
      DEF MainStep, Connected, ConnectDying, WaitOver, SelfCloseTimeout,
          ClientDone, SendNext, SendRemaining, SendReturns, LoopDying,
          LockBroker, Notify, CountRemaining, RemainingReturns, RemainingDone,
          ClientClose, ClientClosed, receiveVars, brokerVars
    <2>. QED  BY <1>0, <2>1
  <1>4. CASE AttemptFails \/ GivesUp \/ WaitTimeout \/ Close \/ IdleTimer
    BY <1>0, <1>4
    DEF AttemptFails, GivesUp, WaitTimeout, Close, IdleTimer, mainVars,
        receiveVars, brokerVars
  <1>5. CASE ReceiveStep
    <2>1. /\ ~ReceiveOpen /\ ~ReceiveCloseChannel /\ ~CloseOne /\ ~OneClosed
      <3>1. ASSUME NEW kind, Receiving(kind)
            PROVE  kind \in DaemonKinds
        <4>1. inbound # <<>> /\ inbound \in Seq(Invocations)
          BY <3>1 DEF Receiving, TypeInv, TypeOK, SignalRTypeOK
        <4>2. 1 \in DOMAIN inbound /\ Head(inbound) = inbound[1]
          BY <4>1
        <4>. QED  BY <3>1, <4>2 DEF Receiving, WaitInv
      <3>. QED
        BY <1>0, <3>1
        DEF ReceiveOpen, ReceiveCloseChannel, CloseOne, OneClosed, DaemonKinds
    <2>2. UNCHANGED <<pc, chan, closing>> /\ rpc' \notin {"close", "closeWait"}
      BY <1>0, <1>5, <2>1
      DEF ReceiveStep, ReceiveConnected, ReadyPushed, ReceiveClose, ReceiveData,
          Route, Push, IdleCloseOver, ReceiveEnds, NextReceive, mainVars,
          brokerVars
    <2>. QED  BY <1>0, <2>2
  <1>6. ASSUME NEW c \in Channels,
               ChannelStep(c) \/ Subscribe(c) \/ ChannelSends(c) \/ ChannelStops(c)
        PROVE  /\ UNCHANGED <<pc, rpc, closing>>
               /\ \A d \in Channels : chan'[d] = "dying" => chan[d] = "dying"
    BY <1>0, <1>6
    DEF ChannelStep, ChannelReads, ChannelDies, Subscribe, ChannelSends,
        ChannelStops, mainVars, receiveVars, brokerVars
  <1>7. CASE \/ ClientStep(SenderStep) \/ ClientStep(ReaderStep)
             \/ ClientStep(Completion) \/ ClientStep(ServerCloses)
             \/ Invokes \/ Announces \/ Breaks \/ PingTimeout \/ UNCHANGED vars
    BY <1>0, <1>7
    DEF ClientStep, Invokes, Announces, Breaks, PingTimeout, vars, connVars,
        mainVars, receiveVars, brokerVars
  <1>. QED  BY <1>0, <1>1, <1>2, <1>3, <1>4, <1>5, <1>6, <1>7 DEF Next

\* A connection keeps its role.
LEMMA RoleStays ==
  ASSUME [Next]_vars
  PROVE  Role' = Role
  BY OthersKeepPlace
  DEF MainStep, Connected, ConnectDying, WaitOver, SelfCloseTimeout,
      ClientDone, SendNext, SendRemaining, SendReturns, LoopDying,
      LockBroker, CloseChannels, AllClosed, Notify, CountRemaining,
      RemainingReturns, RemainingDone, ClientClose, ClientClosed, GivesUp,
      WaitTimeout, vars, connVars, boundVars

\* Every step keeps WaitInv.
LEMMA WaitStep == TypeInv /\ WaitInv /\ [Next]_vars => WaitInv'
  BY RoleStays, DaemonInbound, DaemonWaits DEF WaitInv

\* A message that is submitted becomes known; the others already are.
LEMMA KnownSteps ==
  ASSUME TypeInv
  PROVE  /\ UNCHANGED orderVars \/ Takes \/ Writes => Known' \subseteq Known
         /\ \A kind \in MessageKinds :
              Submits(kind) => Known' \subseteq Known \union {Message(kind)}
  <1>0. /\ queue \in Seq(Messages) /\ sent \in Seq(Messages)
        /\ call \in Seq(Messages)
    BY DEF TypeInv, TypeOK, SignalRTypeOK, MainTypeOK
  <1>1. ASSUME UNCHANGED orderVars PROVE Known' \subseteq Known
    BY <1>1 DEF orderVars, Known
  <1>2. ASSUME Takes PROVE Known' \subseteq Known
    <2>1. sent' = sent /\ call' = <<Head(queue)>> /\ queue' = Tail(queue) /\ queue # <<>>
      BY <1>2 DEF Takes
    <2>2. Elements(call') \subseteq Elements(queue)
      BY <1>0, <2>1 DEF Elements
    <2>3. Elements(queue') \subseteq Elements(queue)
      BY <1>0, <2>1 DEF Elements
    <2>. QED  BY <2>1, <2>2, <2>3 DEF Known, Elements
  <1>3. ASSUME Writes PROVE Known' \subseteq Known
    <2>1. call # <<>> /\ call' = <<>> /\ queue' = queue
      BY <1>3 DEF Writes
    <2>2. Elements(sent') \subseteq Elements(sent) \union Elements(call)
      <3>1. CASE sent' = sent
        BY <3>1 DEF Elements
      <3>2. CASE sent' = Append(sent, Head(call))
        BY <1>0, <2>1, <3>2 DEF Elements
      <3>. QED  BY <1>3, <3>1, <3>2 DEF Writes
    <2>. QED  BY <2>1, <2>2 DEF Known, Elements
  <1>4. ASSUME NEW kind \in MessageKinds, Submits(kind)
        PROVE  Known' \subseteq Known \union {Message(kind)}
    <2>1. /\ queue' = Append(queue, Message(kind)) /\ UNCHANGED <<sent, call>>
      BY <1>4 DEF Submits, Submit
    <2>2. Elements(queue') \subseteq Elements(queue) \union {Message(kind)}
      BY <1>0, <2>1 DEF Elements
    <2>. QED  BY <2>1, <2>2 DEF Known, Elements
  <1>. QED  BY <1>1, <1>2, <1>3, <1>4

\* Once the notice has been submitted, it stays so.
LEMMA NotifiedStays ==
  ASSUME Next, pc \in Notified
  PROVE  pc' \in Notified
  BY OthersKeepPlace
  DEF MainStep, Connected, ConnectDying, WaitOver, SelfCloseTimeout,
      ClientDone, SendNext, SendRemaining, SendReturns, LoopDying,
      LockBroker, CloseChannels, AllClosed, Notify, CountRemaining,
      RemainingReturns, RemainingDone, ClientClose, ClientClosed, GivesUp,
      WaitTimeout, Notified, mainVars

\* Every step keeps LastInv.
LEMMA LastStep ==
  TypeInv /\ OrderInv /\ WaitInv /\ LastInv /\ [Next]_vars => LastInv'
  <1>. SUFFICES ASSUME TypeInv, OrderInv, WaitInv, LastInv, [Next]_vars
                PROVE  LastInv'
    OBVIOUS
  <1>1. CASE UNCHANGED vars
    BY <1>1
    DEF LastInv, Known, Elements, vars, signalRVars, connVars, mainVars
  <1>. SUFFICES ASSUME Next PROVE LastInv'
    BY <1>1
  <1>2. CASE UNCHANGED orderVars \/ (Takes /\ MainStep) \/ Writes
    <2>1. Known' \subseteq Known
      BY <1>2, KnownSteps
    <2>. QED  BY <2>1, NotifiedStays DEF LastInv
  <1>3. CASE Talks
    <2>1. PICK kind \in {"data", "stopChannel"} : Submits(kind)
      BY <1>3 DEF Talks
    <2>2. /\ Known' \subseteq Known \union {Message(kind)}
          /\ Message(kind).kind = kind
      BY <2>1, KnownSteps DEF MessageKinds, Message
    <2>. QED  BY <2>2, NotifiedStays DEF LastInv
  <1>4. CASE /\ Submits("closeChannel")
             /\ Role = "daemon" /\ \E c \in Channels : chan[c] = "dying"
    <2>1. /\ Known' \subseteq Known \union {Message("closeChannel")}
          /\ Message("closeChannel").kind = "closeChannel"
      BY <1>4, KnownSteps DEF MessageKinds, Message
    <2>2. pc = "closing"
      BY <1>4 DEF WaitInv
    <2>3. \A m \in Known' : m.kind # "closeConnection"
      BY <2>1, <2>2 DEF LastInv, Notified
    <2>. QED  BY <2>3 DEF LastInv
  <1>5. CASE Submits("closeConnection") /\ Notify
    <2>1. /\ Known' \subseteq Known \union {Message("closeConnection")}
          /\ Message("closeConnection").kind = "closeConnection"
          /\ Message("closeConnection").id = nextMsg
      BY <1>5, KnownSteps DEF MessageKinds, Message
    <2>2. pc = "notify" /\ pc' = "count"
      BY <1>5 DEF Notify
    <2>3. \A m \in Known : m.id < nextMsg /\ m.kind # "closeConnection"
      BY <2>2 DEF LastInv, Notified, OrderInv, Known, Elements
    <2>. QED  BY <2>1, <2>2, <2>3 DEF LastInv, Notified
  <1>. QED  BY <1>2, <1>3, <1>4, <1>5, OrderSteps

\* The notice that the connection closes is written after the CloseDataChannel
\* of every channel that was closed for it, on whichever websocket, and however
\* many channels stop by themselves or are opened in the meantime.
THEOREM NoticeIsLast == Spec => []NotifiedLast
  <1>. DEFINE IInv == TypeInv /\ OrderInv /\ WaitInv /\ LastInv
  <1>1. Init => IInv
    <2>1. Init => WaitInv /\ LastInv
      BY DEF Init, SignalRInit, WaitInv, LastInv, Known, Elements
    <2>. QED  BY <2>1, TypeInit, OrderInit
  <1>2. IInv /\ [Next]_vars => IInv'
    BY TypeStep, OrderStep, WaitStep, LastStep
  <1>3. IInv => NotifiedLast
    <2>. SUFFICES ASSUME TypeInv, OrderInv, LastInv, NEW i \in DOMAIN sent,
                         sent[i].kind = "closeConnection",
                         NEW j \in (i + 1)..Len(sent),
                         sent[j].kind = "closeChannel"
                  PROVE  FALSE
      BY DEF NotifiedLast
    <2>1. j \in DOMAIN sent /\ i < j
      BY DEF TypeInv, TypeOK, SignalRTypeOK
    <2>2. sent[i].id < sent[j].id /\ sent[j].id < sent[i].id
      BY <2>1 DEF OrderInv, SentInOrder, LastInv, Known, Elements
    <2>3. sent[i].id \in Nat /\ sent[j].id \in Nat
      BY <2>1, IdsAreNat DEF TypeInv, TypeOK, SignalRTypeOK
    <2>. QED  BY <2>2, <2>3
  <1>. QED  BY <1>1, <1>2, <1>3, PTL DEF Spec
=============================================================================
