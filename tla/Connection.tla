----------------------------- MODULE Connection -----------------------------
(***************************************************************************)
(* A connection manager over SignalR, with its broker and the channels     *)
(* that subscribe to it.  Role says which of the three it is:              *)
(*   "daemon"   bctl/daemon/servers/dataconnection/connection.go           *)
(*   "agent"    bctl/agent/controlchannel/dataconnection/connection.go     *)
(*   "control"  bctl/agent/controlconnection/connection.go                 *)
(* The main goroutine connects, sends and closes; the receive goroutine    *)
(* routes what arrives through bzerolib/connection/broker/broker.go.  A    *)
(* channel is reduced to its tomb, the length of its inputChan and the     *)
(* messages it submits with Send.                                          *)
(***************************************************************************)
EXTENDS SignalR, FiniteSets

CONSTANTS
  Surroundings,  \* for each role considered, what surrounds the connection
  Channels,      \* ids of channels
  NoChannel,
  QueueCap,      \* capacity of sendQueue
  InputCap       \* capacity of a channel's inputChan

EnvKinds == {"break", "connectFails", "giveUp", "serverClose", "timeout",
             "pingTimeout", "close", "channelStops", "openFails"}

Roles == {"daemon", "agent", "control"}

ASSUME ConnectionAssumption ==
  /\ NoChannel \notin Channels
  /\ QueueCap \in Nat \ {0} /\ InputCap \in Nat \ {0}
  /\ DOMAIN Surroundings \subseteq Roles
  /\ \A r \in DOMAIN Surroundings :
       Surroundings[r] \in [env : SUBSET EnvKinds, messages : Nat,
                           invocations : Nat, breaks : Nat]

VARIABLES
  Role,        \* never changes
  pc,          \* where the main goroutine is
  cTomb,       \* the connection's tomb: "alive", "dying", "dead"
  ready,
  token,       \* agentReadyChan holds a value
  queue,       \* sendQueue
  left,        \* messages sendRemainingMessages still has to send
  rpc,         \* where the receive goroutine is
  target,      \* the channel receive is busy with
  timerFired,  \* the agent's idle timer has fired and was read
  lock,        \* holder of the broker's lock: "free", "receive", "main"
  subscribed,  \* keys of the broker's map
  closing,     \* the channel broker.Close or CloseChannel waits for
  chan,        \* state of each channel
  inputs,      \* length of each channel's inputChan
  nextMsg,     \* id of the next message submitted
  announced,   \* history: the node has told this websocket about the agent
  invocations, \* invocations so far
  breaks       \* failures so far

mainVars == <<pc, cTomb, ready, token, queue, left>>
receiveVars == <<rpc, target, timerFired>>
brokerVars == <<lock, subscribed, closing, chan, inputs>>
boundVars == <<Role, nextMsg, announced, invocations, breaks>>
connVars == <<mainVars, receiveVars, brokerVars, boundVars>>
vars == <<signalRVars, connVars>>

\* What the surroundings do, and the bounds on: messages that channels submit
\* of their own accord, invocations of the server, websockets that die and
\* attempts to connect that fail.
Env == Surroundings[Role].env
MaxMessages == Surroundings[Role].messages
MaxInvocations == Surroundings[Role].invocations
MaxBreaks == Surroundings[Role].breaks

PCs == {"connect", "wait", "selfClose", "loop", "sending", "lock", "closing",
        "notify", "count", "remaining", "flushing", "clientClose", "clientWait", "done"}
ReceivePCs == {"idle", "ready", "route", "push", "close", "closeWait",
               "idleClose", "stuck", "gone"}
\* "failed": subscribed without a goroutine; "zombie": killed in that state;
\* "dying": told to close; "stopping": dying of its own accord.
ChannelStates == {"none", "open", "failed", "dying", "stopping", "dead", "zombie"}

Init ==
  /\ SignalRInit
  /\ Role \in DOMAIN Surroundings
  /\ pc = "connect" /\ cTomb = "alive" /\ ready = FALSE /\ token = FALSE
  /\ queue = <<>> /\ left = 0
  /\ rpc = "idle" /\ target = NoChannel /\ timerFired = FALSE
  /\ lock = "free" /\ subscribed = {} /\ closing = NoChannel
  /\ chan = [c \in Channels |-> "none"] /\ inputs = [c \in Channels |-> 0]
  /\ nextMsg = 1 /\ announced = FALSE /\ invocations = 0 /\ breaks = 0

\* due: submitted while the connection was alive (history).
Message(kind) == [id |-> nextMsg, kind |-> kind, due |-> cTomb = "alive"]

\* Send: blocks while sendQueue is full.
Submit(kind) ==
  /\ Len(queue) < QueueCap
  /\ queue' = Append(queue, Message(kind))
  /\ nextMsg' = nextMsg + 1

-----------------------------------------------------------------------------
(* The main goroutine: connect.  Nothing is read from the queue meanwhile. *)

Connected ==
  /\ pc = "connect"
  /\ ConnectOK
  /\ pc' = IF Role = "daemon" THEN "wait" ELSE "loop"
  /\ ready' = IF Role = "daemon" THEN ready ELSE TRUE
  /\ announced' = FALSE
  /\ UNCHANGED <<cTomb, token, queue, left, receiveVars, brokerVars, Role, nextMsg,
                 invocations, breaks>>

\* The agent's connections need a token, and the control connection the address
\* of a node, before the messenger is asked.
AttemptFails ==
  /\ pc = "connect" /\ "connectFails" \in Env /\ breaks < MaxBreaks
  /\ ConnectFails \/ (Role # "daemon" /\ UNCHANGED signalRVars)
  /\ breaks' = breaks + 1
  /\ UNCHANGED <<mainVars, receiveVars, brokerVars, Role, nextMsg, announced,
                 invocations>>

\* The backoff's MaxElapsedTime is over: the goroutine returns an error.
GivesUp ==
  /\ pc = "connect" /\ "giveUp" \in Env
  /\ pc' = "done" /\ cTomb' = "dead"
  /\ UNCHANGED <<signalRVars, ready, token, queue, left, receiveVars,
                 brokerVars, boundVars>>

\* connect returns nil when the connection is dying.
ConnectDying ==
  /\ pc = "connect" /\ cTomb = "dying"
  /\ pc' = IF Role = "daemon" THEN "wait" ELSE "loop"
  /\ UNCHANGED <<signalRVars, cTomb, ready, token, queue, left, receiveVars,
                 brokerVars, boundVars>>

\* waitForAgentReady (daemon).
WaitOver ==
  /\ pc = "wait"
  /\ \/ (tomb = "dead" \/ cTomb = "dying") /\ UNCHANGED token
     \/ token /\ token' = FALSE
  /\ pc' = "loop"
  /\ UNCHANGED <<signalRVars, cTomb, ready, queue, left, receiveVars,
                 brokerVars, boundVars>>

\* Its timeout: the goroutine kills its own tomb, then waits a minute for
\* itself.
WaitTimeout ==
  /\ pc = "wait" /\ "timeout" \in Env
  /\ pc' = "selfClose"
  /\ cTomb' = "dying"
  /\ UNCHANGED <<signalRVars, ready, token, queue, left, receiveVars,
                 brokerVars, boundVars>>

SelfCloseTimeout ==
  /\ pc = "selfClose"
  /\ pc' = "loop"
  /\ UNCHANGED <<signalRVars, cTomb, ready, token, queue, left, receiveVars,
                 brokerVars, boundVars>>

-----------------------------------------------------------------------------
(* The main goroutine: the loop.                                           *)

\* The messenger is gone: connect again, unless the server closed it normally
\* (daemon only).
ClientDone ==
  /\ pc = "loop" /\ tomb = "dead"
  /\ ready' = FALSE
  /\ IF Role = "daemon" /\ reason = "normal"
       THEN pc' = "done" /\ cTomb' = "dead"
       ELSE pc' = "connect" /\ UNCHANGED cTomb
  /\ UNCHANGED <<signalRVars, token, queue, left, receiveVars, brokerVars,
                 boundVars>>

\* Faulty variant: the message stays at the head of the queue.
SendNextPeeks ==
  /\ pc = "loop" /\ queue # <<>>
  /\ StartSend(Head(queue))
  /\ pc' = "sending"
  /\ UNCHANGED <<cTomb, ready, token, queue, left, receiveVars, brokerVars,
                 boundVars>>

SendNext ==
  /\ pc = "loop" /\ queue # <<>>
  /\ StartSend(Head(queue))
  /\ queue' = Tail(queue)
  /\ pc' = "sending"
  /\ UNCHANGED <<cTomb, ready, token, left, receiveVars, brokerVars, boundVars>>

\* client.Send has returned; an error is only logged.
SendReturns ==
  /\ pc = "sending" /\ call = <<>>
  /\ pc' = "loop"
  /\ UNCHANGED <<signalRVars, cTomb, ready, token, queue, left, receiveVars,
                 brokerVars, boundVars>>

LoopDying ==
  /\ pc = "loop" /\ cTomb = "dying"
  /\ ready' = FALSE
  /\ pc' = "lock"
  /\ UNCHANGED <<signalRVars, cTomb, token, queue, left, receiveVars,
                 brokerVars, boundVars>>

-----------------------------------------------------------------------------
(* The main goroutine: the end.                                            *)

\* broker.Close takes the write lock.
LockBroker ==
  /\ pc = "lock" /\ lock = "free"
  /\ lock' = "main"
  /\ pc' = "closing"
  /\ UNCHANGED <<signalRVars, cTomb, ready, token, queue, left, receiveVars,
                 subscribed, closing, chan, inputs, boundVars>>

\* Faulty variant: a channel is killed and not waited for.
CloseChannelNoWait(c) ==
  /\ closing = NoChannel /\ c \in subscribed
  /\ chan' = IF chan[c] \in {"open", "failed"}
               THEN [chan EXCEPT ![c] = "dying"] ELSE chan
  /\ subscribed' = subscribed \ {c} /\ UNCHANGED closing
  /\ UNCHANGED <<lock, inputs>>

\* channel.Close: kill a live channel, to be waited for; leave a dying one.
CloseChannel(c) ==
  /\ closing = NoChannel /\ c \in subscribed
  /\ IF chan[c] \in {"open", "failed"}
       THEN /\ chan' = [chan EXCEPT ![c] = IF @ = "open" THEN "dying" ELSE "zombie"]
            /\ closing' = c /\ UNCHANGED subscribed
       ELSE subscribed' = subscribed \ {c} /\ UNCHANGED <<closing, chan>>
  /\ UNCHANGED <<lock, inputs>>

\* Faulty variant: the agent waits as long as it takes, too.
ChannelClosedNoTimeout ==
  /\ closing # NoChannel
  /\ chan[closing] = "dead"
  /\ subscribed' = subscribed \ {closing}
  /\ closing' = NoChannel
  /\ UNCHANGED <<lock, chan, inputs>>

\* The daemon's channel is waited for as long as it takes; the agent's Close
\* gives up after closeTimeout.
ChannelClosed ==
  /\ closing # NoChannel
  /\ chan[closing] = "dead" \/ Role # "daemon"
  /\ subscribed' = subscribed \ {closing}
  /\ closing' = NoChannel
  /\ UNCHANGED <<lock, chan, inputs>>

CloseChannels ==
  /\ pc = "closing"
  /\ (\E c \in Channels : CloseChannel(c)) \/ ChannelClosed
  /\ UNCHANGED <<signalRVars, mainVars, receiveVars, boundVars>>

AllClosed ==
  /\ pc = "closing" /\ closing = NoChannel /\ subscribed = {}
  /\ lock' = "free"
  /\ pc' = IF Role = "control" THEN "clientClose" ELSE "notify"
  /\ UNCHANGED <<signalRVars, cTomb, ready, token, queue, left, receiveVars,
                 subscribed, closing, chan, inputs, boundVars>>

\* Tell the other end: the message goes through the connection's own queue.
Notify ==
  /\ pc = "notify"
  /\ Submit("closeConnection")
  /\ pc' = "count"
  /\ UNCHANGED <<signalRVars, cTomb, ready, token, left, receiveVars, brokerVars,
                 Role, announced, invocations, breaks>>

\* Faulty variant: the last message is not counted.
CountRemainingButOne ==
  /\ pc = "count"
  /\ left' = Len(queue) - 1
  /\ pc' = "remaining"
  /\ UNCHANGED <<signalRVars, cTomb, ready, token, queue, receiveVars,
                 brokerVars, boundVars>>

\* sendRemainingMessages: the length is read once.
CountRemaining ==
  /\ pc = "count"
  /\ left' = Len(queue)
  /\ pc' = "remaining"
  /\ UNCHANGED <<signalRVars, cTomb, ready, token, queue, receiveVars,
                 brokerVars, boundVars>>

\* Faulty variant: goes on as long as there is a message.
SendRemainingUncounted ==
  /\ pc = "remaining" /\ queue # <<>>
  /\ StartSend(Head(queue))
  /\ queue' = Tail(queue)
  /\ left' = left - 1
  /\ pc' = "flushing"
  /\ UNCHANGED <<cTomb, ready, token, receiveVars, brokerVars, boundVars>>

SendRemaining ==
  /\ pc = "remaining" /\ left > 0
  /\ StartSend(Head(queue))
  /\ queue' = Tail(queue)
  /\ left' = left - 1
  /\ pc' = "flushing"
  /\ UNCHANGED <<cTomb, ready, token, receiveVars, brokerVars, boundVars>>

RemainingReturns ==
  /\ pc = "flushing" /\ call = <<>>
  /\ pc' = "remaining"
  /\ UNCHANGED <<signalRVars, cTomb, ready, token, queue, left, receiveVars,
                 brokerVars, boundVars>>

RemainingDone ==
  /\ pc = "remaining" /\ left = 0
  /\ pc' = "clientClose"
  /\ UNCHANGED <<signalRVars, cTomb, ready, token, queue, left, receiveVars,
                 brokerVars, boundVars>>

\* client.Close returns at once unless the messenger's tomb is alive; a fresh
\* tomb counts as alive, and it has no goroutine whose end could be its death.
ClientClose ==
  /\ pc = "clientClose"
  /\ Killed("closed")
  /\ pc' = IF tomb \in {"alive", "fresh"} THEN "clientWait" ELSE "done"
  /\ cTomb' = IF tomb \in {"alive", "fresh"} THEN cTomb ELSE "dead"
  /\ UNCHANGED <<ws, sender, reader, held, trackVars, inbound, call, sent,
                 ready, token, queue, left, receiveVars, brokerVars, boundVars>>

ClientClosed ==
  /\ pc = "clientWait" /\ tomb = "dead"
  /\ pc' = "done" /\ cTomb' = "dead"
  /\ UNCHANGED <<signalRVars, ready, token, queue, left, receiveVars,
                 brokerVars, boundVars>>

-----------------------------------------------------------------------------
(* The receive goroutine.                                                  *)

\* After a message the agent stops its idle timer and, if that had fired,
\* reads its channel, which is empty when the timer was already read.
NextReceive == IF Role = "agent" /\ timerFired THEN "stuck" ELSE "idle"

Receiving(kind) ==
  /\ rpc = "idle" /\ inbound # <<>> /\ Head(inbound).kind = kind
  /\ inbound' = Tail(inbound)
  /\ UNCHANGED <<ws, tomb, reason, sender, reader, held, trackVars, call, sent>>

\* AgentConnected (daemon): it is passed on to waitForAgentReady once, through
\* a channel of capacity 1.
ReceiveConnected ==
  /\ Receiving("connected")
  /\ IF ready THEN UNCHANGED <<ready, token, rpc>>
     ELSE /\ ready' = TRUE
          /\ IF token THEN rpc' = "ready" /\ UNCHANGED token
             ELSE token' = TRUE /\ UNCHANGED rpc
  /\ UNCHANGED <<pc, cTomb, queue, left, target, timerFired, brokerVars,
                 boundVars>>

ReadyPushed ==
  /\ rpc = "ready" /\ ~token
  /\ token' = TRUE /\ rpc' = "idle"
  /\ UNCHANGED <<signalRVars, pc, cTomb, ready, queue, left, target,
                 timerFired, brokerVars, boundVars>>

\* CloseConnection: the other end closes.
ReceiveClose ==
  /\ Receiving("close")
  /\ cTomb' = IF cTomb = "alive" THEN "dying" ELSE cTomb
  /\ rpc' = NextReceive
  /\ UNCHANGED <<pc, ready, token, queue, left, target, timerFired, brokerVars,
                 boundVars>>

\* DirectMessage, under the read lock: a datachannel is asked whether it is
\* alive, then the message is pushed onto its inputChan.
ReceiveData ==
  /\ Receiving("data")
  /\ target' = Head(inbound).chan
  /\ rpc' = "route"
  /\ UNCHANGED <<mainVars, timerFired, brokerVars, boundVars>>

Route ==
  /\ rpc = "route" /\ lock = "free"
  /\ IF /\ target \in subscribed
        /\ Role = "control" \/ chan[target] \in {"open", "failed"}
       THEN rpc' = "push" /\ lock' = "receive" /\ UNCHANGED target
       ELSE rpc' = NextReceive /\ target' = NoChannel /\ UNCHANGED lock
  /\ UNCHANGED <<signalRVars, mainVars, timerFired, subscribed, closing, chan,
                 inputs, boundVars>>

Push ==
  /\ rpc = "push" /\ inputs[target] < InputCap
  /\ inputs' = [inputs EXCEPT ![target] = @ + 1]
  /\ lock' = "free"
  /\ rpc' = NextReceive /\ target' = NoChannel
  /\ UNCHANGED <<signalRVars, mainVars, timerFired, subscribed, closing, chan,
                 boundVars>>

\* OpenDataChannel (agent): New subscribes the channel, then starts it; when
\* that fails the channel stays subscribed and nobody reads its inputChan; an
\* Error has gone out unless the Syn was malformed.  Before that mrtap.New may
\* fail.
ReceiveOpen ==
  /\ Receiving("open") /\ lock = "free"
  /\ LET c == Head(inbound).chan IN
     \/ /\ subscribed' = subscribed \union {c}
        /\ \/ chan' = [chan EXCEPT ![c] = "open"] /\ UNCHANGED <<queue, nextMsg>>
           \/ /\ "openFails" \in Env
              /\ chan' = [chan EXCEPT ![c] = "failed"]
              /\ Submit("data") \/ UNCHANGED <<queue, nextMsg>>
     \/ "openFails" \in Env /\ UNCHANGED <<subscribed, chan, queue, nextMsg>>
  /\ rpc' = NextReceive
  /\ UNCHANGED <<pc, cTomb, ready, token, left, target, timerFired, lock, closing,
                 inputs, Role, announced, invocations, breaks>>

\* CloseDataChannel (agent): CloseChannel holds the write lock while it waits.
ReceiveCloseChannel ==
  /\ Receiving("closeChannel") /\ lock = "free"
  /\ target' = Head(inbound).chan
  /\ IF Head(inbound).chan \in subscribed
       THEN rpc' = "close" /\ lock' = "receive"
       ELSE rpc' = NextReceive /\ UNCHANGED lock
  /\ UNCHANGED <<mainVars, timerFired, subscribed, closing, chan, inputs,
                 boundVars>>

CloseOne ==
  /\ \/ rpc = "close" /\ CloseChannel(target)
     \/ rpc = "closeWait" /\ ChannelClosed
  /\ rpc' = IF rpc = "close" THEN "closeWait" ELSE rpc
  /\ UNCHANGED <<signalRVars, mainVars, target, timerFired, boundVars>>

OneClosed ==
  /\ rpc = "closeWait" /\ closing = NoChannel
  /\ lock' = "free"
  /\ rpc' = NextReceive /\ target' = NoChannel
  /\ UNCHANGED <<signalRVars, mainVars, timerFired, subscribed, closing, chan,
                 inputs, boundVars>>

\* The agent's idle timer: Close, which waits 10s for the connection's death.
IdleTimer ==
  /\ Role = "agent" /\ "timeout" \in Env
  /\ rpc = "idle" /\ ~timerFired /\ ws # "none"
  /\ timerFired' = TRUE
  /\ cTomb' = IF cTomb = "alive" THEN "dying" ELSE cTomb
  /\ rpc' = IF cTomb = "alive" THEN "idleClose" ELSE "idle"
  /\ UNCHANGED <<signalRVars, pc, ready, token, queue, left, target,
                 brokerVars, boundVars>>

IdleCloseOver ==
  /\ rpc = "idleClose"
  /\ rpc' = "idle"
  /\ UNCHANGED <<signalRVars, mainVars, target, timerFired, brokerVars,
                 boundVars>>

ReceiveEnds ==
  /\ rpc = "idle" /\ cTomb = "dead"
  /\ rpc' = "gone"
  /\ UNCHANGED <<signalRVars, mainVars, target, timerFired, brokerVars,
                 boundVars>>

-----------------------------------------------------------------------------
(* Channels.                                                               *)

\* The daemon's servers create datachannels, the agent its control channel.
Subscribe(c) ==
  /\ Role # "agent" /\ chan[c] = "none" /\ lock = "free" /\ cTomb # "dead"
  /\ Role = "control" \/ ws # "none"
  /\ chan' = [chan EXCEPT ![c] = "open"]
  /\ subscribed' = subscribed \union {c}
  /\ UNCHANGED <<signalRVars, mainVars, receiveVars, lock, closing, inputs,
                 boundVars>>

\* The agent's channel also sends what is in its outputChan when it is dying.
ChannelSends(c) ==
  /\ chan[c] = "open" \/ (Role = "agent" /\ chan[c] \in {"dying", "stopping"})
  /\ nextMsg <= MaxMessages
  /\ Submit("data")
  /\ UNCHANGED <<signalRVars, pc, cTomb, ready, token, left, receiveVars,
                 brokerVars, Role, announced, invocations, breaks>>

ChannelReads(c) ==
  /\ chan[c] = "open" /\ inputs[c] > 0
  /\ inputs' = [inputs EXCEPT ![c] = @ - 1]
  /\ UNCHANGED <<signalRVars, mainVars, receiveVars, lock, subscribed, closing,
                 chan, boundVars>>

\* Faulty variant: the agent's channel does not watch the connection.
ChannelStopsUnaware(c) ==
  /\ chan[c] = "open" /\ "channelStops" \in Env
  /\ chan' = [chan EXCEPT ![c] = "stopping"]
  /\ UNCHANGED <<signalRVars, mainVars, receiveVars, lock, subscribed, closing,
                 inputs, boundVars>>

\* A channel ends by itself; the agent's also when the connection is dying.
ChannelStops(c) ==
  /\ chan[c] = "open"
  /\ "channelStops" \in Env \/ (Role = "agent" /\ cTomb # "alive")
  /\ chan' = [chan EXCEPT ![c] = "stopping"]
  /\ UNCHANGED <<signalRVars, mainVars, receiveVars, lock, subscribed, closing,
                 inputs, boundVars>>

\* The daemon's datachannel sends CloseDataChannel before it is dead: here
\* "closeChannel" when it was told to close, "stopChannel" when not.
ChannelDies(c) ==
  /\ chan[c] \in {"dying", "stopping"}
  /\ chan' = [chan EXCEPT ![c] = "dead"]
  /\ IF Role = "daemon"
       THEN Submit(IF chan[c] = "dying" THEN "closeChannel" ELSE "stopChannel")
       ELSE UNCHANGED <<queue, nextMsg>>
  /\ UNCHANGED <<signalRVars, pc, cTomb, ready, token, left, receiveVars, lock,
                 subscribed, closing, inputs, Role, announced, invocations, breaks>>

\* Close, from the servers, the control channel or the agent.
Close ==
  /\ "close" \in Env /\ cTomb = "alive"
  /\ Role = "control" \/ ws # "none"
  /\ cTomb' = "dying"
  /\ UNCHANGED <<signalRVars, pc, ready, token, queue, left, receiveVars,
                 brokerVars, boundVars>>

-----------------------------------------------------------------------------
(* The connection node.                                                    *)

Kinds == CASE Role = "daemon"  -> {"close", "data"}
           [] Role = "agent"   -> {"close", "data", "open", "closeChannel"}
           [] Role = "control" -> {"data"}

\* A channel is opened at most once.
Opened(c) ==
  \/ chan[c] # "none"
  \/ \E i \in DOMAIN (inbound \o held) :
       (inbound \o held)[i] = [kind |-> "open", chan |-> c]

Invokes ==
  /\ invocations < MaxInvocations
  /\ \E kind \in Kinds, c \in Channels :
       /\ kind = "open" => ~Opened(c)
       /\ Invocation([kind |-> kind, chan |-> c])
  /\ invocations' = invocations + 1
  /\ UNCHANGED <<mainVars, receiveVars, brokerVars, Role, nextMsg, announced, breaks>>

\* Once per websocket the daemon is told that the agent is connected.
Announces ==
  /\ Role = "daemon" /\ ~announced
  /\ Invocation([kind |-> "connected", chan |-> NoChannel])
  /\ announced' = TRUE
  /\ UNCHANGED <<mainVars, receiveVars, brokerVars, Role, nextMsg, invocations,
                 breaks>>

\* Nothing came for ServerPingTimeout.
PingTimeout ==
  /\ "pingTimeout" \in Env /\ breaks < MaxBreaks
  /\ ReaderEnds(TRUE)
  /\ breaks' = breaks + 1
  /\ UNCHANGED <<mainVars, receiveVars, brokerVars, Role, nextMsg, announced,
                 invocations>>

Breaks ==
  /\ "break" \in Env /\ breaks < MaxBreaks
  /\ Break
  /\ breaks' = breaks + 1
  /\ UNCHANGED <<mainVars, receiveVars, brokerVars, Role, nextMsg, announced,
                 invocations>>

-----------------------------------------------------------------------------
ClientStep(A) == A /\ UNCHANGED connVars

SenderStep == SenderStarts \/ SenderTakes \/ SenderWrites \/ SenderEnds

ReaderStep ==
  \/ ReaderResumes \/ Endgame \/ TombDies
  \/ ReaderEnds(FALSE) \/ EndgameDone(TRUE)

MainStep ==
  \/ Connected \/ ConnectDying \/ WaitOver \/ SelfCloseTimeout
  \/ ClientDone \/ SendNext \/ SendReturns \/ LoopDying
  \/ LockBroker \/ CloseChannels \/ AllClosed \/ Notify \/ CountRemaining
  \/ SendRemaining \/ RemainingReturns \/ RemainingDone
  \/ ClientClose \/ ClientClosed

ReceiveStep ==
  \/ ReceiveConnected \/ ReadyPushed \/ ReceiveClose \/ ReceiveData \/ Route
  \/ Push \/ ReceiveOpen \/ ReceiveCloseChannel \/ CloseOne \/ OneClosed
  \/ IdleCloseOver \/ ReceiveEnds

ChannelStep(c) == ChannelReads(c) \/ ChannelDies(c)

Next ==
  \/ ClientStep(SenderStep) \/ ClientStep(ReaderStep) \/ ClientStep(Completion)
  \/ "serverClose" \in Env /\ ClientStep(ServerCloses)
  \/ MainStep \/ AttemptFails \/ GivesUp \/ WaitTimeout
  \/ ReceiveStep \/ IdleTimer
  \/ \E c \in Channels :
       ChannelStep(c) \/ Subscribe(c) \/ ChannelSends(c) \/ ChannelStops(c)
  \/ Close \/ Invokes \/ Announces \/ Breaks \/ PingTimeout

Spec == Init /\ [][Next]_vars

\* Every goroutine runs.  A select that is offered several ready cases again
\* and again does not pass over the same one for ever.
FairSpec ==
  /\ Spec
  /\ WF_vars(ClientStep(SenderStep)) /\ WF_vars(ClientStep(ReaderStep))
  /\ WF_vars(MainStep) /\ SF_vars(LoopDying) /\ SF_vars(ClientDone)
  /\ WF_vars(ReceiveStep)
  /\ \A c \in Channels : WF_vars(ChannelStep(c))
  /\ \A c \in Channels : WF_vars(Role = "agent" /\ cTomb # "alive"
                                 /\ ChannelStops(c))

-----------------------------------------------------------------------------
(* Properties.                                                             *)

MessageKinds == {"data", "closeChannel", "stopChannel", "closeConnection"}
Messages == [id : Nat, kind : MessageKinds, due : BOOLEAN]
Invocations ==
  [kind : {"connected"}, chan : {NoChannel}]
    \union [kind : {"close", "data", "open", "closeChannel"}, chan : Channels]

SignalRTypeOK ==
  /\ ws \in {"none", "up", "dead"}
  /\ tomb \in {"fresh", "zombie", "alive", "dying", "dead"}
  /\ reason \in {"none", "lost", "normal", "closed"}
  /\ sender \in {"none", "starting", "idle", "busy"}
  /\ reader \in {"none", "loop", "endgame", "full"}
  /\ held \in Seq(Invocations) /\ inbound \in Seq(Invocations)
  /\ tracked \subseteq Nat /\ counter \in Nat
  /\ unanswered \subseteq Nat /\ stale \subseteq Nat
  /\ call \in Seq(Messages) /\ sent \in Seq(Messages)

MainTypeOK ==
  /\ pc \in PCs /\ cTomb \in {"alive", "dying", "dead"}
  /\ ready \in BOOLEAN /\ token \in BOOLEAN
  /\ queue \in Seq(Messages) /\ left \in Nat /\ nextMsg \in Nat

ReceiveTypeOK ==
  /\ rpc \in ReceivePCs /\ target \in Channels \union {NoChannel}
  /\ timerFired \in BOOLEAN
  /\ lock \in {"free", "receive", "main"}
  /\ subscribed \subseteq Channels /\ closing \in Channels \union {NoChannel}
  /\ chan \in [Channels -> ChannelStates] /\ inputs \in [Channels -> Nat]
  /\ Role \in Roles
  /\ announced \in BOOLEAN /\ invocations \in Nat /\ breaks \in Nat

\* Every variable holds what the code's type allows.
TypeOK == SignalRTypeOK /\ MainTypeOK /\ ReceiveTypeOK

\* Over all the websockets of a connection, and in the end through
\* sendRemainingMessages, messages are written in the order in which they were
\* submitted and none is written twice.
SentInOrder ==
  \A i, j \in DOMAIN sent : i < j => sent[i].id < sent[j].id

\* What avengersEndgame waits for is something the server has still to answer:
\* a message that could not be written, or that was written to an earlier
\* websocket, is never waited for.
TrackedIsAwaited ==
  call = <<>> /\ tomb \in {"alive", "dying"} => tracked \subseteq unanswered

\* When the messenger is told to close, everything that was submitted while the
\* connection was alive has been taken from the queue, and so has the notice
\* for the other end.
Flushed ==
  pc \in {"clientClose", "clientWait"} /\ Role # "control" =>
    \A i \in DOMAIN queue : ~queue[i].due /\ queue[i].kind # "closeConnection"

\* The notice that the connection closes comes after the CloseDataChannel of
\* every channel that was closed for it: broker.Close waits for those, though
\* not for one that was dying already or that was opened since.
NotifiedLast ==
  \A i \in DOMAIN sent :
    sent[i].kind = "closeConnection" =>
      \A j \in (i + 1)..Len(sent) : sent[j].kind # "closeChannel"

\* "It is closed from above ... dies": a killed connection comes to its end.
CloseCompletes == cTomb = "dying" ~> cTomb = "dead"

\* The agent's datachannels do not outlive their connection, not even one that
\* is opened after broker.Close has run.
ChannelsDie == (cTomb # "alive") ~> (\A c \in Channels : chan[c] # "open")

-----------------------------------------------------------------------------
(* What comments and tests claim.                                          *)

\* "We always try to reconnect": a messenger that is gone is connected again,
\* or the connection ends.
AlwaysReconnects == tomb = "dead" ~> (tomb # "dead" \/ cTomb = "dead")

\* "It forwards those messages": receive gets a message rid, whatever becomes
\* of the channel it is for.
ReceiveProgresses == rpc = "push" ~> rpc # "push"
=============================================================================
