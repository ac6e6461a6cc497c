---------------------------- MODULE MrtapChannel ----------------------------
(***************************************************************************)
(* One datachannel end to end: the daemon's half (DaemonDataChannel), the  *)
(* agent's half (AgentDataChannel) and what surrounds them.  Between the   *)
(* two are both websockets and BastionZero's connection node, an external  *)
(* relay that keeps messages in order.  A message can be lost: the         *)
(* connections only log an error of client.Send and go on.                 *)
(***************************************************************************)
EXTENDS DaemonDataChannel, AgentDataChannel

CONSTANTS
  Env,          \* what the surroundings do, a subset of EnvKinds
  MaxLosses,    \* bound: messages lost
  MaxExpiries,  \* bound: certificates that expire
  MaxLate       \* bound: stream messages of a mute channel

EnvKinds == {"loseRequest", "loseReply", "expire", "refreshElsewhere",
             "refreshFails", "respond", "pluginFails", "pluginDone", "orphan",
             "stream", "close", "timeout"}

ASSUME EnvAssumption ==
  /\ Env \subseteq EnvKinds /\ MaxLosses \in Nat /\ MaxExpiries \in Nat
  /\ MaxLate \in Nat

VARIABLES
  losses,     \* messages lost so far
  replyLost   \* history: one of them came from the agent

lossVars == <<losses, replyLost>>
vars == <<wireVars, daemonVars, agentVars, lossVars>>

Init ==
  /\ MrtapInit /\ ChannelInit /\ AgentInit(Attach)
  /\ d2a = <<>> /\ losses = 0 /\ replyLost = FALSE

-----------------------------------------------------------------------------
(* The daemon.                                                             *)

DaemonStep(A) == A /\ UNCHANGED <<agentVars, lossVars>>

MainStep ==
  \/ Start("refreshFails" \in Env)
  \/ HandshakeError("refreshFails" \in Env)
  \/ HandshakeAck \/ HandshakeBadMessage \/ HandshakeDying
  \/ ReceiveAck \/ ReceiveError("refreshFails" \in Env)
  \/ ReceiveFatal \/ ReceiveStream
  \/ Die \/ DrainCheck \/ DrainTimeout

TimerStep == HandshakeTimeout \/ IdleTimeout

PluginReturns == ReceiveReturns \/ KillReturns

SenderStep == TakeOutbox \/ SendOrDrop

ZapStep == TakeOutput \/ PipeOutput

-----------------------------------------------------------------------------
(* The agent.                                                              *)

AgentMessage ==
  \/ OpenAccepted(expired)
  \/ /\ \/ "pluginFails" \in Env
        \/ d2a # <<>> /\ Head(d2a).cert <= expired
     /\ OpenRefused(expired)
  \/ SynAccepted(expired, NonceChecked) \/ SynRefused(expired)
  \/ \E resp \in (IF "respond" \in Env THEN BOOLEAN ELSE {FALSE}) :
       DataAccepted(expired, resp)
  \/ "pluginFails" \in Env /\ DataFailed(expired)
  \/ DataRefused(expired)
  \/ Unread

AgentEvent ==
  \/ /\ "stream" \in Env
     /\ \A i \in DOMAIN a2d : a2d[i].type # "Stream"   \* bound: one in flight
     /\ late < MaxLate
     /\ AgentStream
  \/ "pluginDone" \in Env /\ AgentPluginDone
  \/ CloseReceived
  \/ "orphan" \in Env /\ AgentOrphaned

AgentStep(A) == A /\ UNCHANGED <<daemonVars, lossVars>>

-----------------------------------------------------------------------------
(* The surroundings.                                                       *)

LoseRequest ==
  /\ "loseRequest" \in Env /\ losses < MaxLosses
  /\ d2a # <<>>
  /\ d2a' = Tail(d2a)
  /\ losses' = losses + 1
  /\ UNCHANGED <<a2d, daemonVars, agentVars, replyLost>>

LoseReply ==
  /\ "loseReply" \in Env /\ losses < MaxLosses
  /\ a2d # <<>>
  /\ a2d' = Tail(a2d)
  /\ losses' = losses + 1 /\ replyLost' = TRUE
  /\ UNCHANGED <<d2a, daemonVars, agentVars>>

\* The certificate in use expires, at both ends at once.
Expire ==
  /\ "expire" \in Env /\ expired < MaxExpiries
  /\ expired < cert
  /\ expired' = cert
  /\ UNCHANGED <<wireVars, nextId, pipelineMap, outbox, handshakeDone, lastAck,
                 lastAckedData, recovering, attempts, cert, channelVars,
                 agentVars, lossVars>>

-----------------------------------------------------------------------------
Next ==
  \/ DaemonStep(MainStep)
  \/ "timeout" \in Env /\ DaemonStep(TimerStep)
  \/ DaemonStep(SenderStep)
  \/ DaemonStep(ZapStep)
  \/ DaemonStep(PluginOutput) \/ DaemonStep(PluginDone)
  \/ DaemonStep(PluginReturns)
  \/ "close" \in Env /\ DaemonStep(Close)
  \/ "refreshElsewhere" \in Env /\ DaemonStep(SharedRefresh)
  \/ AgentStep(AgentMessage) \/ AgentStep(AgentEvent)
  \/ LoseRequest \/ LoseReply \/ Expire

Spec == Init /\ [][Next]_vars

\* Every goroutine of the two datachannels runs, and what is on the wire is
\* delivered.  A select picks among its ready cases at random, so the case of
\* a dying tomb is not passed over for ever between the calls of the plugin, nor
\* is the 10s timer of the drain.  Nothing is assumed of the plugin's calls: that
\* they return is the premise PluginsReturn.
FairSpec ==
  /\ Spec
  /\ WF_vars(DaemonStep(MainStep))
  /\ WF_vars(DaemonStep(HandshakeDying)) /\ SF_vars(DaemonStep(Die))
  /\ SF_vars(DaemonStep(DrainTimeout))
  /\ WF_vars(DaemonStep(SenderStep)) /\ WF_vars(DaemonStep(ZapStep))
  /\ WF_vars(AgentStep(AgentMessage))

-----------------------------------------------------------------------------
(* Properties.                                                             *)

LossTypeOK == losses \in Nat /\ replyLost \in BOOLEAN

TypeOK ==
  /\ MrtapTypeOK /\ ChannelTypeOK /\ AgentTypeOK
  /\ d2a \in Seq(Requests) /\ a2d \in Seq(Replies) /\ LossTypeOK

\* Whatever is refused, resent or rebuilt, the agent's plugin receives the
\* payloads of the daemon's plugin in order, each at most once, and once it
\* has received one it misses none: the hash chain and the nonce of the
\* SynAck make resend pick up exactly after the last accepted Data.  (When an
\* ack is lost it does not: see NoDuplicate.  Nor when a plugin fails on a Data:
\* the agent has accepted it and never acks it, and while its channel dies it may
\* take what the daemon resends from a place after it.)
DeliveredContiguous ==
  ~replyLost => \A i \in 1..(Len(delivered) - 1) : delivered[i + 1] = delivered[i] + 1

\* The pushes onto outboxQueue, made with stateLock held, never find it full:
\* otherwise sendMrtap, which needs stateLock to go on, could not empty it.
OutboxFits == Len(outbox) <= PipelineLimit

\* zapPluginOutput only logs an error of Inbox and drops the payload.  It
\* never comes to that: a completed handshake leaves something to build on.
InboxCanBuild == handshakeDone => CanBuild(pipelineMap, lastAck)

\* While the channel is not shutting down: once the agent's plugin has
\* received a payload, each later one that zapPluginOutput put into Inbox is
\* delivered or waits in the pipeline to be acked or resent.
NothingForgotten ==
  delivered # <<>> /\ ~dying /\ ~replyLost =>
    \A k \in Head(delivered)..(IF zapHolds THEN taken - 1 ELSE taken) :
      \/ \E i \in DOMAIN delivered : delivered[i] = k
      \/ \E i \in DOMAIN pipelineMap : pipelineMap[i].payload = k

\* A channel whose plugin is done goes on answering into an outputChan that
\* nobody reads, and its forwarder leaves late stream messages in it; the daemon's
\* pipeline limit is what keeps its input goroutine, and with it the whole
\* connection, from blocking on it.  The code has room for 10 and a limit of 8: an
\* answer always finds room as long as one stream message at most came late.
MuteFits ==
  /\ aState = "mute" /\ d2a # <<>> /\ Head(d2a).type \in {"Syn", "Data"}
  /\ late + PipelineLimit < OutputCap
  => OutputRoom

\* The channel is an ordered pipe between the plugins at its two ends.
Pipe == INSTANCE OrderedPipe WITH sent <- produced, received <- delivered
ImplementsPipe == Pipe!PipeSpec

-----------------------------------------------------------------------------
(* What comments of the code claim, and the code does not keep.            *)

\* Recovery brings the daemon back to the state of the agent's hash chain: no
\* payload is lost to it, from the first one on.
NothingLostAtStart == delivered # <<>> => Head(delivered) = 1

\* An ack that was lost is made up for by the nonce of the next SynAck: no
\* payload is handed to the plugin again.
NoDuplicate ==
  \A i, j \in DOMAIN delivered : i # j => delivered[i] # delivered[j]

-----------------------------------------------------------------------------
(* Liveness.                                                               *)

Abandoned == phase = "dead" \/ dying \/ aState # "open"

\* What the channel needs of its plugin: the calls of ReceiveMrtap, ReceiveStream
\* and Kill, which its main goroutine makes, return.
PluginsReturn == []<>(calling = "none")

\* A mispredicted ack is always recovered from: what the plugin produced is
\* delivered unless one of the ends goes away, if the plugin returns from the calls.
EventuallyDelivered ==
  PluginsReturn =>
    \A k \in 1..MaxPayloads :
      (produced >= k) ~>
        (Abandoned \/ \E i \in DOMAIN delivered : delivered[i] = k)

\* Close waits, under the broker's lock, for the main goroutine: whatever it is doing
\* when its tomb is killed (in the handshake, draining, calling the plugin), it
\* returns, if the plugin returns from the calls.  For which plugins Kill does not
\* return is what CloseKills of the module Plugins is about.
CloseReturns == PluginsReturn => (dying ~> phase = "dead")
=============================================================================
