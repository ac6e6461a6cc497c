-------------------------- MODULE AgentDataChannel --------------------------
(***************************************************************************)
(* The agent's end of one datachannel: bctl/agent/mrtap/mrtap.go, which    *)
(* validates the hash chain, and bctl/agent/datachannel/datachannel.go,    *)
(* which runs the plugin.  All MrTAP messages are handled by one goroutine *)
(* in the order of the wire, so each is one step; inputChan and outputChan *)
(* are part of d2a and a2d.                                                *)
(***************************************************************************)
EXTENDS MrtapMessage

CONSTANT OutputCap   \* capacity of outputChan

ASSUME OutputAssumption == OutputCap \in Nat

VARIABLES
  aState,      \* "none": no running channel; "open"; "closed": tomb dead;
               \* "mute": the plugin is done and nobody reads outputChan
  clientCert,  \* generation of clientBZCert
  lastData,    \* hash of lastDataMessage, NoHash for nil
  expected,    \* expectedHPointer
  queued,      \* answers left in outputChan of a mute channel
  late,        \* stream messages left in it
  delivered    \* history: the payloads plugin.Receive was called with

agentVars == <<aState, clientCert, lastData, expected, queued, late, delivered>>

\* A daemon may attach to a channel that an earlier daemon opened; Data number
\* 1 was its last one and the ack of it may still be on its way.
AgentInit(attach) ==
  /\ aState = IF attach THEN "open" ELSE "none"
  /\ clientCert = IF attach THEN 1 ELSE 0
  /\ lastData = IF attach THEN 1 ELSE NoHash
  /\ expected = AckHash(lastData, FALSE)
  /\ queued = 0 /\ late = 0 /\ delivered = <<>>
  /\ a2d \in IF attach THEN {<<>>, <<DataAckMsg(1, FALSE)>>} ELSE {<<>>}

\* send: outputChan is emptied onto the wire by the channel's main goroutine,
\* which has returned when the channel is mute: the sender waits for room.
OutputRoom == queued + late < OutputCap

Reply(msg) ==
  IF aState = "mute"
    THEN OutputRoom /\ queued' = queued + 1 /\ UNCHANGED <<a2d, late>>
    ELSE a2d' = Append(a2d, msg) /\ UNCHANGED <<queued, late>>

Listening == aState \in {"open", "mute"}

-----------------------------------------------------------------------------
(* OpenDataChannel: a new datachannel with a new hash chain replaces what  *)
(* was subscribed under the id.                                            *)

OpenReceived == d2a # <<>> /\ Head(d2a).type = "Open" /\ d2a' = Tail(d2a)

OpenAccepted(expired) ==
  /\ OpenReceived
  /\ Head(d2a).cert > expired
  /\ aState' = "open"
  /\ clientCert' = Head(d2a).cert
  /\ lastData' = NoHash
  /\ expected' = AckHash(Head(d2a).id, FALSE)
  /\ queued' = 0 /\ late' = 0
  /\ a2d' = Append(a2d, SynAckMsg(Head(d2a).id, NoHash))
  /\ UNCHANGED delivered

\* The Syn does not validate, or the plugin cannot be started: New flushes
\* the error and fails; what it subscribed reads no messages.
OpenRefused(expired) ==
  /\ OpenReceived
  /\ aState' = "none"
  /\ a2d' = Append(a2d, IF Head(d2a).cert <= expired
                          THEN ErrorMsg(Head(d2a).id)
                          ELSE FatalMsg(Head(d2a).id))
  /\ UNCHANGED <<clientCert, lastData, expected, queued, late, delivered>>

-----------------------------------------------------------------------------
(* handleMrtapMessage on a Syn: attach or recovery.  nonceSet: the agent   *)
(* answers with the hash of the last Data it accepted; older agents do not.*)

SynReceived ==
  /\ Listening /\ d2a # <<>> /\ Head(d2a).type = "Syn" /\ d2a' = Tail(d2a)

SynAccepted(expired, nonceSet) ==
  /\ SynReceived
  /\ Head(d2a).cert > expired
  /\ clientCert' = Head(d2a).cert
  /\ expected' = AckHash(Head(d2a).id, FALSE)
  /\ Reply(SynAckMsg(Head(d2a).id, IF nonceSet THEN lastData ELSE NoHash))
  /\ UNCHANGED <<aState, lastData, delivered>>

SynRefused(expired) ==
  /\ SynReceived
  /\ Head(d2a).cert <= expired
  /\ Reply(ErrorMsg(Head(d2a).id))
  /\ UNCHANGED <<aState, clientCert, lastData, expected, delivered>>

-----------------------------------------------------------------------------
(* handleMrtapMessage on a Data.                                           *)

DataReceived ==
  /\ Listening /\ d2a # <<>> /\ Head(d2a).type = "Data" /\ d2a' = Tail(d2a)

\* Faulty variant: the hash pointer is not compared.
ValidDataAnyPointer(msg, expired) ==
  /\ msg.cert = clientCert
  /\ clientCert > expired

ValidData(msg, expired) ==
  /\ msg.cert = clientCert
  /\ clientCert > expired
  /\ msg.hp = expected

\* The plugin takes the payload and answers with a response (resp) or none.
DataAccepted(expired, resp) ==
  /\ DataReceived
  /\ ValidData(Head(d2a), expired)
  /\ lastData' = Head(d2a).id
  /\ expected' = AckHash(Head(d2a).id, resp)
  /\ delivered' = Append(delivered, Head(d2a).payload)
  /\ Reply(DataAckMsg(Head(d2a).id, resp))
  /\ UNCHANGED <<aState, clientCert>>

\* The plugin fails on the payload: the chain has moved on, no ack is built.
DataFailed(expired) ==
  /\ DataReceived
  /\ ValidData(Head(d2a), expired)
  /\ lastData' = Head(d2a).id
  /\ delivered' = Append(delivered, Head(d2a).payload)
  /\ Reply(FatalMsg(Head(d2a).id))
  /\ UNCHANGED <<aState, clientCert, expected>>

DataRefused(expired) ==
  /\ DataReceived
  /\ ~ValidData(Head(d2a), expired)
  /\ Reply(ErrorMsg(Head(d2a).id))
  /\ UNCHANGED <<aState, clientCert, lastData, expected, delivered>>

\* The connection has no channel that reads messages under this id.
Unread ==
  /\ ~Listening /\ d2a # <<>> /\ Head(d2a).type \in {"Syn", "Data"}
  /\ d2a' = Tail(d2a)
  /\ UNCHANGED <<a2d, agentVars>>

-----------------------------------------------------------------------------
(* The plugin streams output beside the acks.  The goroutine of startPlugin *)
(* forwards it until the tomb dies, to a mute channel too.                 *)
AgentStream ==
  /\ Listening
  /\ IF aState = "mute"
       THEN OutputRoom /\ late' = late + 1 /\ UNCHANGED a2d
       ELSE a2d' = Append(a2d, StreamMsg) /\ UNCHANGED late
  /\ UNCHANGED <<d2a, aState, clientCert, lastData, expected, queued, delivered>>

\* The plugin is done: the main goroutine returns nil after a flush, which
\* does not kill the tomb while the input goroutine is alive.
AgentPluginDone ==
  /\ aState = "open"
  /\ aState' = "mute"
  /\ UNCHANGED <<wireVars, clientCert, lastData, expected, queued, late, delivered>>

\* CloseDataChannel is handled by the connection: it overtakes the messages
\* that wait in inputChan.
CloseReceived ==
  /\ \E i \in DOMAIN d2a :
       d2a[i].type = "Close" /\ d2a' = SubSeq(d2a, i + 1, Len(d2a))
  /\ aState' = IF aState = "none" THEN "none" ELSE "closed"
  /\ UNCHANGED <<a2d, clientCert, lastData, expected, queued, late, delivered>>

\* The agent's connection dies or closes all its channels.
AgentOrphaned ==
  /\ Listening
  /\ aState' = "closed"
  /\ UNCHANGED <<wireVars, clientCert, lastData, expected, queued, late, delivered>>

-----------------------------------------------------------------------------
AgentTypeOK ==
  /\ aState \in {"none", "open", "mute", "closed"}
  /\ clientCert \in Nat /\ lastData \in Nat /\ expected \in AckHashes
  /\ queued \in Nat /\ late \in Nat /\ delivered \in Seq(Nat)
=============================================================================
