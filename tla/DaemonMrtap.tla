---------------------------- MODULE DaemonMrtap -----------------------------
(***************************************************************************)
(* The daemon's end of the MrTAP hash chain (bctl/daemon/mrtap/mrtap.go).  *)
(* Every operation below runs under stateLock, so each is one atomic step. *)
(* A push onto outboxQueue happens with the lock held and blocks when the  *)
(* queue holds maxPipelineLimit messages; outbox is unbounded here, and    *)
(* the invariant OutboxFits of MrtapChannel shows that no push blocks.     *)
(***************************************************************************)
EXTENDS MrtapMessage, SequencesExt

CONSTANTS
  PipelineLimit,   \* maxPipelineLimit, and the capacity of outboxQueue
  MaxRecoveries,   \* maxErrorRecoveryTries
  AgentVersion     \* schema version of the SynAck: "1", "2.0" or "2.1+"

ASSUME MrtapAssumption ==
  /\ PipelineLimit \in Nat \ {0}
  /\ MaxRecoveries \in Nat
  /\ AgentVersion \in {"1", "2.0", "2.1+"}

VARIABLES
  nextId,          \* id (hash) of the next message the daemon builds
  pipelineMap,     \* ordered map of the messages sent and not yet acked
  outbox,          \* outboxQueue
  handshakeDone,   \* isHandshakeComplete
  lastAck,         \* hash of the last ack received, NoAck for nil
  lastAckedData,   \* hash of the last Data acked, NoHash for nil
  recovering,
  attempts,        \* errorRecoveryAttempt
  cert,            \* generation of the BZCert all channels of the daemon share
  expired          \* every generation up to this one has expired

mrtapVars == <<nextId, pipelineMap, outbox, handshakeDone, lastAck,
               lastAckedData, recovering, attempts, cert, expired>>

\* The version checks of Validate and resend.  An agent before 2.0 does not
\* pipeline; one that is not past 2.0 puts no usable nonce in its SynAck.
Limit == IF AgentVersion = "1" THEN 1 ELSE PipelineLimit
NonceChecked == AgentVersion = "2.1+"
ErrorVersioned == AgentVersion # "1"

Ids(msgs) == {msgs[i].id : i \in DOMAIN msgs}
IndexOf(msgs, id) == CHOOSE i \in DOMAIN msgs : msgs[i].id = id
Without(msgs, id) == RemoveAt(msgs, IndexOf(msgs, id))

MrtapInit ==
  /\ nextId = 2 /\ pipelineMap = <<>> /\ outbox = <<>>
  /\ handshakeDone = FALSE /\ recovering = FALSE
  /\ lastAck = NoAck /\ lastAckedData = NoHash
  /\ attempts = 0
  /\ cert = 1 /\ expired = 0

-----------------------------------------------------------------------------
(* bzcert.Refresh: the zli is asked for a new certificate only when the    *)
(* current one has expired.                                                *)
RefreshedCert == IF cert <= expired THEN cert + 1 ELSE cert

\* Faulty variant: the handshake is not marked as pending again.
BuildSynKeepsHandshake(send) ==
  LET syn == SynMsg(nextId, RefreshedCert) IN
  /\ lastAck' = NoAck
  /\ cert' = RefreshedCert
  /\ nextId' = nextId + 1
  /\ pipelineMap' = Append(pipelineMap, syn)
  /\ outbox' = IF send THEN Append(outbox, syn) ELSE outbox
  /\ UNCHANGED <<handshakeDone, lastAckedData, expired>>

\* buildSyn when the certificate is valid or could be refreshed.  The Syn
\* joins the pipeline map; with send it is queued too, otherwise the caller
\* puts it into an OpenDataChannel message.
BuildSyn(send) ==
  LET syn == SynMsg(nextId, RefreshedCert) IN
  /\ handshakeDone' = FALSE
  /\ lastAck' = NoAck
  /\ cert' = RefreshedCert
  /\ nextId' = nextId + 1
  /\ pipelineMap' = Append(pipelineMap, syn)
  /\ outbox' = IF send THEN Append(outbox, syn) ELSE outbox
  /\ UNCHANGED <<lastAckedData, expired>>

\* buildSyn when Refresh fails: the handshake state is already reset.
BuildSynFails ==
  /\ cert <= expired
  /\ handshakeDone' = FALSE
  /\ lastAck' = NoAck
  /\ UNCHANGED <<nextId, pipelineMap, outbox, lastAckedData, cert, expired>>

-----------------------------------------------------------------------------
(* pipeline: the hash the next Data must point to.  With messages in the   *)
(* pipeline the ack of the newest is predicted, with an empty response.    *)

\* Faulty variant: the predicted ack does not say which message it answers.
NextHPointerUnset(map, ack) == IF map = <<>> THEN ack ELSE [resp |-> FALSE]

NextHPointer(map, ack) ==
  IF map = <<>> THEN ack ELSE AckHash(Last(map).id, FALSE)

\* buildResponse fails with no ack to build off, or when the newest message
\* is a Syn (no DataAck can be predicted for it).
CanBuild(map, ack) ==
  IF map = <<>> THEN ack # NoAck ELSE Last(map).type = "Data"

\* Faulty variant: the pipeline limit is not waited for.
InboxUnlimited(payload) ==
  LET data == DataMsg(nextId, cert, NextHPointer(pipelineMap, lastAck), payload)
  IN
  /\ handshakeDone
  /\ CanBuild(pipelineMap, lastAck)
  /\ pipelineMap' = Append(pipelineMap, data)
  /\ outbox' = Append(outbox, data)
  /\ nextId' = nextId + 1
  /\ UNCHANGED <<handshakeDone, lastAck, lastAckedData, recovering, attempts,
                 cert, expired>>

\* Inbox once its wait is over; a build failure only logs, the payload is gone.
Inbox(payload) ==
  LET data == DataMsg(nextId, cert, NextHPointer(pipelineMap, lastAck), payload)
  IN
  /\ Len(pipelineMap) < Limit
  /\ handshakeDone
  /\ IF CanBuild(pipelineMap, lastAck)
       THEN /\ pipelineMap' = Append(pipelineMap, data)
            /\ outbox' = Append(outbox, data)
            /\ nextId' = nextId + 1
       ELSE UNCHANGED <<pipelineMap, outbox, nextId>>
  /\ UNCHANGED <<handshakeDone, lastAck, lastAckedData, recovering, attempts,
                 cert, expired>>

-----------------------------------------------------------------------------
(* resend: which messages of the old map have to be built again, given the *)
(* nonce of the SynAck (the hash of the last Data the agent accepted).     *)

\* Faulty variants: also resend the message the nonce refers to; resend nothing
\* when the nonce refers to a message already acked.
ToResendInclusive(map, nonce) ==
  IF nonce \in Ids(map)
    THEN SubSeq(map, IndexOf(map, nonce), Len(map))
    ELSE IF NonceChecked /\ (lastAckedData = NoHash \/ nonce # lastAckedData)
           THEN <<>>
           ELSE map

ToResendUnackedOnly(map, nonce) ==
  IF nonce \in Ids(map)
    THEN SubSeq(map, IndexOf(map, nonce) + 1, Len(map)) ELSE <<>>

ToResend(map, nonce) ==
  IF nonce \in Ids(map)
    THEN SubSeq(map, IndexOf(map, nonce) + 1, Len(map))
    ELSE IF NonceChecked /\ (lastAckedData = NoHash \/ nonce # lastAckedData)
           THEN <<>>
           ELSE map

\* The messages rebuilt, each off the predicted ack of the one before it.
Rebuilt(msgs, ack) ==
  [i \in DOMAIN msgs |->
     DataMsg(nextId + i - 1, cert,
             IF i = 1 THEN ack ELSE AckHash(nextId + i - 2, FALSE),
             msgs[i].payload)]

\* Faulty variant: recovery is never over.
ValidateSynAckStillRecovering(msg) ==
  LET ack  == AckHash(msg.of, msg.resp)
      data == Rebuilt(ToResend(Without(pipelineMap, msg.of), msg.nonce), ack)
  IN
  /\ msg.type = "SynAck"
  /\ msg.of \in Ids(pipelineMap)
  /\ lastAck' = ack
  /\ handshakeDone' = TRUE
  /\ pipelineMap' = data
  /\ outbox' = outbox \o data
  /\ nextId' = nextId + Len(data)
  /\ UNCHANGED <<recovering, lastAckedData, attempts, cert, expired>>

\* Validate on a SynAck that answers a Syn of the map.
ValidateSynAck(msg) ==
  LET ack  == AckHash(msg.of, msg.resp)
      data == Rebuilt(ToResend(Without(pipelineMap, msg.of), msg.nonce), ack)
  IN
  /\ msg.type = "SynAck"
  /\ msg.of \in Ids(pipelineMap)
  /\ lastAck' = ack
  /\ recovering' = FALSE
  /\ handshakeDone' = TRUE
  /\ pipelineMap' = data
  /\ outbox' = outbox \o data
  /\ nextId' = nextId + Len(data)
  /\ UNCHANGED <<lastAckedData, attempts, cert, expired>>

\* Validate on a DataAck that answers a message of the map.
ValidateDataAck(msg) ==
  /\ msg.type = "DataAck"
  /\ msg.of \in Ids(pipelineMap)
  /\ lastAck' = AckHash(msg.of, msg.resp)
  /\ lastAckedData' = msg.of
  /\ pipelineMap' = Without(pipelineMap, msg.of)
  /\ attempts' = 0
  /\ UNCHANGED <<nextId, outbox, handshakeDone, recovering, cert, expired>>

\* Validate on an ack whose hpointer is not in the map: ErrUnknownHPointer.
Unknown(msg) ==
  /\ msg.type \in {"SynAck", "DataAck"}
  /\ msg.of \notin Ids(pipelineMap)

-----------------------------------------------------------------------------
(* Recover.  An error that names no message of ours, or that arrives while *)
(* we recover, is dropped; unversioned errors skip that test.              *)
IgnoresError(msg) ==
  ErrorVersioned /\ (recovering \/ msg.of \notin Ids(pipelineMap))

RecoveriesExhausted == attempts >= MaxRecoveries

StartRecovery ==
  /\ ~RecoveriesExhausted
  /\ attempts' = attempts + 1
  /\ recovering' = TRUE
  /\ BuildSyn(TRUE)

RecoveryFails ==
  /\ ~RecoveriesExhausted
  /\ attempts' = attempts + 1
  /\ recovering' = TRUE
  /\ BuildSynFails

-----------------------------------------------------------------------------
FlagsOK == handshakeDone \in BOOLEAN /\ recovering \in BOOLEAN

MrtapTypeOK ==
  /\ FlagsOK
  /\ nextId \in Nat /\ cert \in Nat /\ expired \in Nat /\ attempts \in Nat
  /\ pipelineMap \in Seq(Requests) /\ outbox \in Seq(Requests)
  /\ lastAck \in AckHashes /\ lastAckedData \in Nat
=============================================================================
