------------------------- MODULE MrtapChannelProofs -------------------------
(***************************************************************************)
(* Proofs about MrtapChannel, for every value of the constants: first what *)
(* is true of the messages under way, then that the hash chain makes the   *)
(* channel an ordered pipe, and last what a mute channel leaves unread.    *)
(***************************************************************************)
EXTENDS MrtapChannel, SequenceTheorems, TLAPS

-----------------------------------------------------------------------------
(* Sequences of messages.                                                  *)

\* Taking one message out of a sequence leaves messages of the sequence.
LEMMA RemoveAtKeeps ==
  ASSUME NEW S, NEW s \in Seq(S), NEW i \in DOMAIN s
  PROVE  /\ RemoveAt(s, i) \in Seq(S)
         /\ Len(RemoveAt(s, i)) = Len(s) - 1
         /\ \A j \in DOMAIN RemoveAt(s, i) :
              \E k \in DOMAIN s : RemoveAt(s, i)[j] = s[k]
  <1>. DEFINE a == SubSeq(s, 1, i - 1)
              b == SubSeq(s, i + 1, Len(s))
  <1>1. /\ a \in Seq(S) /\ Len(a) = i - 1
        /\ \A j \in 1..(i - 1) : a[j] = s[j]
    OBVIOUS
  <1>2. /\ b \in Seq(S) /\ Len(b) = Len(s) - i
        /\ \A j \in 1..(Len(s) - i) : b[j] = s[j + i]
    OBVIOUS
  <1>3. RemoveAt(s, i) = a \o b
    BY DEF RemoveAt
  <1>. HIDE DEF a, b
  <1>4. /\ a \o b \in Seq(S) /\ Len(a \o b) = Len(s) - 1
        /\ \A j \in 1..Len(a \o b) :
             (a \o b)[j] = IF j <= Len(a) THEN a[j] ELSE b[j - Len(a)]
    BY <1>1, <1>2
  <1>5. ASSUME NEW j \in 1..Len(a \o b)
        PROVE  \E k \in DOMAIN s : (a \o b)[j] = s[k]
    <2>1. CASE j <= Len(a)
      BY <1>1, <1>4, <2>1
    <2>2. CASE j > Len(a)
      <3>1. j - Len(a) \in 1..(Len(s) - i)
        BY <1>1, <1>2, <1>4, <2>2
      <3>2. (a \o b)[j] = s[j - Len(a) + i]
        <4>1. (a \o b)[j] = b[j - Len(a)]
          <5>1. ~(j <= Len(a))
            BY <1>1, <2>2
          <5>. QED  BY <1>4, <5>1
        <4>. QED  BY <1>2, <3>1, <4>1
      <3>3. j - Len(a) + i \in DOMAIN s
        <4>1. Len(s) \in Nat /\ DOMAIN s = 1..Len(s) /\ Len(a) \in Nat
          BY <1>1
        <4>. QED  BY <3>1, <4>1
      <3>. QED  BY <3>2, <3>3
    <2>. QED  BY <1>1, <2>1, <2>2
  <1>6. DOMAIN (a \o b) = 1..Len(a \o b)
    BY <1>4
  <1>. QED  BY <1>3, <1>4, <1>5, <1>6

\* IndexOf finds a message that is there.
LEMMA IndexOfIsIndex ==
  ASSUME NEW s, NEW id \in Ids(s)
  PROVE  IndexOf(s, id) \in DOMAIN s /\ s[IndexOf(s, id)].id = id
  BY DEF Ids, IndexOf

-----------------------------------------------------------------------------
(* The messages the two ends build.                                        *)

\* The constructors of MrtapMessage build requests, replies and hashes.
LEMMA BuiltMessages ==
  ASSUME NEW id \in Nat, NEW c \in Nat, NEW hp \in AckHashes,
         NEW payload \in Nat, NEW nonce \in Nat, NEW resp \in BOOLEAN
  PROVE  /\ SynMsg(id, c) \in Requests
         /\ OpenMsg(SynMsg(id, c)) \in Requests
         /\ DataMsg(id, c, hp, payload) \in Requests
         /\ CloseMsg \in Requests
         /\ SynAckMsg(id, nonce) \in Replies
         /\ DataAckMsg(id, resp) \in Replies
         /\ ErrorMsg(id) \in Replies /\ FatalMsg(id) \in Replies
         /\ StreamMsg \in Replies
         /\ AckHash(id, resp) \in AckHashes /\ NoAck \in AckHashes
  BY DEF SynMsg, OpenMsg, DataMsg, CloseMsg, SynAckMsg, DataAckMsg, ErrorMsg,
         FatalMsg, StreamMsg, AckHash, NoAck, NoHash, Requests, Replies,
         AckHashes

\* What resend builds again is a run of the old pipeline.
LEMMA ToResendKeeps ==
  ASSUME NEW map \in Seq(Requests), NEW nonce
  PROVE  ToResend(map, nonce) \in Seq(Requests)
  <1>1. CASE nonce \in Ids(map)
    <2>1. IndexOf(map, nonce) \in 1..Len(map)
      BY <1>1, IndexOfIsIndex
    <2>. QED  BY <1>1, <2>1 DEF ToResend
  <1>2. CASE nonce \notin Ids(map)
    BY <1>2 DEF ToResend
  <1>. QED  BY <1>1, <1>2

\* The rebuilt messages are Data with fresh ids.
LEMMA RebuiltIsData ==
  ASSUME MrtapTypeOK, NEW msgs \in Seq(Requests), NEW ack \in AckHashes
  PROVE  /\ Rebuilt(msgs, ack) \in Seq(Requests)
         /\ Len(Rebuilt(msgs, ack)) = Len(msgs)
         /\ \A i \in DOMAIN Rebuilt(msgs, ack) :
              /\ Rebuilt(msgs, ack)[i].type = "Data"
              /\ Rebuilt(msgs, ack)[i].id \in Nat
              /\ Rebuilt(msgs, ack)[i].id >= nextId
  <1>. DEFINE n == Len(msgs)
              r == Rebuilt(msgs, ack)
              m(i) == DataMsg(nextId + i - 1, cert,
                        IF i = 1 THEN ack ELSE AckHash(nextId + i - 2, FALSE),
                        msgs[i].payload)
  <1>1. n \in Nat /\ DOMAIN msgs = 1..n
    OBVIOUS
  <1>2. r = [i \in 1..n |-> m(i)]
    BY <1>1 DEF Rebuilt
  <1>3. ASSUME NEW i \in 1..n
        PROVE  /\ m(i) \in Requests /\ m(i).type = "Data"
               /\ m(i).id \in Nat /\ m(i).id >= nextId
    <2>1. nextId \in Nat /\ cert \in Nat
      BY DEF MrtapTypeOK
    <2>2. nextId + i - 1 \in Nat /\ nextId + i - 1 >= nextId
      BY <1>1, <1>3, <2>1
    <2>3. msgs[i].payload \in Nat
      <3>1. msgs[i] \in Requests
        BY <1>1, <1>3
      <3>. QED  BY <3>1 DEF Requests
    <2>4. (IF i = 1 THEN ack ELSE AckHash(nextId + i - 2, FALSE)) \in AckHashes
      <3>1. CASE i = 1
        BY <3>1
      <3>2. CASE i # 1
        <4>1. nextId + i - 2 \in Nat
          BY <1>1, <1>3, <2>1, <3>2
        <4>. QED  BY <3>2, <4>1 DEF AckHash, AckHashes
      <3>. QED  BY <3>1, <3>2
    <2>5. m(i) \in Requests
      BY <2>1, <2>2, <2>3, <2>4, BuiltMessages
    <2>. QED  BY <2>2, <2>5 DEF DataMsg
  <1>. HIDE DEF m
  <1>4. r \in Seq(Requests) /\ Len(r) = n /\ DOMAIN r = 1..n
    BY <1>1, <1>2, <1>3
  <1>5. \A i \in DOMAIN r : r[i] = m(i)
    BY <1>2, <1>4
  <1>. QED  BY <1>3, <1>4, <1>5
-----------------------------------------------------------------------------
(* The operations of the daemon's Mrtap keep its types.                    *)

\* buildSyn, whether or not the certificate can be refreshed.
LEMMA BuildSynTypes ==
  ASSUME MrtapTypeOK, NEW send \in BOOLEAN,
         BuildSyn(send) \/ BuildSynFails,
         FlagsOK', attempts' \in Nat
  PROVE  MrtapTypeOK' /\ SynMsg(nextId, RefreshedCert) \in Requests
  <1>1. nextId \in Nat /\ RefreshedCert \in Nat /\ NoAck \in AckHashes
    BY DEF MrtapTypeOK, RefreshedCert, NoAck, AckHash, AckHashes, NoHash
  <1>2. SynMsg(nextId, RefreshedCert) \in Requests
    BY <1>1 DEF SynMsg, NoAck, AckHash, AckHashes, NoHash, Requests
  <1>3. CASE BuildSyn(send)
    <2>1. /\ lastAck' = NoAck /\ cert' = RefreshedCert /\ nextId' = nextId + 1
          /\ pipelineMap' = Append(pipelineMap, SynMsg(nextId, RefreshedCert))
          /\ UNCHANGED <<lastAckedData, expired>>
      BY <1>3 DEF BuildSyn
    <2>2. \/ outbox' = Append(outbox, SynMsg(nextId, RefreshedCert))
          \/ outbox' = outbox
      BY Zenon, <1>3 DEF BuildSyn
    <2>. QED  BY SMTT(30), <1>1, <1>2, <2>1, <2>2 DEF MrtapTypeOK
  <1>4. CASE BuildSynFails
    <2>1. /\ lastAck' = NoAck
          /\ UNCHANGED <<nextId, pipelineMap, outbox, lastAckedData, cert,
                         expired>>
      BY Zenon, <1>4 DEF BuildSynFails
    <2>. QED  BY <1>1, <1>2, <2>1 DEF MrtapTypeOK
  <1>. QED  BY <1>2, <1>3, <1>4

\* Validate, on an ack of a message of the pipeline.
LEMMA ValidateTypes ==
  ASSUME MrtapTypeOK, NEW msg \in Replies,
         ValidateSynAck(msg) \/ ValidateDataAck(msg)
  PROVE  MrtapTypeOK'
  <1>. DEFINE ack == AckHash(msg.of, msg.resp)
              left == Without(pipelineMap, msg.of)
              data == Rebuilt(ToResend(left, msg.nonce), ack)
  <1>1. msg.of \in Nat /\ msg.resp \in BOOLEAN /\ ack \in AckHashes
    BY DEF Replies, AckHash, AckHashes
  <1>2. msg.of \in Ids(pipelineMap)
    BY DEF ValidateSynAck, ValidateDataAck
  <1>3. left \in Seq(Requests)
    BY <1>2, IndexOfIsIndex, RemoveAtKeeps DEF Without, MrtapTypeOK
  <1>4. CASE ValidateSynAck(msg)
    <2>1. data \in Seq(Requests)
      BY <1>1, <1>3, ToResendKeeps, RebuiltIsData
    <2>. HIDE DEF data, ack
    <2>2. /\ lastAck' = ack /\ recovering' = FALSE /\ handshakeDone' = TRUE
          /\ pipelineMap' = data /\ outbox' = outbox \o data
          /\ nextId' = nextId + Len(data)
          /\ UNCHANGED <<lastAckedData, attempts, cert, expired>>
      BY <1>4 DEF ValidateSynAck, data, ack
    <2>3. FlagsOK'
      BY Zenon, <2>2 DEF FlagsOK
    <2>. QED  BY <1>1, <2>1, <2>2, <2>3 DEF MrtapTypeOK
  <1>5. CASE ValidateDataAck(msg)
    <2>1. FlagsOK'
      BY Zenon, <1>5 DEF ValidateDataAck, FlagsOK, MrtapTypeOK
    <2>. QED  BY <1>1, <1>3, <1>5, <2>1 DEF MrtapTypeOK, ValidateDataAck
  <1>. QED  BY <1>4, <1>5

\* Inbox, whether or not the Data can be built.
LEMMA InboxTypes ==
  ASSUME MrtapTypeOK, NEW payload \in Nat, Inbox(payload)
  PROVE  MrtapTypeOK'
  <1>. DEFINE hp == NextHPointer(pipelineMap, lastAck)
              data == DataMsg(nextId, cert, hp, payload)
  <1>1. hp \in AckHashes
    <2>1. CASE pipelineMap = <<>>
      BY <2>1 DEF NextHPointer, MrtapTypeOK
    <2>2. CASE pipelineMap # <<>>
      <3>1. Last(pipelineMap) \in Requests
        BY <2>2 DEF MrtapTypeOK, Last
      <3>2. Last(pipelineMap).id \in Nat
        BY <3>1 DEF Requests
      <3>. QED  BY <2>2, <3>2 DEF NextHPointer, AckHash, AckHashes
    <2>. QED  BY <2>1, <2>2
  <1>2. data \in Requests
    BY <1>1 DEF DataMsg, Requests, MrtapTypeOK
  <1>. HIDE DEF data
  <1>3. \/ /\ pipelineMap' = Append(pipelineMap, data)
           /\ outbox' = Append(outbox, data)
           /\ nextId' = nextId + 1
        \/ UNCHANGED <<pipelineMap, outbox, nextId>>
    BY DEF Inbox, data
  <1>4. UNCHANGED <<lastAck, lastAckedData, attempts, cert, expired>>
    BY DEF Inbox
  <1>5. FlagsOK'
    BY Zenon DEF Inbox, FlagsOK, MrtapTypeOK
  <1>6. /\ pipelineMap' \in Seq(Requests) /\ outbox' \in Seq(Requests)
        /\ nextId' \in Nat
    <2>1. CASE UNCHANGED <<pipelineMap, outbox, nextId>>
      BY <2>1 DEF MrtapTypeOK
    <2>2. CASE /\ pipelineMap' = Append(pipelineMap, data)
               /\ outbox' = Append(outbox, data)
               /\ nextId' = nextId + 1
      BY <1>2, <2>2 DEF MrtapTypeOK
    <2>. QED  BY <1>3, <2>1, <2>2
  <1>. QED  BY <1>4, <1>5, <1>6 DEF MrtapTypeOK

-----------------------------------------------------------------------------
(* Type correctness.                                                       *)

\* The head and the tail of what is on the wire, in the outbox or in hand.
LEMMA HeadAndTail ==
  ASSUME NEW S, NEW q \in Seq(S), q # <<>>
  PROVE  Head(q) \in S /\ Tail(q) \in Seq(S)
  OBVIOUS

\* SendSyn and StartFails, the two outcomes of start.
LEMMA StartTypes ==
  ASSUME TypeOK, SendSyn \/ StartFails
  PROVE  /\ MrtapTypeOK' /\ d2a' \in Seq(Requests)
         /\ phase' \in Phases /\ exit' \in Exits
  <1>1. MrtapTypeOK' /\ SynMsg(nextId, RefreshedCert) \in Requests
    <2>1. BuildSyn(Attach) \/ BuildSynFails
      BY DEF SendSyn, StartFails
    <2>2. attempts' \in Nat
      BY DEF SendSyn, StartFails, TypeOK, MrtapTypeOK
    <2>3. FlagsOK'
      BY Zenon DEF SendSyn, StartFails, BuildSyn, BuildSynFails, TypeOK,
                   MrtapTypeOK, FlagsOK
    <2>. QED  BY <2>1, <2>2, <2>3, BuildSynTypes, ChannelAssumption
              DEF TypeOK
  <1>2. /\ CloseMsg \in Requests
        /\ OpenMsg(SynMsg(nextId, RefreshedCert)) \in Requests
    <2>1. nextId \in Nat /\ RefreshedCert \in Nat
      BY DEF TypeOK, MrtapTypeOK, RefreshedCert
    <2>. QED  BY <2>1 DEF CloseMsg, OpenMsg, SynMsg, NoAck, NoHash, AckHash,
                        AckHashes, Requests
  <1>3. d2a' \in Seq(Requests)
    BY SMTT(30), <1>2 DEF SendSyn, StartFails, Return, TypeOK
  <1>4. phase' \in Phases /\ exit' \in Exits
    BY DEF SendSyn, StartFails, Return, TypeOK, ChannelTypeOK, Phases, Exits
  <1>. QED  BY <1>1, <1>3, <1>4

\* Every step of the daemon's main goroutine.
LEMMA MainTypes ==
  ASSUME TypeOK, DaemonStep(MainStep)
  PROVE  TypeOK'
  <1>. USE DEF TypeOK
  <1>0. UNCHANGED <<agentVars, lossVars>>
    BY DEF DaemonStep
  <1>1. AgentTypeOK' /\ LossTypeOK'
    BY <1>0 DEF LossTypeOK, lossVars, AgentTypeOK, agentVars
  <1>2. CloseMsg \in Requests
    BY DEF CloseMsg, NoAck, NoHash, AckHash, AckHashes, Requests
  <1>3. a2d # <<>> => Head(a2d) \in Replies /\ Tail(a2d) \in Seq(Replies)
    BY HeadAndTail
  <1>4. ASSUME NEW b \in BOOLEAN, Start(b)  PROVE TypeOK'
    <2>1. SendSyn \/ StartFails
      BY <1>4 DEF Start
    <2>. QED  BY <1>1, <1>4, <2>1, StartTypes DEF Start, ChannelTypeOK
  <1>5. ASSUME NEW b \in BOOLEAN, HandshakeError(b)  PROVE TypeOK'
    <2>1. CASE SendSyn \/ StartFails
      BY <1>1, <1>3, <1>5, <2>1, StartTypes DEF HandshakeError, ChannelTypeOK
    <2>2. CASE Return("synRejected") /\ UNCHANGED <<retries, mrtapVars>>
      BY <1>1, <1>2, <1>3, <1>5, <2>2
      DEF HandshakeError, Return, ChannelTypeOK, Phases, Exits, MrtapTypeOK,
          FlagsOK, mrtapVars
    <2>. QED  BY <1>5, <2>1, <2>2 DEF HandshakeError
  <1>6. CASE HandshakeAck
    <2>1. MrtapTypeOK'
      BY <1>3, <1>6, ValidateTypes DEF HandshakeAck
    <2>. QED  BY <1>1, <1>3, <1>6, <2>1
              DEF HandshakeAck, ChannelTypeOK, Phases
  <1>7. CASE HandshakeBadMessage
    BY <1>1, <1>2, <1>3, <1>7
    DEF HandshakeBadMessage, Return, ChannelTypeOK, Phases, Exits,
        MrtapTypeOK, FlagsOK, mrtapVars
  <1>8. CASE HandshakeDying
    BY <1>1, <1>8 DEF HandshakeDying, ChannelTypeOK, Phases, MrtapTypeOK,
                      FlagsOK, mrtapVars, wireVars
  <1>9. CASE ReceiveAck
    <2>1. MrtapTypeOK'
      <3>1. CASE UNCHANGED mrtapVars
        BY <3>1 DEF MrtapTypeOK, FlagsOK, mrtapVars
      <3>2. CASE ValidateSynAck(Head(a2d)) \/ ValidateDataAck(Head(a2d))
        BY <1>3, <1>9, <3>2, ValidateTypes DEF ReceiveAck, Processing
      <3>. QED  BY <1>9, <3>1, <3>2 DEF ReceiveAck
    <2>. QED  BY <1>1, <1>3, <1>9, <2>1
              DEF ReceiveAck, Processing, ChannelTypeOK, Calls
  <1>10. ASSUME NEW b \in BOOLEAN, ReceiveError(b)  PROVE TypeOK'
    <2>1. MrtapTypeOK'
      <3>1. CASE UNCHANGED mrtapVars
        BY <3>1 DEF MrtapTypeOK, FlagsOK, mrtapVars
      <3>2. CASE StartRecovery \/ RecoveryFails
        <4>1. attempts' \in Nat
          <5>1. attempts' = attempts + 1
            BY Zenon, <3>2 DEF StartRecovery, RecoveryFails
          <5>. QED  BY <5>1 DEF MrtapTypeOK
        <4>3. FlagsOK'
          BY Zenon, <3>2 DEF StartRecovery, RecoveryFails, BuildSyn,
                             BuildSynFails, FlagsOK
        <4>2. BuildSyn(TRUE) \/ BuildSynFails
          BY <3>2 DEF StartRecovery, RecoveryFails
        <4>. QED  BY <4>1, <4>2, <4>3, BuildSynTypes
      <3>. QED  BY <1>10, <3>1, <3>2 DEF ReceiveError
    <2>2. dying' \in BOOLEAN
      BY <1>10 DEF ReceiveError, ChannelTypeOK
    <2>. QED  BY <1>1, <1>3, <1>10, <2>1, <2>2
              DEF ReceiveError, Processing, ChannelTypeOK
  <1>11. CASE ReceiveFatal
    BY <1>1, <1>3, <1>11
    DEF ReceiveFatal, Processing, ChannelTypeOK, MrtapTypeOK, FlagsOK, mrtapVars
  <1>12. CASE ReceiveStream
    BY <1>1, <1>3, <1>12 DEF ReceiveStream, Processing, ChannelTypeOK, Calls,
       MrtapTypeOK, FlagsOK, mrtapVars
  <1>13. CASE Die
    BY <1>1, <1>13 DEF Die, ChannelTypeOK, Calls, MrtapTypeOK, FlagsOK, mrtapVars,
       wireVars
  <1>14. CASE DrainCheck
    BY <1>1, <1>2, <1>14 DEF DrainCheck, Return, ChannelTypeOK, Phases, Exits,
       MrtapTypeOK, FlagsOK, mrtapVars
  <1>15. CASE DrainTimeout
    BY <1>1, <1>2, <1>15 DEF DrainTimeout, Return, ChannelTypeOK, Phases, Exits,
       MrtapTypeOK, FlagsOK, mrtapVars
  <1>16. ("refreshFails" \in Env) \in BOOLEAN
    OBVIOUS
  <1>. QED
    BY Zenon, <1>4, <1>5, <1>6, <1>7, <1>8, <1>9, <1>10, <1>11, <1>12, <1>13,
       <1>14, <1>15, <1>16 DEF DaemonStep, MainStep

\* The timers, sendMrtap, zapPluginOutput, the plugin, Close and the refresh
\* of the certificate by another channel.
LEMMA OtherDaemonTypes ==
  ASSUME TypeOK,
         \/ DaemonStep(TimerStep) \/ DaemonStep(SenderStep)
         \/ DaemonStep(ZapStep) \/ DaemonStep(PluginOutput)
         \/ DaemonStep(PluginDone) \/ DaemonStep(PluginReturns)
         \/ DaemonStep(Close) \/ DaemonStep(SharedRefresh)
  PROVE  TypeOK'
  <1>. USE DEF TypeOK
  <1>1. AgentTypeOK' /\ LossTypeOK'
    BY DEF DaemonStep, LossTypeOK, lossVars, AgentTypeOK, agentVars
  <1>2. CloseMsg \in Requests
    BY DEF CloseMsg, NoAck, NoHash, AckHash, AckHashes, Requests
  <1>3. UNCHANGED mrtapVars => MrtapTypeOK'
    BY DEF MrtapTypeOK, FlagsOK, mrtapVars
  <1>4. CASE TimerStep
    <2>1. \E why \in Exits : Return(why)
      BY <1>4 DEF TimerStep, HandshakeTimeout, IdleTimeout, Exits
    <2>2. UNCHANGED <<a2d, mrtapVars, dying, retries, produced, taken, zapHolds,
                      hand, calling>>
      BY <1>4 DEF TimerStep, HandshakeTimeout, IdleTimeout
    <2>3. phase' \in Phases /\ exit' \in Exits /\ d2a' \in Seq(Requests)
      BY <1>2, <2>1 DEF Return, Phases
    <2>. QED  BY <1>1, <1>3, <2>2, <2>3 DEF ChannelTypeOK
  <1>5. CASE TakeOutbox
    <2>1. Head(outbox) \in Requests /\ Tail(outbox) \in Seq(Requests)
      BY <1>5, HeadAndTail DEF TakeOutbox, MrtapTypeOK
    <2>2. MrtapTypeOK'
      BY <1>5, <2>1 DEF TakeOutbox, MrtapTypeOK, FlagsOK
    <2>. QED  BY <1>1, <1>5, <2>1, <2>2 DEF TakeOutbox, ChannelTypeOK, wireVars
  <1>6. CASE SendOrDrop
    <2>1. Head(hand) \in Requests
      BY <1>6, HeadAndTail DEF SendOrDrop, ChannelTypeOK
    <2>2. d2a' = Append(d2a, Head(hand)) \/ d2a' = d2a
      BY Zenon, <1>6 DEF SendOrDrop
    <2>3. d2a' \in Seq(Requests)
      BY <2>1, <2>2
    <2>4. /\ hand' = <<>>
          /\ UNCHANGED <<a2d, mrtapVars, phase, dying, retries, produced, taken,
                         zapHolds, exit, calling>>
      BY Zenon, <1>6 DEF SendOrDrop
    <2>. QED  BY <1>1, <1>3, <2>3, <2>4 DEF ChannelTypeOK
  <1>7. CASE TakeOutput
    BY <1>1, <1>3, <1>7 DEF TakeOutput, ChannelTypeOK, wireVars
  <1>8. CASE PipeOutput
    <2>1. MrtapTypeOK'
      BY <1>8, InboxTypes DEF PipeOutput, ChannelTypeOK
    <2>. QED  BY <1>1, <1>8, <2>1 DEF PipeOutput, ChannelTypeOK, wireVars
  <1>9. CASE PluginOutput
    BY <1>1, <1>3, <1>9 DEF PluginOutput, ChannelTypeOK, wireVars
  <1>10. CASE PluginDone
    <2>1. \/ phase' = "draining" /\ UNCHANGED <<d2a, exit>>
          \/ Return("pluginDone")
      BY Zenon, <1>10 DEF PluginDone
    <2>2. phase' \in Phases /\ exit' \in Exits /\ d2a' \in Seq(Requests)
      <3>1. CASE phase' = "draining" /\ UNCHANGED <<d2a, exit>>
        BY <3>1 DEF ChannelTypeOK, Phases
      <3>2. CASE Return("pluginDone")
        BY <1>2, <3>2 DEF Return, Phases, Exits
      <3>. QED  BY <2>1, <3>1, <3>2
    <2>3. UNCHANGED <<a2d, mrtapVars, dying, retries, produced, taken, zapHolds,
                      hand, calling>>
      BY Zenon, <1>10 DEF PluginDone
    <2>. QED  BY <1>1, <1>3, <2>2, <2>3 DEF ChannelTypeOK
  <1>11. CASE Close
    BY <1>1, <1>3, <1>11 DEF Close, ChannelTypeOK, wireVars
  <1>12. CASE SharedRefresh
    BY <1>1, <1>12 DEF SharedRefresh, MrtapTypeOK, FlagsOK, ChannelTypeOK,
                       channelVars, wireVars
  <1>13. CASE ReceiveReturns
    BY <1>1, <1>3, <1>13 DEF ReceiveReturns, ChannelTypeOK, Calls, wireVars
  <1>14. CASE KillReturns
    BY <1>1, <1>2, <1>3, <1>14 DEF KillReturns, Return, ChannelTypeOK, Phases, Exits, Calls
  <1>. QED
    BY Zenon, <1>4, <1>5, <1>6, <1>7, <1>8, <1>9, <1>10, <1>11, <1>12, <1>13, <1>14
    DEF DaemonStep, SenderStep, ZapStep, PluginReturns

\* Every message and event of the agent.
LEMMA AgentTypes ==
  ASSUME TypeOK, AgentStep(AgentMessage) \/ AgentStep(AgentEvent)
  PROVE  TypeOK'
  <1>. USE DEF TypeOK
  <1>1. MrtapTypeOK' /\ ChannelTypeOK' /\ LossTypeOK'
    BY DEF AgentStep, LossTypeOK, lossVars, MrtapTypeOK, FlagsOK, ChannelTypeOK, daemonVars,
           mrtapVars, channelVars
  <1>. DEFINE m == Head(d2a)
  <1>2. d2a # <<>> => /\ m \in Requests /\ Tail(d2a) \in Seq(Requests)
                      /\ m.id \in Nat /\ m.cert \in Nat /\ m.payload \in Nat
    <2>1. d2a # <<>> => m \in Requests /\ Tail(d2a) \in Seq(Requests)
      BY HeadAndTail
    <2>. QED  BY <2>1 DEF Requests
  <1>. HIDE DEF m
  <1>3. ASSUME NEW msg \in Replies, Reply(msg)
        PROVE  queued' \in Nat /\ late' \in Nat /\ a2d' \in Seq(Replies)
    <2>1. /\ \/ queued' = queued + 1 /\ a2d' = a2d
             \/ queued' = queued /\ a2d' = Append(a2d, msg)
          /\ late' = late
      BY Zenon, <1>3 DEF Reply
    <2>2. queued \in Nat /\ late \in Nat /\ a2d \in Seq(Replies)
      BY DEF AgentTypeOK
    <2>3. CASE queued' = queued + 1 /\ a2d' = a2d
      BY <2>1, <2>2, <2>3
    <2>4. CASE queued' = queued /\ a2d' = Append(a2d, msg)
      BY <1>3, <2>1, <2>2, <2>4
    <2>. QED  BY <2>1, <2>2, <2>3, <2>4
  <1>4. CASE OpenAccepted(expired)
    <2>1. /\ AckHash(m.id, FALSE) \in AckHashes
          /\ SynAckMsg(m.id, NoHash) \in Replies
      BY <1>2, <1>4, BuiltMessages
      DEF OpenAccepted, OpenReceived, AckHash, AckHashes, SynAckMsg, NoHash,
          Replies
    <2>2. /\ d2a # <<>> /\ d2a' = Tail(d2a)
          /\ aState' = "open" /\ clientCert' = m.cert /\ lastData' = 0
          /\ expected' = AckHash(m.id, FALSE) /\ queued' = 0 /\ late' = 0
          /\ a2d' = Append(a2d, SynAckMsg(m.id, NoHash))
          /\ UNCHANGED delivered
      BY <1>4 DEF OpenAccepted, OpenReceived, NoHash, m
    <2>3. a2d' \in Seq(Replies) /\ d2a' \in Seq(Requests)
      BY <1>2, <2>1, <2>2
    <2>4. AgentTypeOK'
      BY <1>2, <2>1, <2>2 DEF AgentTypeOK
    <2>. QED  BY <1>1, <2>3, <2>4
  <1>5. CASE OpenRefused(expired)
    <2>1. ErrorMsg(m.id) \in Replies /\ FatalMsg(m.id) \in Replies
      BY <1>2, <1>5 DEF OpenRefused, OpenReceived, ErrorMsg, FatalMsg, NoHash,
                        Replies
    <2>. QED  BY <1>1, <1>2, <1>5, <2>1
              DEF OpenRefused, OpenReceived, AgentTypeOK, m
  <1>6. CASE SynAccepted(expired, NonceChecked)
    <2>1. d2a # <<>> /\ d2a' = Tail(d2a)
      BY <1>6 DEF SynAccepted, SynReceived
    <2>2. \E nonce \in Nat : Reply(SynAckMsg(m.id, nonce))
      <3>1. \/ Reply(SynAckMsg(m.id, lastData))
            \/ Reply(SynAckMsg(m.id, NoHash))
        BY <1>6 DEF SynAccepted, m
      <3>2. lastData \in Nat /\ NoHash \in Nat
        BY DEF AgentTypeOK, NoHash
      <3>. QED  BY <3>1, <3>2
    <2>3. queued' \in Nat /\ late' \in Nat /\ a2d' \in Seq(Replies)
      BY <1>2, <1>3, <2>1, <2>2 DEF SynAckMsg, Replies
    <2>4. AckHash(m.id, FALSE) \in AckHashes
      BY <1>2, <2>1 DEF AckHash, AckHashes
    <2>5. /\ clientCert' = m.cert /\ expected' = AckHash(m.id, FALSE)
          /\ UNCHANGED <<aState, lastData, delivered>>
      BY <1>6 DEF SynAccepted, m
    <2>. QED  BY <1>1, <1>2, <2>1, <2>3, <2>4, <2>5 DEF AgentTypeOK
  <1>7. CASE SynRefused(expired) \/ DataRefused(expired)
    <2>1. /\ d2a # <<>> /\ d2a' = Tail(d2a) /\ Reply(ErrorMsg(m.id))
          /\ UNCHANGED <<aState, clientCert, lastData, expected, delivered>>
      BY <1>7 DEF SynRefused, SynReceived, DataRefused, DataReceived, m
    <2>2. queued' \in Nat /\ late' \in Nat /\ a2d' \in Seq(Replies)
      BY <1>2, <1>3, <2>1 DEF ErrorMsg, NoHash, Replies
    <2>. QED  BY <1>1, <1>2, <2>1, <2>2 DEF AgentTypeOK
  <1>8. ASSUME NEW resp \in BOOLEAN, DataAccepted(expired, resp)
        PROVE  TypeOK'
    <2>1. /\ d2a # <<>> /\ d2a' = Tail(d2a) /\ Reply(DataAckMsg(m.id, resp))
          /\ lastData' = m.id /\ expected' = AckHash(m.id, resp)
          /\ delivered' = Append(delivered, m.payload)
          /\ UNCHANGED <<aState, clientCert>>
      BY <1>8 DEF DataAccepted, DataReceived, m
    <2>2. AckHash(m.id, resp) \in AckHashes /\ DataAckMsg(m.id, resp) \in Replies
      BY <1>2, <2>1 DEF AckHash, AckHashes, DataAckMsg, NoHash, Replies
    <2>3. queued' \in Nat /\ late' \in Nat /\ a2d' \in Seq(Replies)
      BY <1>3, <2>1, <2>2
    <2>. QED  BY <1>1, <1>2, <2>1, <2>2, <2>3 DEF AgentTypeOK
  <1>9. CASE DataFailed(expired)
    <2>1. /\ d2a # <<>> /\ d2a' = Tail(d2a) /\ Reply(FatalMsg(m.id))
          /\ lastData' = m.id /\ delivered' = Append(delivered, m.payload)
          /\ UNCHANGED <<aState, clientCert, expected>>
      BY <1>9 DEF DataFailed, DataReceived, m
    <2>2. queued' \in Nat /\ late' \in Nat /\ a2d' \in Seq(Replies)
      BY <1>2, <1>3, <2>1 DEF FatalMsg, NoHash, Replies
    <2>. QED  BY <1>1, <1>2, <2>1, <2>2 DEF AgentTypeOK
  <1>10. CASE Unread
    BY <1>1, <1>2, <1>10 DEF Unread, AgentTypeOK, agentVars
  <1>11. CASE AgentStream
    <2>1. StreamMsg \in Replies
      BY DEF StreamMsg, NoHash, Replies
    <2>2. /\ \/ late' = late + 1 /\ a2d' = a2d
             \/ late' = late /\ a2d' = Append(a2d, StreamMsg)
          /\ UNCHANGED <<d2a, aState, clientCert, lastData, expected, queued, delivered>>
      BY <1>11 DEF AgentStream
    <2>3. late' \in Nat /\ a2d' \in Seq(Replies)
      <3>1. late \in Nat /\ a2d \in Seq(Replies)
        BY DEF AgentTypeOK
      <3>2. CASE late' = late + 1 /\ a2d' = a2d
        BY <3>1, <3>2
      <3>3. CASE late' = late /\ a2d' = Append(a2d, StreamMsg)
        BY <2>1, <3>1, <3>3
      <3>. QED  BY <2>2, <3>2, <3>3
    <2>. QED  BY <1>1, <2>2, <2>3 DEF AgentTypeOK
  <1>12. CASE AgentPluginDone \/ AgentOrphaned
    BY <1>1, <1>12 DEF AgentPluginDone, AgentOrphaned, AgentTypeOK, wireVars
  <1>13. CASE CloseReceived
    <2>1. PICK i \in DOMAIN d2a : d2a' = SubSeq(d2a, i + 1, Len(d2a))
      BY <1>13 DEF CloseReceived
    <2>2. d2a' \in Seq(Requests)
      BY <2>1
    <2>. QED  BY <1>1, <1>13, <2>2 DEF CloseReceived, AgentTypeOK
  <1>. QED
    BY <1>4, <1>5, <1>6, <1>7, <1>8, <1>9, <1>10, <1>11, <1>12, <1>13
    DEF AgentStep, AgentMessage, AgentEvent

\* What the surroundings do.
LEMMA SurroundingTypes ==
  ASSUME TypeOK, LoseRequest \/ LoseReply \/ Expire
  PROVE  TypeOK'
  <1>. USE DEF TypeOK
  <1>1. UNCHANGED daemonVars => MrtapTypeOK' /\ ChannelTypeOK'
    BY DEF MrtapTypeOK, FlagsOK, ChannelTypeOK, daemonVars, mrtapVars,
           channelVars
  <1>2. UNCHANGED agentVars => AgentTypeOK'
    BY DEF AgentTypeOK, agentVars
  <1>6. LossTypeOK'
    <2>1. losses' \in Nat
      BY DEF LoseRequest, LoseReply, Expire, lossVars, LossTypeOK
    <2>2. replyLost' \in BOOLEAN
      BY Zenon DEF LoseRequest, LoseReply, Expire, lossVars, LossTypeOK
    <2>. QED  BY Zenon, <2>1, <2>2 DEF LossTypeOK
  <1>3. CASE LoseRequest
    BY <1>1, <1>2, <1>3, <1>6, HeadAndTail DEF LoseRequest
  <1>4. CASE LoseReply
    BY <1>1, <1>2, <1>4, <1>6, HeadAndTail DEF LoseReply
  <1>5. CASE Expire
    BY <1>2, <1>5, <1>6 DEF Expire, MrtapTypeOK, FlagsOK, ChannelTypeOK, channelVars,
                      wireVars
  <1>. QED  BY <1>3, <1>4, <1>5

\* Every step keeps the types of all the state of both ends and of the wire.
THEOREM TypeStep == TypeOK /\ [Next]_vars => TypeOK'
  <1>. SUFFICES ASSUME TypeOK, [Next]_vars  PROVE TypeOK'
    OBVIOUS
  <1>1. CASE UNCHANGED vars
    BY <1>1 DEF TypeOK, MrtapTypeOK, FlagsOK, ChannelTypeOK, AgentTypeOK,
                LossTypeOK, lossVars, vars, wireVars, daemonVars, mrtapVars,
                channelVars, agentVars
  <1>2. CASE Next
    BY Zenon, <1>2, MainTypes, OtherDaemonTypes, AgentTypes, SurroundingTypes
    DEF Next
  <1>. QED  BY <1>1, <1>2

\* The type invariant of both ends of the channel and of the wire.
THEOREM TypeCorrect == Spec => []TypeOK
  <1>1. Init => TypeOK
    <2>. SUFFICES ASSUME Init  PROVE TypeOK
      OBVIOUS
    <2>1. MrtapTypeOK
      <3>1. FlagsOK
        BY Zenon DEF Init, MrtapInit, FlagsOK
      <3>2. /\ nextId = 2 /\ pipelineMap = <<>> /\ outbox = <<>>
            /\ lastAck = NoAck /\ lastAckedData = NoHash
            /\ attempts = 0 /\ cert = 1 /\ expired = 0
        BY Zenon DEF Init, MrtapInit
      <3>. QED  BY <3>1, <3>2 DEF MrtapTypeOK, NoAck, AckHash, AckHashes, NoHash
    <2>2. ChannelTypeOK
      <3>1. dying \in BOOLEAN /\ zapHolds \in BOOLEAN
        BY Zenon DEF Init, ChannelInit
      <3>2. /\ phase = "new" /\ retries = 0 /\ exit = "none"
            /\ produced = 0 /\ taken = 0 /\ hand = <<>> /\ calling = "none"
        BY Zenon DEF Init, ChannelInit
      <3>. QED  BY <3>1, <3>2 DEF ChannelTypeOK, Phases, Exits, Calls
    <2>3. AgentTypeOK
      BY ChannelAssumption
      DEF Init, AgentInit, AgentTypeOK, AckHash, AckHashes, NoHash
    <2>4. a2d \in Seq(Replies)
      <3>1. a2d = <<>> \/ a2d = <<DataAckMsg(1, FALSE)>>
        BY ChannelAssumption DEF Init, AgentInit
      <3>2. DataAckMsg(1, FALSE) \in Replies
        BY DEF DataAckMsg, NoHash, Replies
      <3>3. ASSUME NEW r \in Replies  PROVE <<r>> \in Seq(Replies)
        OBVIOUS
      <3>4. <<>> \in Seq(Replies)
        OBVIOUS
      <3>. QED  BY Zenon, <3>1, <3>2, <3>3, <3>4
    <2>5. d2a \in Seq(Requests) /\ LossTypeOK
      <3>1. losses = 0 /\ replyLost \in BOOLEAN
        BY Zenon DEF Init
      <3>2. d2a \in Seq(Requests) /\ losses \in Nat
        BY <3>1 DEF Init
      <3>. QED  BY Zenon, <3>1, <3>2 DEF LossTypeOK
    <2>. QED  BY <2>1, <2>2, <2>3, <2>4, <2>5 DEF TypeOK
  <1>. QED  BY <1>1, TypeStep, PTL DEF Spec

-----------------------------------------------------------------------------
(* Inbox can always build.                                                 *)

\* The strengthening of InboxCanBuild that is inductive: every id of the
\* pipeline is a real hash, and a completed handshake has left a real ack
\* and no Syn in the pipeline.
HandshakeInv ==
  /\ nextId > 0
  /\ \A i \in DOMAIN pipelineMap : pipelineMap[i].id > 0
  /\ handshakeDone => /\ lastAck.of > 0
                      /\ \A i \in DOMAIN pipelineMap :
                           pipelineMap[i].type = "Data"

handshakeVars == <<nextId, pipelineMap, handshakeDone, lastAck>>

\* Nothing to show for a step that leaves the handshake alone.
LEMMA HandshakeUnchanged ==
  ASSUME HandshakeInv, UNCHANGED handshakeVars
  PROVE  HandshakeInv'
  BY Zenon DEF HandshakeInv, handshakeVars

\* buildSyn starts a handshake, and adds a message with a fresh id.
LEMMA BuildSynHandshake ==
  ASSUME TypeOK, HandshakeInv, NEW send \in BOOLEAN,
         BuildSyn(send) \/ BuildSynFails
  PROVE  HandshakeInv'
  <1>. DEFINE syn == SynMsg(nextId, RefreshedCert)
  <1>1. ~handshakeDone'
    BY Zenon DEF BuildSyn, BuildSynFails
  <1>2. \/ pipelineMap' = Append(pipelineMap, syn) /\ nextId' = nextId + 1
        \/ pipelineMap' = pipelineMap /\ nextId' = nextId
    BY Zenon DEF BuildSyn, BuildSynFails
  <1>3. syn.id = nextId
    BY DEF SynMsg
  <1>4. nextId \in Nat /\ nextId > 0 /\ pipelineMap \in Seq(Requests)
    BY DEF TypeOK, MrtapTypeOK, HandshakeInv
  <1>5. nextId' > 0
    BY <1>2, <1>4
  <1>6. \A i \in DOMAIN pipelineMap' : pipelineMap'[i].id > 0
    <2>. HIDE DEF syn
    <2>1. CASE pipelineMap' = Append(pipelineMap, syn)
      <3>1. DOMAIN pipelineMap' = 1..(Len(pipelineMap) + 1)
        BY <1>4, <2>1
      <3>2. ASSUME NEW i \in 1..(Len(pipelineMap) + 1)
            PROVE  Append(pipelineMap, syn)[i].id > 0
        <4>1. CASE i = Len(pipelineMap) + 1
          BY <1>3, <1>4, <4>1
        <4>2. CASE i # Len(pipelineMap) + 1
          <5>1. i \in DOMAIN pipelineMap
            BY <1>4, <4>2
          <5>. QED  BY <1>4, <5>1 DEF HandshakeInv
        <4>. QED  BY <4>1, <4>2
      <3>. QED  BY <2>1, <3>1, <3>2
    <2>2. CASE pipelineMap' = pipelineMap
      BY <2>2 DEF HandshakeInv
    <2>. QED  BY <1>2, <2>1, <2>2
  <1>. QED  BY Zenon, <1>1, <1>5, <1>6 DEF HandshakeInv

\* A SynAck leaves only rebuilt Data; a DataAck takes one message out.
LEMMA ValidateHandshake ==
  ASSUME TypeOK, HandshakeInv, NEW msg \in Replies,
         ValidateSynAck(msg) \/ ValidateDataAck(msg)
  PROVE  HandshakeInv'
  <1>. DEFINE left == Without(pipelineMap, msg.of)
              ack == AckHash(msg.of, msg.resp)
              data == Rebuilt(ToResend(left, msg.nonce), ack)
  <1>0. /\ MrtapTypeOK /\ nextId \in Nat /\ nextId > 0
        /\ pipelineMap \in Seq(Requests)
    BY DEF TypeOK, MrtapTypeOK, HandshakeInv
  <1>1. msg.of \in Nat /\ msg.resp \in BOOLEAN /\ ack \in AckHashes
    BY DEF Replies, AckHash, AckHashes
  <1>2. msg.of \in Ids(pipelineMap)
    BY DEF ValidateSynAck, ValidateDataAck
  <1>3. PICK k \in DOMAIN pipelineMap : pipelineMap[k].id = msg.of
    BY <1>2 DEF Ids
  <1>4. ack.of > 0
    BY <1>3 DEF HandshakeInv, AckHash
  <1>5. /\ left \in Seq(Requests)
        /\ \A j \in DOMAIN left : \E i \in DOMAIN pipelineMap :
             left[j] = pipelineMap[i]
    BY <1>0, <1>2, IndexOfIsIndex, RemoveAtKeeps DEF Without
  <1>6. CASE ValidateSynAck(msg)
    <2>1. /\ data \in Seq(Requests)
          /\ \A i \in DOMAIN data :
               data[i].type = "Data" /\ data[i].id \in Nat /\ data[i].id >= nextId
      BY <1>0, <1>1, <1>5, ToResendKeeps, RebuiltIsData
    <2>. HIDE DEF data, ack
    <2>2. /\ lastAck' = ack /\ pipelineMap' = data
          /\ nextId' = nextId + Len(data)
      BY <1>6 DEF ValidateSynAck, data, ack
    <2>3. Len(data) \in Nat
      BY <2>1
    <2>4. nextId' > 0
      BY <1>0, <2>2, <2>3
    <2>5. \A i \in DOMAIN data : data[i].id > 0
      BY <1>0, <2>1
    <2>. QED  BY Zenon, <1>4, <2>1, <2>2, <2>4, <2>5 DEF HandshakeInv
  <1>7. CASE ValidateDataAck(msg)
    <2>. HIDE DEF left, ack
    <2>1. lastAck' = ack /\ pipelineMap' = left /\ nextId' = nextId
      BY <1>7 DEF ValidateDataAck, left, ack
    <2>2. handshakeDone' = handshakeDone
      BY Zenon, <1>7 DEF ValidateDataAck
    <2>. QED  BY Zenon, <1>4, <1>5, <2>1, <2>2 DEF HandshakeInv
  <1>. QED  BY <1>6, <1>7

\* Inbox adds a Data.
LEMMA InboxHandshake ==
  ASSUME TypeOK, HandshakeInv, NEW payload, Inbox(payload)
  PROVE  HandshakeInv'
  <1>. DEFINE data == DataMsg(nextId, cert,
                              NextHPointer(pipelineMap, lastAck), payload)
  <1>0. nextId \in Nat /\ nextId > 0 /\ pipelineMap \in Seq(Requests)
    BY DEF TypeOK, MrtapTypeOK, HandshakeInv
  <1>1. data.id = nextId /\ data.type = "Data"
    BY DEF DataMsg
  <1>. HIDE DEF data
  <1>2. UNCHANGED <<handshakeDone, lastAck>>
    BY Zenon DEF Inbox
  <1>3. \/ pipelineMap' = Append(pipelineMap, data) /\ nextId' = nextId + 1
        \/ UNCHANGED <<pipelineMap, nextId>>
    BY Zenon DEF Inbox, data
  <1>4. CASE UNCHANGED <<pipelineMap, nextId>>
    BY Zenon, <1>2, <1>4, HandshakeUnchanged DEF handshakeVars
  <1>5. CASE pipelineMap' = Append(pipelineMap, data) /\ nextId' = nextId + 1
    <2>1. DOMAIN pipelineMap' = 1..(Len(pipelineMap) + 1)
      BY <1>0, <1>5
    <2>2. ASSUME NEW i \in 1..(Len(pipelineMap) + 1)
          PROVE  \/ pipelineMap'[i] = data
                 \/ i \in DOMAIN pipelineMap /\ pipelineMap'[i] = pipelineMap[i]
      BY <1>0, <1>5
    <2>3. \A i \in DOMAIN pipelineMap' : pipelineMap'[i].id > 0
      BY <1>0, <1>1, <2>1, <2>2 DEF HandshakeInv
    <2>4. nextId' > 0
      BY <1>0, <1>5
    <2>. QED  BY Zenon, <1>1, <1>2, <2>1, <2>2, <2>3, <2>4 DEF HandshakeInv
  <1>. QED  BY <1>3, <1>4, <1>5

\* The inductive step.
LEMMA HandshakeStep ==
  TypeOK /\ HandshakeInv /\ [Next]_vars => HandshakeInv'
  <1>. SUFFICES ASSUME TypeOK, HandshakeInv, [Next]_vars  PROVE HandshakeInv'
    OBVIOUS
  <1>1. UNCHANGED mrtapVars => UNCHANGED handshakeVars
    BY DEF mrtapVars, handshakeVars
  <1>2. SendSyn \/ StartFails => HandshakeInv'
    BY BuildSynHandshake, ChannelAssumption DEF SendSyn, StartFails
  <1>3. a2d # <<>> => Head(a2d) \in Replies
    BY HeadAndTail DEF TypeOK
  <1>4. CASE DaemonStep(MainStep)
    <2>1. CASE \E b \in BOOLEAN : Start(b) \/ HandshakeError(b)
      BY Zenon, <1>1, <1>2, <2>1, HandshakeUnchanged DEF Start, HandshakeError
    <2>2. CASE HandshakeAck \/ ReceiveAck
      BY Zenon, <1>1, <1>3, <2>2, ValidateHandshake, HandshakeUnchanged
      DEF HandshakeAck, ReceiveAck, Processing
    <2>3. CASE \E b \in BOOLEAN : ReceiveError(b)
      <3>1. StartRecovery \/ RecoveryFails \/ UNCHANGED mrtapVars
        BY Zenon, <2>3 DEF ReceiveError
      <3>2. StartRecovery \/ RecoveryFails => HandshakeInv'
        BY BuildSynHandshake DEF StartRecovery, RecoveryFails
      <3>. QED  BY Zenon, <1>1, <3>1, <3>2, HandshakeUnchanged
    <2>4. CASE \/ HandshakeBadMessage \/ HandshakeDying \/ ReceiveFatal
               \/ ReceiveStream \/ Die \/ DrainCheck \/ DrainTimeout
      <3>1. UNCHANGED mrtapVars
        BY Zenon, <2>4 DEF HandshakeBadMessage, HandshakeDying, ReceiveFatal,
                           ReceiveStream, Die, DrainCheck, DrainTimeout,
                           daemonVars
      <3>. QED  BY Zenon, <1>1, <3>1, HandshakeUnchanged
    <2>5. ("refreshFails" \in Env) \in BOOLEAN
      OBVIOUS
    <2>. QED  BY Zenon, <1>4, <2>1, <2>2, <2>3, <2>4, <2>5
              DEF DaemonStep, MainStep
  <1>5. CASE \/ DaemonStep(TimerStep) \/ DaemonStep(SenderStep)
             \/ DaemonStep(TakeOutput) \/ DaemonStep(PluginOutput)
             \/ DaemonStep(PluginDone) \/ DaemonStep(PluginReturns)
             \/ DaemonStep(Close) \/ DaemonStep(SharedRefresh)
    <2>1. UNCHANGED handshakeVars
      BY <1>1, <1>5 DEF DaemonStep, TimerStep, SenderStep, HandshakeTimeout,
         IdleTimeout, TakeOutbox, SendOrDrop, TakeOutput,
         PluginOutput, PluginDone, PluginReturns, ReceiveReturns, KillReturns, Close,
         SharedRefresh, handshakeVars
    <2>. QED  BY Zenon, <2>1, HandshakeUnchanged
  <1>6. CASE DaemonStep(PipeOutput)
    BY <1>6, InboxHandshake DEF DaemonStep, PipeOutput
  <1>7. CASE \/ AgentStep(AgentMessage) \/ AgentStep(AgentEvent)
             \/ LoseRequest \/ LoseReply \/ Expire \/ UNCHANGED vars
    <2>1. UNCHANGED handshakeVars
      BY <1>7 DEF AgentStep, LoseRequest, LoseReply, Expire, vars, daemonVars,
                  mrtapVars, handshakeVars
    <2>. QED  BY Zenon, <2>1, HandshakeUnchanged
  <1>. QED  BY Zenon, <1>4, <1>5, <1>6, <1>7 DEF Next, ZapStep, DaemonStep

\* No payload that zapPluginOutput takes from the plugin is dropped by Inbox
\* for want of an ack to build on: its error path is dead code.
THEOREM InboxNeverDrops == Spec => []InboxCanBuild
  <1>1. Init => HandshakeInv
    <2>1. Init => nextId = 2 /\ pipelineMap = <<>> /\ ~handshakeDone
      BY Zenon DEF Init, MrtapInit
    <2>2. ASSUME nextId = 2, pipelineMap = <<>>
          PROVE  nextId > 0 /\ DOMAIN pipelineMap = {}
      BY <2>2
    <2>. QED  BY Zenon, <2>1, <2>2 DEF HandshakeInv
  <1>2. TypeOK /\ HandshakeInv => InboxCanBuild
    <2>. SUFFICES ASSUME TypeOK, HandshakeInv, handshakeDone
                  PROVE  CanBuild(pipelineMap, lastAck)
      BY Zenon DEF InboxCanBuild
    <2>1. /\ lastAck.of > 0
          /\ \A i \in DOMAIN pipelineMap : pipelineMap[i].type = "Data"
      BY Zenon DEF HandshakeInv
    <2>2. lastAck # NoAck
      BY <2>1 DEF NoAck, AckHash, NoHash
    <2>3. pipelineMap # <<>> => Last(pipelineMap).type = "Data"
      <3>1. pipelineMap \in Seq(Requests)
        BY DEF TypeOK, MrtapTypeOK
      <3>2. pipelineMap # <<>> => Len(pipelineMap) \in DOMAIN pipelineMap
        BY <3>1
      <3>. QED  BY <2>1, <3>2 DEF Last
    <2>. QED  BY <2>2, <2>3 DEF CanBuild
  <1>. QED  BY <1>1, <1>2, HandshakeStep, TypeCorrect, PTL DEF Spec

-----------------------------------------------------------------------------
(* What is under way.                                                      *)

\* Before the first SynAck.
Opening == ~handshakeDone /\ ~recovering

IsAnswer(r) == r.type \in {"SynAck", "Error", "Fatal"}
NoAnswer == \A i \in DOMAIN a2d : ~IsAnswer(a2d[i])

\* Until the first handshake is over there is one Syn under way, or its answer.
OpeningInv ==
  /\ phase \in {"new", "handshake"} => Opening
  /\ phase = "new" =>
       /\ pipelineMap = <<>> /\ outbox = <<>> /\ hand = <<>> /\ d2a = <<>>
       /\ NoAnswer
  /\ Opening /\ phase # "dead" =>
       /\ Len(outbox) + Len(hand) + Len(d2a) <= 1
       /\ Len(outbox) + Len(hand) + Len(d2a) = 1 => NoAnswer
       /\ \A i, j \in DOMAIN a2d : IsAnswer(a2d[i]) /\ IsAnswer(a2d[j]) => i = j

\* The ids of the pipeline ascend, and what waits in the outbox is its end.
Ascends(map, next) ==
  /\ \A i, j \in DOMAIN map : i < j => map[i].id < map[j].id
  /\ \A i \in DOMAIN map : 0 < map[i].id /\ map[i].id < next

IsEndOf(queue, map) ==
  /\ Len(queue) <= Len(map)
  /\ \A i \in DOMAIN queue : queue[i] = map[i + (Len(map) - Len(queue))]

QueueInv ==
  0 < nextId /\ Ascends(pipelineMap, nextId) /\ IsEndOf(outbox, pipelineMap)

\* A message that has left the outbox is older than those still in it.
Sent(id) == id < nextId /\ \A i \in DOMAIN outbox : id < outbox[i].id

SentInv ==
  /\ \A i \in DOMAIN d2a : Sent(d2a[i].id)
  /\ \A i \in DOMAIN hand : Sent(hand[i].id)
  /\ \A i \in DOMAIN a2d : Sent(a2d[i].of)

\* What is under way was built in the order in which it is answered: the
\* replies are older than the requests on the wire, and those than the one in
\* hand.  (Close and Stream messages have no id.)
RisingInv ==
  /\ \A i, j \in DOMAIN d2a : i < j => d2a[j].id = 0 \/ d2a[i].id < d2a[j].id
  /\ \A i, j \in DOMAIN a2d : i < j => a2d[j].of = 0 \/ a2d[i].of < a2d[j].of
  /\ \A i \in DOMAIN a2d, j \in DOMAIN d2a : d2a[j].id = 0 \/ a2d[i].of < d2a[j].id
  /\ \A i \in DOMAIN a2d, j \in DOMAIN hand : a2d[i].of < hand[j].id
  /\ \A i \in DOMAIN d2a, j \in DOMAIN hand : d2a[i].id < hand[j].id
  /\ \A j \in DOMAIN hand : 0 < hand[j].id

\* A Syn under way, or the SynAck of one, is of the message built last: no
\* Data is built, and no other Syn, before it is answered.
Newest(id) ==
  /\ ~handshakeDone /\ id = nextId - 1 /\ pipelineMap # <<>>
  /\ pipelineMap[Len(pipelineMap)].id = id
  /\ pipelineMap[Len(pipelineMap)].type = "Syn"

IsSyn(m) == m.type \in {"Open", "Syn"}

SynInv ==
  /\ \A i \in DOMAIN d2a : IsSyn(d2a[i]) => Newest(d2a[i].id)
  /\ \A i \in DOMAIN hand : IsSyn(hand[i]) => Newest(hand[i].id)
  /\ \A i \in DOMAIN outbox : IsSyn(outbox[i]) => Newest(outbox[i].id)
  /\ \A i \in DOMAIN a2d : a2d[i].type = "SynAck" => Newest(a2d[i].of)

\* How long the pipeline gets: a recovery adds its Syn.
LengthInv ==
  /\ retries <= MaxSynRetries
  /\ handshakeDone => Len(pipelineMap) <= PipelineLimit
  /\ Opening => Len(pipelineMap) <= retries + 1
  /\ recovering => Len(pipelineMap) <= PipelineLimit + 1
  /\ OutboxFits

-----------------------------------------------------------------------------
(* The steps, as far as these invariants go.                               *)

Piped == IF zapHolds THEN taken - 1 ELSE taken
KnownAck(r) == r.type = "DataAck" /\ r.of \in Ids(pipelineMap)

\* Nothing is built, taken or sent.
Idles ==
  /\ UNCHANGED <<nextId, pipelineMap, outbox, hand, lastAckedData, agentVars>>
  /\ Piped' = Piped
  /\ \/ UNCHANGED d2a
     \/ phase' = "dead" /\ d2a' = Append(d2a, CloseMsg)
  /\ \/ UNCHANGED a2d
     \/ /\ a2d # <<>> /\ a2d' = Tail(a2d)
        /\ replyLost' = TRUE \/ ~KnownAck(Head(a2d))
  /\ replyLost' = replyLost \/ replyLost' = TRUE
  /\ retries' = retries \/ (retries < MaxSynRetries /\ retries' = retries + 1)
  /\ phase' = phase \/ phase' \notin {"new", "handshake"}
  /\ phase = "dead" => phase' = "dead"
  /\ lastAck' = lastAck \/ (lastAck' = NoAck /\ ~handshakeDone')
  /\ \/ UNCHANGED <<handshakeDone, recovering>>
     \/ /\ ~handshakeDone' /\ recovering' /\ phase \in {"running", "draining"}
        /\ phase' = phase /\ a2d # <<>> /\ IsAnswer(Head(a2d))

\* A Syn of the handshake.
Opens ==
  /\ BuildSyn(Attach)
  /\ d2a' = IF Attach THEN d2a
            ELSE Append(d2a, OpenMsg(SynMsg(nextId, RefreshedCert)))
  /\ phase' = "handshake"
  /\ UNCHANGED <<hand, recovering, agentVars, replyLost>> /\ Piped' = Piped
  /\ \/ phase = "new" /\ UNCHANGED <<a2d, retries>>
     \/ /\ phase = "handshake" /\ a2d # <<>> /\ IsAnswer(Head(a2d))
        /\ Head(a2d).type # "SynAck" /\ a2d' = Tail(a2d)
        /\ retries < MaxSynRetries /\ retries' = retries + 1

\* The Syn of a recovery.
Recovers ==
  /\ phase \in {"running", "draining"} /\ phase' = phase
  /\ a2d # <<>> /\ Head(a2d).type = "Error" /\ ~IgnoresError(Head(a2d))
  /\ a2d' = Tail(a2d)
  /\ recovering' /\ BuildSyn(TRUE)
  /\ UNCHANGED <<d2a, hand, retries, agentVars, replyLost>> /\ Piped' = Piped

\* Validate takes an ack that is known.
Validates ==
  /\ phase \in {"handshake", "running", "draining"}
  /\ phase' \in {"running", "draining"}
  /\ a2d # <<>> /\ a2d' = Tail(a2d)
  /\ ValidateSynAck(Head(a2d)) \/ (phase' = phase /\ ValidateDataAck(Head(a2d)))
  /\ UNCHANGED <<d2a, hand, retries, agentVars, replyLost>> /\ Piped' = Piped

\* Inbox takes the next payload.
Pipes ==
  /\ PipeOutput
  /\ UNCHANGED <<agentVars, replyLost>>

\* sendMrtap.
Takes ==
  /\ hand = <<>> /\ outbox # <<>>
  /\ hand' = <<Head(outbox)>> /\ outbox' = Tail(outbox)
  /\ UNCHANGED <<d2a, a2d, nextId, pipelineMap, handshakeDone, lastAck,
                 lastAckedData, recovering, phase, retries, agentVars, replyLost>>
  /\ Piped' = Piped

Sends ==
  /\ hand # <<>> /\ hand' = <<>>
  /\ d2a' = d2a \/ d2a' = Append(d2a, Head(hand))
  /\ UNCHANGED <<a2d, nextId, pipelineMap, outbox, handshakeDone, lastAck,
                 lastAckedData, recovering, phase, retries, agentVars, replyLost>>
  /\ Piped' = Piped

daemonSide == <<nextId, pipelineMap, outbox, handshakeDone, lastAck, lastAckedData,
                recovering, phase, retries, taken, zapHolds, hand, replyLost>>

\* The agent answers what came first,
Answers ==
  /\ UNCHANGED daemonSide
  /\ d2a # <<>> /\ d2a' = Tail(d2a)
  /\ \/ UNCHANGED a2d
     \/ \E r \in Replies :
          /\ r.of = Head(d2a).id /\ r.type # "Stream"
          /\ r.type = "SynAck" => IsSyn(Head(d2a))
          /\ a2d' = Append(a2d, r)

\* or something is skipped, lost or streamed.
Skips ==
  /\ UNCHANGED daemonSide
  /\ \E i \in 0..Len(d2a) : d2a' = SubSeq(d2a, i + 1, Len(d2a))
  /\ UNCHANGED a2d \/ a2d' = Append(a2d, StreamMsg)

\* Most steps of the daemon's side build, take and send nothing.
LEMMA IdleSteps ==
  ASSUME TypeOK, OpeningInv,
         \/ DaemonStep(TimerStep) \/ DaemonStep(TakeOutput)
         \/ DaemonStep(PluginOutput) \/ DaemonStep(PluginDone)
         \/ DaemonStep(Close) \/ DaemonStep(SharedRefresh)
         \/ LoseReply \/ Expire \/ UNCHANGED vars
         \/ DaemonStep(HandshakeBadMessage) \/ DaemonStep(HandshakeDying)
         \/ DaemonStep(ReceiveFatal) \/ DaemonStep(ReceiveStream)
         \/ DaemonStep(Die) \/ DaemonStep(DrainCheck) \/ DaemonStep(DrainTimeout)
         \/ DaemonStep(PluginReturns)
  PROVE  Idles
  <1>. USE DEF DaemonStep, agentVars, lossVars
  <1>1. CASE DaemonStep(TimerStep) \/ DaemonStep(KillReturns) \/ DaemonStep(DrainCheck)
             \/ DaemonStep(DrainTimeout) \/ DaemonStep(PluginDone)
    BY <1>1 DEF TimerStep, HandshakeTimeout, IdleTimeout, KillReturns, DrainCheck,
       DrainTimeout, PluginDone, Return, Idles, Piped, mrtapVars
  <1>2. CASE DaemonStep(TakeOutput)
    <2>1. taken \in Nat
      BY DEF TypeOK, ChannelTypeOK
    <2>2. Piped' = Piped
      BY <1>2, <2>1 DEF TakeOutput, Piped
    <2>. QED  BY <1>2, <2>2 DEF TakeOutput, Idles, wireVars, mrtapVars
  <1>3. CASE DaemonStep(PluginOutput) \/ DaemonStep(Close) \/ DaemonStep(SharedRefresh)
             \/ DaemonStep(HandshakeDying) \/ DaemonStep(Die)
             \/ DaemonStep(ReceiveReturns)
    BY <1>3 DEF PluginOutput, Close, SharedRefresh, HandshakeDying, Die,
       ReceiveReturns, Idles, Piped,
       wireVars, mrtapVars, channelVars
  <1>4. CASE LoseReply \/ Expire \/ UNCHANGED vars
    BY <1>4 DEF LoseReply, Expire, vars, Idles, Piped, wireVars, daemonVars, mrtapVars,
       channelVars
  <1>5. CASE DaemonStep(HandshakeBadMessage)
    BY <1>5 DEF HandshakeBadMessage, Unknown, KnownAck, Return, Idles, Piped, mrtapVars
  <1>6. CASE DaemonStep(ReceiveFatal) \/ DaemonStep(ReceiveStream)
    BY <1>6 DEF ReceiveFatal, ReceiveStream, Processing, KnownAck, Idles, Piped,
       mrtapVars,
       daemonVars, channelVars
  <1>. QED  BY <1>1, <1>2, <1>3, <1>4, <1>5, <1>6 DEF PluginReturns

\* The main goroutine of the daemon's datachannel: each of its steps is a move.
LEMMA MainMoves ==
  ASSUME TypeOK, OpeningInv, DaemonStep(MainStep)
  PROVE  Idles \/ Opens \/ Recovers \/ Validates
  <1>. USE DEF DaemonStep, agentVars, lossVars
  <1>a. phase \in {"new", "handshake"} => handshakeDone = FALSE
    BY Zenon DEF OpeningInv, Opening, TypeOK, MrtapTypeOK, FlagsOK
  <1>b. ("refreshFails" \in Env) \in BOOLEAN
    OBVIOUS
  <1>1. ASSUME NEW b \in BOOLEAN, DaemonStep(Start(b))
        PROVE  Idles \/ Opens
    <2>1. CASE SendSyn
      BY <1>1, <2>1 DEF Start, SendSyn, Opens, Piped
    <2>2. CASE StartFails
      <3>1. /\ ~handshakeDone' /\ UNCHANGED <<handshakeDone, recovering>>
            /\ lastAck' = NoAck
        BY Zenon, <1>1, <1>a, <2>2 DEF Start, StartFails, BuildSynFails
      <3>2. /\ UNCHANGED <<nextId, pipelineMap, outbox, hand, lastAckedData, agentVars,
                           replyLost, zapHolds, taken, retries, a2d>>
            /\ phase' = "dead" /\ d2a' = Append(d2a, CloseMsg)
        BY <1>1, <2>2 DEF Start, StartFails, BuildSynFails, Return
      <3>. QED  BY <3>1, <3>2 DEF Idles, Piped
    <2>. QED  BY <1>1, <2>1, <2>2 DEF Start
  <1>2. ASSUME NEW b \in BOOLEAN, DaemonStep(HandshakeError(b))
        PROVE  Idles \/ Opens
    <2>1. CASE retries < MaxSynRetries /\ retries' = retries + 1 /\ SendSyn
      BY <1>2, <2>1 DEF HandshakeError, SendSyn, Opens, Piped, IsAnswer
    <2>2. CASE retries < MaxSynRetries /\ retries' = retries + 1 /\ StartFails
      <3>1. /\ ~handshakeDone' /\ UNCHANGED <<handshakeDone, recovering>>
            /\ lastAck' = NoAck
        BY Zenon, <1>2, <1>a, <2>2 DEF HandshakeError, StartFails, BuildSynFails
      <3>2. /\ UNCHANGED <<nextId, pipelineMap, outbox, hand, lastAckedData, agentVars,
                           replyLost, zapHolds, taken>>
            /\ phase' = "dead" /\ d2a' = Append(d2a, CloseMsg)
            /\ a2d # <<>> /\ a2d' = Tail(a2d) /\ ~KnownAck(Head(a2d))
        BY <1>2, <2>2 DEF HandshakeError, StartFails, BuildSynFails, Return, KnownAck
      <3>. QED  BY <2>2, <3>1, <3>2 DEF Idles, Piped
    <2>3. CASE Return("synRejected") /\ UNCHANGED <<retries, mrtapVars>>
      BY <1>2, <2>3 DEF HandshakeError, Return, Idles, Piped, KnownAck, mrtapVars
    <2>. QED  BY <1>2, <2>1, <2>2, <2>3 DEF HandshakeError
  <1>3. CASE DaemonStep(HandshakeAck)
    BY <1>3 DEF HandshakeAck, Validates, Piped
  <1>4. CASE DaemonStep(ReceiveAck)
    <2>1. CASE ValidateSynAck(Head(a2d)) \/ ValidateDataAck(Head(a2d))
      BY <1>4, <2>1 DEF ReceiveAck, Processing, Validates, Piped, channelVars
    <2>2. CASE Unknown(Head(a2d)) /\ UNCHANGED mrtapVars
      BY <1>4, <2>2 DEF ReceiveAck, Processing, Unknown, KnownAck, Idles, Piped,
         channelVars,
         mrtapVars
    <2>. QED  BY <1>4, <2>1, <2>2 DEF ReceiveAck
  <1>5. ASSUME NEW b \in BOOLEAN, DaemonStep(ReceiveError(b))
        PROVE  Idles \/ Recovers
    <2>1. CASE UNCHANGED mrtapVars
      BY <1>5, <2>1 DEF ReceiveError, Processing, KnownAck, Idles, Piped, mrtapVars
    <2>2. CASE StartRecovery /\ ~IgnoresError(Head(a2d))
      BY <1>5, <2>2 DEF ReceiveError, Processing, StartRecovery, Recovers, Piped
    <2>3. CASE RecoveryFails
      <3>1. ~handshakeDone' /\ recovering' /\ lastAck' = NoAck
        BY Zenon, <2>3 DEF RecoveryFails, BuildSynFails
      <3>2. /\ UNCHANGED <<nextId, pipelineMap, outbox, hand, lastAckedData, agentVars,
                           zapHolds, taken, retries, phase, d2a>>
            /\ replyLost' = replyLost /\ phase \in {"running", "draining"}
            /\ a2d # <<>> /\ a2d' = Tail(a2d) /\ ~KnownAck(Head(a2d))
            /\ IsAnswer(Head(a2d)) /\ phase # "dead" /\ phase' \notin {"new", "handshake"}
        BY <1>5, <2>3 DEF ReceiveError, Processing, RecoveryFails, BuildSynFails,
           KnownAck,
           IsAnswer
      <3>3. Piped' = Piped
        BY <3>2 DEF Piped
      <3>. QED  BY Zenon, <3>1, <3>2, <3>3 DEF Idles
    <2>. QED  BY <1>5, <2>1, <2>2, <2>3 DEF ReceiveError
  <1>. QED  BY <1>1, <1>2, <1>3, <1>4, <1>5, <1>b, IdleSteps DEF MainStep

\* The agent answers the first request, or passes over some.
LEMMA AgentMovesOn ==
  ASSUME TypeOK, AgentStep(AgentMessage) \/ AgentStep(AgentEvent) \/ LoseRequest
  PROVE  Answers \/ Skips
  <1>. USE DEF AgentStep, daemonVars, mrtapVars, channelVars, lossVars, daemonSide
  <1>0. /\ d2a \in Seq(Requests) /\ Len(d2a) \in Nat
        /\ d2a # <<>> => /\ Head(d2a) \in Requests /\ Head(d2a).id \in Nat
                         /\ Tail(d2a) = SubSeq(d2a, 2, Len(d2a)) /\ Len(d2a) > 0
        /\ d2a = SubSeq(d2a, 1, Len(d2a))
    <2>1. d2a \in Seq(Requests)
      BY DEF TypeOK
    <2>2. \A m \in Requests : m.id \in Nat
      BY DEF Requests
    <2>3. ASSUME NEW S, NEW s \in Seq(S)
          PROVE  /\ Len(s) \in Nat /\ s = SubSeq(s, 1, Len(s))
                 /\ s # <<>> => Tail(s) = SubSeq(s, 2, Len(s)) /\ Len(s) > 0
      OBVIOUS
    <2>. QED  BY <2>1, <2>2, <2>3, HeadAndTail
  <1>1. CASE AgentStep(AgentMessage)
    <2>0. lastData \in Nat /\ NoHash \in Nat
      BY DEF TypeOK, AgentTypeOK, NoHash
    <2>1. CASE OpenAccepted(expired)
      BY <1>0, <1>1, <2>0, <2>1
      DEF OpenAccepted, OpenReceived, Answers, IsSyn, SynAckMsg, Replies, NoHash
    <2>6. CASE OpenRefused(expired)
      <3>0. \/ a2d' = Append(a2d, ErrorMsg(Head(d2a).id))
            \/ a2d' = Append(a2d, FatalMsg(Head(d2a).id))
        BY Zenon, <2>6 DEF OpenRefused
      <3>1. ASSUME NEW r, r \in Replies /\ r.of = Head(d2a).id /\ r.type \in {"Error",
                   "Fatal"},
                   a2d' = Append(a2d, r)
            PROVE  Answers
        BY <1>1, <2>6, <3>1 DEF OpenRefused, OpenReceived, Answers
      <3>2. ASSUME NEW id \in Nat
            PROVE  /\ ErrorMsg(id) \in Replies /\ FatalMsg(id) \in Replies
                   /\ ErrorMsg(id).of = id /\ FatalMsg(id).of = id
                   /\ ErrorMsg(id).type \in {"Error", "Fatal"}
                   /\ FatalMsg(id).type \in {"Error", "Fatal"}
        BY DEF ErrorMsg, FatalMsg, Replies, NoHash
      <3>3. Head(d2a).id \in Nat
        BY <1>0, <2>6 DEF OpenRefused, OpenReceived
      <3>. QED  BY Zenon, <3>0, <3>1, <3>2, <3>3
    <2>2. CASE SynAccepted(expired, NonceChecked) \/ SynRefused(expired)
      BY <1>0, <1>1, <2>0, <2>2
      DEF SynAccepted, SynRefused, SynReceived, Reply, Answers, IsSyn, SynAckMsg,
      ErrorMsg,
          Replies, NoHash
    <2>3. ASSUME NEW resp \in BOOLEAN, DataAccepted(expired, resp)
          PROVE  Answers
      BY <1>0, <1>1, <2>3
      DEF DataAccepted, DataReceived, Reply, Answers, DataAckMsg, Replies, NoHash
    <2>4. CASE DataFailed(expired) \/ DataRefused(expired)
      BY <1>0, <1>1, <2>4
      DEF DataFailed, DataRefused, DataReceived, Reply, Answers, FatalMsg, ErrorMsg,
          Replies, NoHash
    <2>5. CASE Unread
      BY <1>1, <2>5 DEF Unread, Answers
    <2>. QED  BY <1>1, <2>1, <2>2, <2>3, <2>4, <2>5, <2>6 DEF AgentMessage
  <1>2. CASE AgentStep(AgentEvent)
    BY <1>0, <1>2
    DEF AgentEvent, AgentStream, AgentPluginDone, CloseReceived, AgentOrphaned, Skips,
        wireVars
  <1>3. CASE LoseRequest
    BY <1>0, <1>3 DEF LoseRequest, Skips
  <1>. QED  BY <1>1, <1>2, <1>3

\* Every step is a move of the daemon or a step of the agent's side.
LEMMA DaemonMoves ==
  ASSUME TypeOK, OpeningInv, [Next]_vars
  PROVE  \/ Idles \/ Opens \/ Recovers \/ Validates \/ Pipes \/ Takes \/ Sends
         \/ AgentStep(AgentMessage) \/ AgentStep(AgentEvent) \/ LoseRequest
  <1>1. CASE DaemonStep(SenderStep)
    BY <1>1 DEF DaemonStep, SenderStep, TakeOutbox, SendOrDrop, Takes, Sends, Piped,
       wireVars,
       mrtapVars, agentVars, lossVars
  <1>2. CASE DaemonStep(ZapStep)
    BY <1>2, IdleSteps DEF DaemonStep, ZapStep, Pipes, agentVars, lossVars
  <1>. QED  BY <1>1, <1>2, IdleSteps, MainMoves DEF Next

\* Every step is a move.
LEMMA Moves ==
  ASSUME TypeOK, OpeningInv, [Next]_vars
  PROVE  \/ Idles \/ Opens \/ Recovers \/ Validates \/ Pipes \/ Takes \/ Sends
         \/ Answers \/ Skips
  BY DaemonMoves, AgentMovesOn

\* The sequences a step takes messages from and adds messages to.
LEMMA Wires ==
  ASSUME TypeOK
  PROVE  /\ pipelineMap \in Seq(Requests) /\ outbox \in Seq(Requests)
         /\ hand \in Seq(Requests) /\ d2a \in Seq(Requests) /\ a2d \in Seq(Replies)
         /\ nextId \in Nat /\ retries \in Nat /\ nextId - 1 \in Int
         /\ \A m \in Requests : m.id \in Nat
         /\ \A r \in Replies : r.of \in Nat
  BY DEF TypeOK, MrtapTypeOK, ChannelTypeOK, Requests, Replies

\* What is left of a sequence when its first message is taken.
LEMMA TailIs ==
  ASSUME NEW S, NEW s \in Seq(S), s # <<>>
  PROVE  /\ Tail(s) \in Seq(S) /\ Len(Tail(s)) = Len(s) - 1 /\ Len(s) \in Nat \ {0}
         /\ \A i \in DOMAIN Tail(s) : i + 1 \in DOMAIN s /\ Tail(s)[i] = s[i + 1]
         /\ 1 \in DOMAIN s /\ Head(s) = s[1]
  OBVIOUS

\* A sequence with a message appended.
LEMMA AppendIs ==
  ASSUME NEW S, NEW s \in Seq(S), NEW m \in S
  PROVE  /\ Append(s, m) \in Seq(S) /\ Len(Append(s, m)) = Len(s) + 1 /\ Len(s) \in Nat
         /\ \A i \in DOMAIN Append(s, m) :
              \/ i \in DOMAIN s /\ Append(s, m)[i] = s[i]
              \/ i = Len(s) + 1 /\ Append(s, m)[i] = m
  OBVIOUS

\* The end of a sequence.
LEMMA EndIs ==
  ASSUME NEW S, NEW s \in Seq(S), NEW c \in 0..Len(s)
  PROVE  /\ SubSeq(s, c + 1, Len(s)) \in Seq(S)
         /\ Len(SubSeq(s, c + 1, Len(s))) = Len(s) - c
         /\ \A i \in DOMAIN SubSeq(s, c + 1, Len(s)) :
              i + c \in DOMAIN s /\ SubSeq(s, c + 1, Len(s))[i] = s[i + c]
  OBVIOUS

\* A sequence without one of its messages, message by message.
LEMMA RemoveAtIs ==
  ASSUME NEW S, NEW s \in Seq(S), NEW c \in DOMAIN s
  PROVE  /\ RemoveAt(s, c) \in Seq(S) /\ Len(RemoveAt(s, c)) = Len(s) - 1
         /\ \A i \in DOMAIN RemoveAt(s, c) :
              /\ i \in DOMAIN s /\ i + 1 \in DOMAIN s
              /\ RemoveAt(s, c)[i] = IF i < c THEN s[i] ELSE s[i + 1]
  <1>. DEFINE a == SubSeq(s, 1, c - 1)
              b == SubSeq(s, c + 1, Len(s))
  <1>1. /\ a \in Seq(S) /\ Len(a) = c - 1
        /\ \A j \in 1..(c - 1) : a[j] = s[j]
    OBVIOUS
  <1>2. /\ b \in Seq(S) /\ Len(b) = Len(s) - c
        /\ \A j \in 1..(Len(s) - c) : b[j] = s[j + c]
    OBVIOUS
  <1>3. RemoveAt(s, c) = a \o b
    BY DEF RemoveAt
  <1>4. c \in 1..Len(s) /\ Len(s) \in Nat /\ DOMAIN s = 1..Len(s)
    OBVIOUS
  <1>. HIDE DEF a, b
  <1>5. /\ a \o b \in Seq(S) /\ Len(a \o b) = Len(s) - 1
        /\ \A j \in 1..Len(a \o b) :
             (a \o b)[j] = IF j <= Len(a) THEN a[j] ELSE b[j - Len(a)]
    BY <1>1, <1>2
  <1>6. ASSUME NEW i \in 1..(Len(s) - 1)
        PROVE  (a \o b)[i] = IF i < c THEN s[i] ELSE s[i + 1]
    <2>0. i \in 1..Len(a \o b)
      BY <1>5
    <2>1. CASE i < c
      <3>1. i <= Len(a) /\ i \in 1..(c - 1)
        BY <1>1, <1>4, <2>1
      <3>. QED  BY <1>1, <1>5, <2>0, <2>1, <3>1
    <2>2. CASE i >= c
      <3>1. /\ i - Len(a) \in 1..(Len(s) - c) /\ i - Len(a) + c = i + 1
            /\ ~(i <= Len(a)) /\ ~(i < c)
        BY <1>1, <1>4, <2>2
      <3>2. (a \o b)[i] = b[i - Len(a)]
        BY <1>5, <2>0, <3>1
      <3>3. b[i - Len(a)] = s[i + 1]
        BY <1>2, <3>1
      <3>. QED  BY <3>1, <3>2, <3>3
    <2>3. i < c \/ i >= c
      BY <1>4
    <2>. QED  BY Zenon, <2>1, <2>2, <2>3
  <1>7. DOMAIN (a \o b) = 1..(Len(s) - 1)
    BY <1>5
  <1>8. \A i \in 1..(Len(s) - 1) : i \in DOMAIN s /\ i + 1 \in DOMAIN s
    BY <1>4
  <1>9. \A i \in DOMAIN (a \o b) :
          /\ i \in DOMAIN s /\ i + 1 \in DOMAIN s
          /\ (a \o b)[i] = IF i < c THEN s[i] ELSE s[i + 1]
    BY <1>6, <1>7, <1>8
  <1>. QED  BY <1>3, <1>5, <1>9

\* The fields of a Data.
LEMMA DataFields ==
  ASSUME NEW m, NEW id, NEW c, NEW hp, NEW p, m = DataMsg(id, c, hp, p)
  PROVE  m.type = "Data" /\ m.id = id /\ m.hp = hp /\ m.payload = p
  BY DEF DataMsg

\* The ids of what resend builds.
LEMMA RebuiltIs ==
  ASSUME MrtapTypeOK, NEW msgs \in Seq(Requests), NEW ack \in AckHashes
  PROVE  /\ Len(Rebuilt(msgs, ack)) = Len(msgs)
         /\ \A i \in DOMAIN Rebuilt(msgs, ack) :
              /\ i \in DOMAIN msgs
              /\ Rebuilt(msgs, ack)[i].type = "Data"
              /\ Rebuilt(msgs, ack)[i].id = nextId + i - 1
              /\ Rebuilt(msgs, ack)[i].payload = msgs[i].payload
              /\ Rebuilt(msgs, ack)[i].hp.of =
                   IF i = 1 THEN ack.of ELSE nextId + i - 2
  <1>1. Len(Rebuilt(msgs, ack)) = Len(msgs) /\ Rebuilt(msgs, ack) \in Seq(Requests)
    BY RebuiltIsData
  <1>2. DOMAIN msgs = 1..Len(msgs)
    OBVIOUS
  <1>3. ASSUME NEW i \in DOMAIN msgs
        PROVE  Rebuilt(msgs, ack)[i] =
                 DataMsg(nextId + i - 1, cert,
                         IF i = 1 THEN ack ELSE AckHash(nextId + i - 2, FALSE),
                         msgs[i].payload)
    BY DEF Rebuilt
  <1>4. DOMAIN Rebuilt(msgs, ack) = DOMAIN msgs
    BY DEF Rebuilt
  <1>5. ASSUME NEW i \in DOMAIN msgs
        PROVE  Rebuilt(msgs, ack)[i].hp.of = IF i = 1 THEN ack.of ELSE nextId + i - 2
    <2>0. Rebuilt(msgs, ack)[i].hp = IF i = 1 THEN ack ELSE AckHash(nextId + i - 2, FALSE)
      <3>. DEFINE hp == IF i = 1 THEN ack ELSE AckHash(nextId + i - 2, FALSE)
      <3>1. Rebuilt(msgs, ack)[i] = DataMsg(nextId + i - 1, cert, hp, msgs[i].payload)
        BY <1>3
      <3>. HIDE DEF hp
      <3>2. Rebuilt(msgs, ack)[i].hp = hp
        BY <3>1, DataFields
      <3>. QED  BY <3>2 DEF hp
    <2>. QED  BY <2>0 DEF AckHash
  <1>6. ASSUME NEW i \in DOMAIN msgs
        PROVE  /\ Rebuilt(msgs, ack)[i].type = "Data"
               /\ Rebuilt(msgs, ack)[i].id = nextId + i - 1
               /\ Rebuilt(msgs, ack)[i].payload = msgs[i].payload
    <2>. DEFINE hp == IF i = 1 THEN ack ELSE AckHash(nextId + i - 2, FALSE)
    <2>1. Rebuilt(msgs, ack)[i] = DataMsg(nextId + i - 1, cert, hp, msgs[i].payload)
      BY <1>3
    <2>. HIDE DEF hp
    <2>. QED  BY <2>1, DataFields
  <1>. QED  BY Zenon, <1>1, <1>4, <1>5, <1>6

\* What resend builds again is no more than the map.
LEMMA ToResendIs ==
  ASSUME NEW map \in Seq(Requests), NEW nonce
  PROVE  /\ ToResend(map, nonce) \in Seq(Requests)
         /\ Len(ToResend(map, nonce)) <= Len(map)
  <1>1. CASE nonce \in Ids(map)
    <2>1. IndexOf(map, nonce) \in 1..Len(map)
      BY <1>1, IndexOfIsIndex
    <2>2. ToResend(map, nonce) = SubSeq(map, IndexOf(map, nonce) + 1, Len(map))
      BY <1>1 DEF ToResend
    <2>3. Len(map) \in Nat /\ IndexOf(map, nonce) \in 0..Len(map)
      BY <2>1
    <2>4. /\ SubSeq(map, IndexOf(map, nonce) + 1, Len(map)) \in Seq(Requests)
          /\ Len(SubSeq(map, IndexOf(map, nonce) + 1, Len(map))) =
               Len(map) - IndexOf(map, nonce)
      BY <2>3, EndIs
    <2>. QED  BY <2>2, <2>3, <2>4
  <1>2. CASE nonce \notin Ids(map)
    <2>1. ToResend(map, nonce) = <<>> \/ ToResend(map, nonce) = map
      BY <1>2 DEF ToResend
    <2>2. <<>> \in Seq(Requests) /\ Len(<<>>) <= Len(map)
      OBVIOUS
    <2>3. Len(map) <= Len(map)
      OBVIOUS
    <2>. QED  BY Zenon, <2>1, <2>2, <2>3
  <1>. QED  BY <1>1, <1>2

\* While the first handshake lasts, an answer is all there is.
LEMMA OneUnderWay ==
  ASSUME TypeOK, OpeningInv, Opening, phase # "dead", a2d # <<>>, IsAnswer(Head(a2d))
  PROVE  /\ outbox = <<>> /\ hand = <<>> /\ d2a = <<>>
         /\ \A i \in DOMAIN Tail(a2d) : ~IsAnswer(Tail(a2d)[i])
  <1>1. /\ 1 \in DOMAIN a2d /\ a2d[1] = Head(a2d)
        /\ \A i \in DOMAIN Tail(a2d) : i + 1 \in DOMAIN a2d /\ Tail(a2d)[i] = a2d[i + 1]
    BY Wires, TailIs
  <1>2. \A i \in DOMAIN Tail(a2d) : i \in Nat \ {0}
    BY Wires, TailIs
  <1>3. Len(outbox) \in Nat /\ Len(hand) \in Nat /\ Len(d2a) \in Nat
    BY Wires
  <1>4. Len(outbox) + Len(hand) + Len(d2a) <= 1
    BY DEF OpeningInv
  <1>5. Len(outbox) + Len(hand) + Len(d2a) # 1
    BY <1>1 DEF OpeningInv, NoAnswer
  <1>6. Len(outbox) = 0 /\ Len(hand) = 0 /\ Len(d2a) = 0
    BY <1>3, <1>4, <1>5
  <1>7. \A i, j \in DOMAIN a2d : IsAnswer(a2d[i]) /\ IsAnswer(a2d[j]) => i = j
    BY DEF OpeningInv
  <1>8. outbox = <<>> /\ hand = <<>> /\ d2a = <<>>
    BY <1>6, Wires
  <1>. QED  BY <1>1, <1>2, <1>7, <1>8

\* Answers that are taken from the front leave no new ones.
LEMMA FewerAnswers ==
  ASSUME TypeOK, a2d' = a2d \/ (a2d # <<>> /\ a2d' = Tail(a2d))
  PROVE  /\ NoAnswer => NoAnswer'
         /\ (\A i, j \in DOMAIN a2d : IsAnswer(a2d[i]) /\ IsAnswer(a2d[j]) => i = j)
              => \A i, j \in DOMAIN a2d' : IsAnswer(a2d'[i]) /\ IsAnswer(a2d'[j]) => i = j
  <1>1. CASE a2d' = a2d
    BY <1>1 DEF NoAnswer
  <1>2. CASE a2d # <<>> /\ a2d' = Tail(a2d)
    <2>1. \A i \in DOMAIN a2d' : i + 1 \in DOMAIN a2d /\ a2d'[i] = a2d[i + 1] /\ i \in Nat
      BY <1>2, Wires, TailIs
    <2>2. \A i \in DOMAIN a2d' : a2d'[i] = a2d[i + 1] /\ i + 1 \in DOMAIN a2d
      BY <2>1
    <2>3. NoAnswer => NoAnswer'
      BY <2>2 DEF NoAnswer
    <2>4. ASSUME \A i, j \in DOMAIN a2d : IsAnswer(a2d[i]) /\ IsAnswer(a2d[j]) => i = j,
                 NEW i \in DOMAIN a2d', NEW j \in DOMAIN a2d',
                 IsAnswer(a2d'[i]), IsAnswer(a2d'[j])
          PROVE  i = j
      <3>1. IsAnswer(a2d[i + 1]) /\ IsAnswer(a2d[j + 1])
        BY <2>2, <2>4
      <3>2. i + 1 = j + 1
        BY <2>1, <2>4, <3>1
      <3>. QED  BY <2>1, <3>2
    <2>. QED  BY <2>3, <2>4
  <1>. QED  BY <1>1, <1>2

\* A step that leaves less under way, or as much as there was.
LEMMA OpeningLess ==
  ASSUME TypeOK, TypeOK', OpeningInv,
         a2d' = a2d \/ (a2d # <<>> /\ a2d' = Tail(a2d)),
         Opening' => Opening,
         phase' \in {"new", "handshake"} => phase' = phase /\ Opening',
         phase' = "new" => UNCHANGED <<pipelineMap, outbox, hand, d2a>>,
         phase = "dead" => phase' = "dead",
         phase' = "dead" \/
           Len(outbox') + Len(hand') + Len(d2a') <= Len(outbox) + Len(hand) + Len(d2a)
  PROVE  OpeningInv'
  <1>1. Len(outbox) + Len(hand) + Len(d2a) \in Nat
          /\ Len(outbox') + Len(hand') + Len(d2a') \in Nat
    <2>1. /\ outbox \in Seq(Requests) /\ hand \in Seq(Requests) /\ d2a \in Seq(Requests)
          /\ outbox' \in Seq(Requests) /\ hand' \in Seq(Requests)
               /\ d2a' \in Seq(Requests)
      BY DEF TypeOK, MrtapTypeOK, ChannelTypeOK
    <2>. QED  BY <2>1
  <1>2. phase' = "new" => /\ pipelineMap' = <<>> /\ outbox' = <<>> /\ hand' = <<>>
                          /\ d2a' = <<>> /\ NoAnswer'
    BY FewerAnswers DEF OpeningInv
  <1>3. ASSUME Opening', phase' # "dead"
        PROVE  /\ Len(outbox') + Len(hand') + Len(d2a') <= 1
               /\ Len(outbox') + Len(hand') + Len(d2a') = 1 => NoAnswer'
               /\ \A i, j \in DOMAIN a2d' : IsAnswer(a2d'[i]) /\ IsAnswer(a2d'[j])
                    => i = j
    <2>1. Opening /\ phase # "dead"
      BY <1>3
    <2>2. /\ Len(outbox) + Len(hand) + Len(d2a) <= 1
          /\ Len(outbox) + Len(hand) + Len(d2a) = 1 => NoAnswer
          /\ \A i, j \in DOMAIN a2d : IsAnswer(a2d[i]) /\ IsAnswer(a2d[j]) => i = j
      BY <2>1 DEF OpeningInv
    <2>3. Len(outbox') + Len(hand') + Len(d2a') = 1
            => Len(outbox) + Len(hand) + Len(d2a) = 1
      BY <1>1, <1>3, <2>2
    <2>4. Len(outbox') + Len(hand') + Len(d2a') <= 1
      BY <1>1, <1>3, <2>2
    <2>. QED  BY <2>2, <2>3, <2>4, FewerAnswers
  <1>. QED  BY <1>2, <1>3 DEF OpeningInv

\* Once the first handshake is over nothing has to be shown.
LEMMA OpeningOver ==
  ASSUME ~Opening', phase' \notin {"new", "handshake"}
  PROVE  OpeningInv'
  BY DEF OpeningInv

\* Every move keeps OpeningInv.
LEMMA OpeningStep ==
  ASSUME TypeOK, TypeOK', OpeningInv,
         \/ Idles \/ Opens \/ Recovers \/ Validates \/ Pipes \/ Takes \/ Sends
         \/ Answers \/ Skips
  PROVE  OpeningInv'
  <1>0. /\ outbox \in Seq(Requests) /\ hand \in Seq(Requests) /\ d2a \in Seq(Requests)
        /\ Len(outbox) \in Nat /\ Len(hand) \in Nat /\ Len(d2a) \in Nat
    BY Wires
  <1>1. CASE Idles
    <2>1. Opening' => Opening
      BY Zenon, <1>1 DEF Idles, Opening
    <2>2. phase' \in {"new", "handshake"} => phase' = phase /\ Opening'
      <3>1. phase' \in {"new", "handshake"} => phase' = phase
        BY <1>1 DEF Idles
      <3>2. ASSUME phase' \in {"new", "handshake"}
            PROVE  handshakeDone' = handshakeDone /\ recovering' = recovering
        BY <1>1, <3>2 DEF Idles
      <3>3. ASSUME phase' \in {"new", "handshake"}  PROVE Opening'
        <4>1. Opening
          BY <3>1, <3>3 DEF OpeningInv
        <4>2. handshakeDone = FALSE /\ recovering = FALSE
          BY Zenon, <4>1 DEF Opening, TypeOK, MrtapTypeOK, FlagsOK
        <4>3. handshakeDone' = FALSE /\ recovering' = FALSE
          BY <3>2, <3>3, <4>2
        <4>. QED  BY Zenon, <4>3 DEF Opening
      <3>. QED  BY <3>1, <3>3
    <2>3. a2d' = a2d \/ (a2d # <<>> /\ a2d' = Tail(a2d))
      BY <1>1 DEF Idles
    <2>4. UNCHANGED <<pipelineMap, outbox, hand>> /\ (phase' = "dead" \/ d2a' = d2a)
      BY <1>1 DEF Idles
    <2>5. phase = "dead" => phase' = "dead"
      BY <1>1 DEF Idles
    <2>. QED  BY <1>0, <2>1, <2>2, <2>3, <2>4, <2>5, OpeningLess
  <1>2. CASE Opens
    <2>1. Opening /\ phase # "dead"
      BY <1>2 DEF Opens, OpeningInv
    <2>2. Opening'
      BY Zenon, <1>2, <2>1 DEF Opens, BuildSyn, Opening
    <2>3. outbox = <<>> /\ hand = <<>> /\ d2a = <<>> /\ NoAnswer'
      <3>1. CASE phase = "new"
        <4>1. a2d' = a2d
          BY <1>2, <3>1 DEF Opens
        <4>. QED  BY <3>1, <4>1 DEF OpeningInv, NoAnswer
      <3>2. CASE phase # "new"
        <4>1. a2d # <<>> /\ IsAnswer(Head(a2d)) /\ a2d' = Tail(a2d)
          BY <1>2, <3>2 DEF Opens
        <4>. QED  BY <2>1, <4>1, OneUnderWay DEF NoAnswer
      <3>. QED  BY <3>1, <3>2
    <2>4. Len(outbox') + Len(hand') + Len(d2a') <= 1
      <3>1. hand' = <<>>
        BY <1>2, <2>3 DEF Opens
      <3>2. CASE Attach
        <4>1. Len(outbox') = 1 /\ Len(d2a') = 0
          BY <1>2, <2>3, <3>2 DEF Opens, BuildSyn
        <4>. QED  BY <3>1, <4>1
      <3>3. CASE ~Attach
        <4>1. Len(outbox') = 0 /\ Len(d2a') = 1
          BY <1>2, <2>3, <3>3 DEF Opens, BuildSyn
        <4>. QED  BY <3>1, <4>1
      <3>. QED  BY <3>2, <3>3
    <2>5. phase' = "handshake"
      BY <1>2 DEF Opens
    <2>. QED  BY <2>2, <2>3, <2>4, <2>5 DEF OpeningInv, NoAnswer
  <1>3. CASE Recovers
    <2>1. ~Opening'
      BY Zenon, <1>3 DEF Recovers, Opening
    <2>. QED  BY <1>3, <2>1, OpeningOver DEF Recovers
  <1>4. CASE Validates
    <2>0. phase' \in {"running", "draining"}
            /\ phase \in {"handshake", "running", "draining"}
      BY <1>4 DEF Validates
    <2>1. CASE ValidateSynAck(Head(a2d))
      <3>1. ~Opening'
        BY Zenon, <2>1 DEF ValidateSynAck, Opening
      <3>. QED  BY <2>0, <3>1, OpeningOver
    <2>2. CASE ValidateDataAck(Head(a2d))
      <3>1. Opening' => Opening
        BY Zenon, <2>2 DEF ValidateDataAck, Opening
      <3>2. a2d # <<>> /\ a2d' = Tail(a2d)
        BY <1>4 DEF Validates
      <3>3. UNCHANGED <<outbox, hand, d2a>>
        BY <1>4, <2>2 DEF Validates, ValidateDataAck
      <3>. QED  BY <1>0, <2>0, <3>1, <3>2, <3>3, OpeningLess
    <2>. QED  BY <1>4, <2>1, <2>2 DEF Validates
  <1>5. CASE Pipes
    <2>1. handshakeDone /\ handshakeDone' /\ ~Opening /\ ~Opening'
      BY Zenon, <1>5 DEF Pipes, PipeOutput, Inbox, Opening
    <2>2. phase' = phase
      BY <1>5 DEF Pipes, PipeOutput
    <2>3. phase \notin {"new", "handshake"}
      BY <2>1 DEF OpeningInv
    <2>. QED  BY <2>1, <2>2, <2>3, OpeningOver
  <1>6. CASE Takes
    <2>1. Opening' <=> Opening
      BY Zenon, <1>6 DEF Takes, Opening
    <2>2. UNCHANGED <<a2d, d2a, phase>> /\ phase # "new"
      BY <1>6 DEF Takes, OpeningInv
    <2>3. Len(outbox') = Len(outbox) - 1 /\ Len(hand') = 1 /\ Len(hand) = 0
      BY <1>0, <1>6, TailIs DEF Takes
    <2>4. Len(outbox') + Len(hand') + Len(d2a') <= Len(outbox) + Len(hand) + Len(d2a)
      BY <1>0, <2>2, <2>3
    <2>5. phase' \in {"new", "handshake"} => Opening'
      BY <2>1, <2>2 DEF OpeningInv
    <2>. QED  BY <2>1, <2>2, <2>4, <2>5, OpeningLess
  <1>7. CASE Sends
    <2>1. Opening' <=> Opening
      BY Zenon, <1>7 DEF Sends, Opening
    <2>2. UNCHANGED <<a2d, outbox, phase>> /\ phase # "new"
      BY <1>7 DEF Sends, OpeningInv
    <2>3. Len(hand') = 0 /\ Len(hand) > 0 /\ Len(d2a') <= Len(d2a) + 1
      <3>1. Head(hand) \in Requests /\ Len(hand) \in Nat \ {0}
        BY <1>0, <1>7, HeadAndTail, TailIs DEF Sends
      <3>. QED  BY <1>0, <1>7, <3>1, AppendIs DEF Sends
    <2>4. Len(outbox') + Len(hand') + Len(d2a') <= Len(outbox) + Len(hand) + Len(d2a)
      <3>1. Len(d2a') \in Nat
        <4>1. d2a' \in Seq(Requests)
          BY DEF TypeOK
        <4>. QED  BY <4>1
      <3>. QED  BY <1>0, <2>2, <2>3, <3>1
    <2>5. phase' \in {"new", "handshake"} => Opening'
      BY <2>1, <2>2 DEF OpeningInv
    <2>. QED  BY <2>1, <2>2, <2>4, <2>5, OpeningLess
  <1>8. CASE Answers
    <2>1. Opening' <=> Opening
      BY Zenon, <1>8 DEF Answers, daemonSide, Opening
    <2>2. UNCHANGED <<pipelineMap, outbox, hand, phase>> /\ phase # "new"
      BY <1>8 DEF Answers, daemonSide, OpeningInv
    <2>3. Len(d2a') = Len(d2a) - 1 /\ Len(d2a) > 0 /\ d2a' \in Seq(Requests)
      BY <1>0, <1>8, TailIs DEF Answers
    <2>4. phase' \in {"new", "handshake"} => Opening'
      BY <2>1, <2>2 DEF OpeningInv
    <2>5. CASE a2d' = a2d
      <3>1. Len(outbox') + Len(hand') + Len(d2a') <= Len(outbox) + Len(hand) + Len(d2a)
        BY <1>0, <2>2, <2>3
      <3>. QED  BY <2>1, <2>2, <2>4, <2>5, <3>1, OpeningLess
    <2>6. ASSUME NEW r \in Replies, a2d' = Append(a2d, r)
          PROVE  OpeningInv'
      <3>1. ASSUME Opening, phase # "dead"
            PROVE  NoAnswer /\ Len(outbox') + Len(hand') + Len(d2a') = 0
        <4>1. Len(outbox) + Len(hand) + Len(d2a) <= 1
          BY <3>1 DEF OpeningInv
        <4>2. Len(outbox) + Len(hand) + Len(d2a) = 1
          BY <1>0, <2>3, <4>1
        <4>3. Len(outbox') + Len(hand') + Len(d2a') = 0
          BY <1>0, <2>2, <2>3, <4>2
        <4>. QED  BY <3>1, <4>2, <4>3 DEF OpeningInv
      <3>2. \A i \in DOMAIN a2d' :
              (i \in DOMAIN a2d /\ a2d'[i] = a2d[i]) \/ i = Len(a2d) + 1
        BY <2>6, Wires, AppendIs
      <3>3. NoAnswer => \A i, j \in DOMAIN a2d' : IsAnswer(a2d'[i])
              /\ IsAnswer(a2d'[j]) => i = j
        BY <3>2 DEF NoAnswer
      <3>. QED  BY <2>1, <2>2, <2>4, <3>1, <3>3 DEF OpeningInv
    <2>. QED  BY <1>8, <2>5, <2>6 DEF Answers
  <1>9. CASE Skips
    <2>1. Opening' <=> Opening
      BY Zenon, <1>9 DEF Skips, daemonSide, Opening
    <2>2. UNCHANGED <<pipelineMap, outbox, hand, phase>>
      BY <1>9 DEF Skips, daemonSide
    <2>3. Len(d2a') <= Len(d2a) /\ d2a' \in Seq(Requests) /\ Len(d2a') \in Nat
      BY <1>0, <1>9, EndIs DEF Skips
    <2>4. phase' \in {"new", "handshake"} => Opening'
      BY <2>1, <2>2 DEF OpeningInv
    <2>5. \A i \in DOMAIN a2d' : \/ i \in DOMAIN a2d /\ a2d'[i] = a2d[i]
                                 \/ ~IsAnswer(a2d'[i])
      <3>1. StreamMsg \in Replies /\ ~IsAnswer(StreamMsg)
        BY DEF StreamMsg, NoHash, Replies, IsAnswer
      <3>. QED  BY <1>9, <3>1, Wires, AppendIs DEF Skips
    <2>6. Len(outbox') + Len(hand') + Len(d2a') <= Len(outbox) + Len(hand) + Len(d2a)
      BY <1>0, <2>2, <2>3
    <2>7. phase = "new" => d2a' = <<>>
      <3>1. phase = "new" => Len(d2a) = 0
        BY DEF OpeningInv
      <3>. QED  BY <1>0, <2>3, <3>1
    <2>8. Len(outbox') + Len(hand') + Len(d2a') \in Nat
      BY <1>0, <2>2, <2>3
    <2>9. ASSUME Opening, phase # "dead"
          PROVE  /\ Len(outbox') + Len(hand') + Len(d2a') <= 1
                 /\ Len(outbox') + Len(hand') + Len(d2a') = 1 =>
                      Len(outbox) + Len(hand) + Len(d2a) = 1
      <3>1. Len(outbox) + Len(hand) + Len(d2a) <= 1
        BY <2>9 DEF OpeningInv
      <3>. QED  BY <1>0, <2>6, <2>8, <3>1
    <2>10. NoAnswer => NoAnswer'
      BY <2>5 DEF NoAnswer
    <2>. QED
      BY <2>1, <2>2, <2>4, <2>5, <2>7, <2>9, <2>10 DEF OpeningInv
  <1>. QED  BY <1>1, <1>2, <1>3, <1>4, <1>5, <1>6, <1>7, <1>8, <1>9

\* A message built last goes to the end of the pipeline, and of the outbox.
LEMMA AscendsAppend ==
  ASSUME NEW map \in Seq(Requests), NEW n \in Nat, 0 < n, Ascends(map, n),
         NEW m \in Requests, m.id = n
  PROVE  Ascends(Append(map, m), n + 1)
  <1>. DEFINE new == Append(map, m)
  <1>1. \A i \in DOMAIN map : map[i].id \in Nat
    <2>1. \A r \in Requests : r.id \in Nat
      BY DEF Requests
    <2>. QED  BY <2>1
  <1>2. \A i \in DOMAIN new : i \in Nat /\ (\/ i \in DOMAIN map /\ new[i] = map[i]
                                            \/ i = Len(map) + 1 /\ new[i] = m)
    BY AppendIs
  <1>3. Len(map) \in Nat /\ \A i \in DOMAIN map : i <= Len(map) /\ i \in Nat
    OBVIOUS
  <1>. HIDE DEF new
  <1>4. ASSUME NEW i \in DOMAIN new  PROVE 0 < new[i].id /\ new[i].id < n + 1
    BY <1>1, <1>2 DEF Ascends
  <1>5. ASSUME NEW i \in DOMAIN new, NEW j \in DOMAIN new, i < j
        PROVE  new[i].id < new[j].id
    <2>1. i \in DOMAIN map /\ new[i] = map[i]
      BY <1>2, <1>3, <1>5
    <2>2. CASE j \in DOMAIN map /\ new[j] = map[j]
      BY <1>5, <2>1, <2>2 DEF Ascends
    <2>3. CASE j = Len(map) + 1 /\ new[j] = m
      BY <2>1, <2>3 DEF Ascends
    <2>. QED  BY <1>2, <2>2, <2>3
  <1>6. Ascends(new, n + 1)
    BY <1>4, <1>5 DEF Ascends
  <1>. QED  BY <1>6 DEF new

\* A message built is appended to the map and to the outbox alike.
LEMMA EndAppend ==
  ASSUME NEW q \in Seq(Requests), NEW map \in Seq(Requests), IsEndOf(q, map),
         NEW m \in Requests
  PROVE  IsEndOf(Append(q, m), Append(map, m))
  <1>. DEFINE nq == Append(q, m)
              nm == Append(map, m)
  <1>1. /\ Len(nq) = Len(q) + 1 /\ Len(q) \in Nat
        /\ \A i \in 1..Len(q) : nq[i] = q[i]
        /\ nq[Len(q) + 1] = m /\ DOMAIN nq = 1..(Len(q) + 1)
    OBVIOUS
  <1>2. /\ Len(nm) = Len(map) + 1 /\ Len(map) \in Nat
        /\ \A i \in 1..Len(map) : nm[i] = map[i]
        /\ nm[Len(map) + 1] = m /\ DOMAIN nm = 1..(Len(map) + 1)
    OBVIOUS
  <1>3. DOMAIN q = 1..Len(q)
    OBVIOUS
  <1>. HIDE DEF nq, nm
  <1>4. Len(q) <= Len(map) /\ \A i \in 1..Len(q) : q[i] = map[i + (Len(map) - Len(q))]
    BY <1>3 DEF IsEndOf
  <1>5. ASSUME NEW i \in 1..(Len(q) + 1)
        PROVE  nq[i] = nm[i + (Len(nm) - Len(nq))]
    <2>1. i + (Len(nm) - Len(nq)) = i + (Len(map) - Len(q))
      BY <1>1, <1>2
    <2>2. CASE i \in 1..Len(q)
      <3>1. i + (Len(map) - Len(q)) \in 1..Len(map)
        BY <1>1, <1>2, <1>4, <2>2
      <3>. QED  BY <1>1, <1>2, <1>4, <2>1, <2>2, <3>1
    <2>3. CASE i = Len(q) + 1
      <3>1. i + (Len(map) - Len(q)) = Len(map) + 1
        BY <1>1, <1>2, <2>3
      <3>. QED  BY <1>1, <1>2, <2>1, <2>3, <3>1
    <2>. QED  BY <1>1, <2>2, <2>3
  <1>6. IsEndOf(nq, nm)
    BY <1>1, <1>2, <1>4, <1>5 DEF IsEndOf
  <1>. QED  BY <1>6 DEF nq, nm

\* A message acked leaves the pipeline, and is not in the outbox.
LEMMA AscendsRemove ==
  ASSUME NEW map \in Seq(Requests), NEW n \in Nat, Ascends(map, n), NEW c \in DOMAIN map
  PROVE  Ascends(RemoveAt(map, c), n)
  <1>. DEFINE new == RemoveAt(map, c)
              Old(i) == IF i < c THEN i ELSE i + 1
  <1>1. \A i \in DOMAIN new : Old(i) \in DOMAIN map /\ new[i] = map[Old(i)]
    BY RemoveAtIs
  <1>2. \A i \in DOMAIN new : i \in Nat
    <2>1. new \in Seq(Requests)
      BY RemoveAtIs
    <2>. HIDE DEF new
    <2>. QED  BY <2>1
  <1>3. c \in Nat
    OBVIOUS
  <1>4. \A i, j \in DOMAIN new : i < j => Old(i) < Old(j)
    BY <1>2, <1>3
  <1>. HIDE DEF new, Old
  <1>5. Ascends(new, n)
    BY <1>1, <1>4 DEF Ascends
  <1>. QED  BY <1>5 DEF new

\* Acking a message that has left the outbox.
LEMMA EndRemove ==
  ASSUME NEW q \in Seq(Requests), NEW map \in Seq(Requests), IsEndOf(q, map),
         NEW c \in DOMAIN map, c <= Len(map) - Len(q)
  PROVE  IsEndOf(q, RemoveAt(map, c))
  <1>. DEFINE new == RemoveAt(map, c)
  <1>1. /\ new \in Seq(Requests) /\ Len(new) = Len(map) - 1
        /\ \A i \in DOMAIN new : new[i] = IF i < c THEN map[i] ELSE map[i + 1]
    BY RemoveAtIs
  <1>. HIDE DEF new
  <1>2. /\ DOMAIN new = 1..Len(new) /\ DOMAIN q = 1..Len(q) /\ Len(q) \in Nat
        /\ DOMAIN map = 1..Len(map) /\ Len(map) \in Nat
    BY <1>1
  <1>3. Len(q) <= Len(new)
    BY <1>1, <1>2
  <1>4. ASSUME NEW i \in 1..Len(q)  PROVE q[i] = new[i + (Len(new) - Len(q))]
    <2>1. /\ i + (Len(new) - Len(q)) \in 1..Len(new)
          /\ ~(i + (Len(new) - Len(q)) < c)
          /\ i + (Len(new) - Len(q)) + 1 = i + (Len(map) - Len(q))
      BY <1>1, <1>2
    <2>2. new[i + (Len(new) - Len(q))] = map[i + (Len(new) - Len(q)) + 1]
      BY <1>1, <1>2, <2>1
    <2>3. q[i] = map[i + (Len(map) - Len(q))]
      BY <1>2 DEF IsEndOf
    <2>. QED  BY <2>1, <2>2, <2>3
  <1>5. IsEndOf(q, new)
    BY <1>2, <1>3, <1>4 DEF IsEndOf
  <1>. QED  BY <1>5 DEF new

\* Taking a message from the outbox.
LEMMA EndTail ==
  ASSUME NEW q \in Seq(Requests), NEW map \in Seq(Requests), IsEndOf(q, map), q # <<>>
  PROVE  IsEndOf(Tail(q), map)
  <1>. DEFINE new == Tail(q)
  <1>1. /\ new \in Seq(Requests) /\ Len(new) = Len(q) - 1 /\ Len(q) \in Nat \ {0}
        /\ \A i \in DOMAIN new : i + 1 \in DOMAIN q /\ new[i] = q[i + 1]
    BY TailIs
  <1>. HIDE DEF new
  <1>2. DOMAIN new = 1..Len(new) /\ Len(map) \in Nat
    BY <1>1
  <1>3. ASSUME NEW i \in DOMAIN new  PROVE new[i] = map[i + (Len(map) - Len(new))]
    <2>1. q[i + 1] = map[i + 1 + (Len(map) - Len(q))]
      BY <1>1 DEF IsEndOf
    <2>2. i + 1 + (Len(map) - Len(q)) = i + (Len(map) - Len(new))
      BY <1>1, <1>2
    <2>. QED  BY <1>1, <2>1, <2>2
  <1>4. Len(new) <= Len(map)
    BY <1>1, <1>2 DEF IsEndOf
  <1>5. IsEndOf(new, map)
    BY <1>3, <1>4 DEF IsEndOf
  <1>. QED  BY <1>5 DEF new

\* After resend the outbox is the map.
LEMMA EndOfItself ==
  ASSUME NEW map \in Seq(Requests)
  PROVE  IsEndOf(map, map) /\ IsEndOf(<<>>, map)
  <1>1. Len(map) \in Nat /\ \A i \in DOMAIN map : i + (Len(map) - Len(map)) = i
    OBVIOUS
  <1>2. DOMAIN <<>> = {} /\ Len(<<>>) = 0
    OBVIOUS
  <1>. QED  BY <1>1, <1>2 DEF IsEndOf

\* A message that was sent is before those in the outbox.
LEMMA SentIsBefore ==
  ASSUME TypeOK, QueueInv, NEW c \in DOMAIN pipelineMap, Sent(pipelineMap[c].id)
  PROVE  c <= Len(pipelineMap) - Len(outbox)
  <1>1. /\ Len(outbox) \in Nat /\ Len(pipelineMap) \in Nat /\ c \in 1..Len(pipelineMap)
        /\ DOMAIN outbox = 1..Len(outbox) /\ pipelineMap[c].id \in Nat
    BY Wires
  <1>2. ASSUME c > Len(pipelineMap) - Len(outbox)  PROVE FALSE
    <2>. DEFINE i == c - (Len(pipelineMap) - Len(outbox))
    <2>1. i \in DOMAIN outbox /\ i + (Len(pipelineMap) - Len(outbox)) = c
      BY <1>1, <1>2
    <2>2. outbox[i] = pipelineMap[c]
      BY <2>1 DEF QueueInv, IsEndOf
    <2>. QED  BY <1>1, <2>1, <2>2 DEF Sent
  <1>. QED  BY <1>1, <1>2

\* When the last message built has been sent, the outbox is empty.
LEMMA NewestSent ==
  ASSUME TypeOK, QueueInv, Sent(nextId - 1)
  PROVE  outbox = <<>>
  <1>1. /\ Len(outbox) \in Nat /\ Len(pipelineMap) \in Nat /\ outbox \in Seq(Requests)
        /\ DOMAIN outbox = 1..Len(outbox) /\ DOMAIN pipelineMap = 1..Len(pipelineMap)
        /\ \A i \in DOMAIN outbox : outbox[i].id \in Nat
        /\ nextId \in Nat
    BY Wires
  <1>2. ASSUME outbox # <<>>  PROVE FALSE
    <2>1. 1 \in DOMAIN outbox
      BY <1>1, <1>2
    <2>2. /\ outbox[1] = pipelineMap[1 + (Len(pipelineMap) - Len(outbox))]
          /\ 1 + (Len(pipelineMap) - Len(outbox)) \in DOMAIN pipelineMap
      BY <1>1, <2>1 DEF QueueInv, IsEndOf
    <2>3. outbox[1].id < nextId
      BY <2>2 DEF QueueInv, Ascends
    <2>. QED  BY <1>1, <2>1, <2>3 DEF Sent
  <1>. QED  BY <1>2

\* What resend builds is the new pipeline.
LEMMA RebuiltAscends ==
  ASSUME MrtapTypeOK, 0 < nextId, NEW msgs \in Seq(Requests), NEW ack \in AckHashes
  PROVE  Ascends(Rebuilt(msgs, ack), nextId + Len(msgs))
  <1>. DEFINE new == Rebuilt(msgs, ack)
  <1>1. /\ new \in Seq(Requests) /\ Len(new) = Len(msgs)
        /\ \A i \in DOMAIN new : new[i].id = nextId + i - 1
    BY RebuiltIs, RebuiltIsData
  <1>. HIDE DEF new
  <1>2. \A i \in DOMAIN new : i \in Nat /\ 1 <= i /\ i <= Len(msgs)
    BY <1>1
  <1>3. nextId \in Nat /\ Len(msgs) \in Nat
    BY DEF MrtapTypeOK
  <1>4. Ascends(new, nextId + Len(msgs))
    BY <1>1, <1>2, <1>3 DEF Ascends
  <1>. QED  BY <1>4 DEF new

\* What the steps do to the pipeline and the outbox.
LEMMA BuildSynDoes ==
  ASSUME TypeOK, NEW send \in BOOLEAN, BuildSyn(send)
  PROVE  \E syn \in Requests :
           /\ syn.id = nextId /\ syn.type = "Syn" /\ nextId' = nextId + 1
           /\ pipelineMap' = Append(pipelineMap, syn)
           /\ outbox' = IF send THEN Append(outbox, syn) ELSE outbox
  <1>1. nextId \in Nat /\ RefreshedCert \in Nat
    BY DEF TypeOK, MrtapTypeOK, RefreshedCert
  <1>. DEFINE syn == SynMsg(nextId, RefreshedCert)
  <1>2. syn \in Requests /\ syn.id = nextId /\ syn.type = "Syn"
    BY <1>1 DEF SynMsg, NoAck, AckHash, AckHashes, NoHash, Requests
  <1>3. /\ nextId' = nextId + 1
        /\ pipelineMap' = Append(pipelineMap, syn)
        /\ outbox' = IF send THEN Append(outbox, syn) ELSE outbox
    BY DEF BuildSyn
  <1>. HIDE DEF syn
  <1>. QED  BY <1>2, <1>3

\* Inbox.
LEMMA PipesDoes ==
  ASSUME TypeOK, Pipes
  PROVE  \/ UNCHANGED <<pipelineMap, outbox, nextId>>
         \/ \E data \in Requests :
              /\ data.id = nextId /\ data.type = "Data" /\ nextId' = nextId + 1
              /\ pipelineMap' = Append(pipelineMap, data)
              /\ outbox' = Append(outbox, data)
  <1>1. MrtapTypeOK /\ taken \in Nat
    BY DEF TypeOK, ChannelTypeOK
  <1>. DEFINE hp == NextHPointer(pipelineMap, lastAck)
              data == DataMsg(nextId, cert, hp, taken)
  <1>2. hp \in AckHashes
    <2>1. CASE pipelineMap = <<>>
      BY <1>1, <2>1 DEF NextHPointer, MrtapTypeOK
    <2>2. CASE pipelineMap # <<>>
      <3>1. Last(pipelineMap) \in Requests
        BY <1>1, <2>2 DEF MrtapTypeOK, Last
      <3>2. Last(pipelineMap).id \in Nat
        BY <3>1 DEF Requests
      <3>. QED  BY <2>2, <3>2 DEF NextHPointer, AckHash, AckHashes
    <2>. QED  BY <2>1, <2>2
  <1>. HIDE DEF hp
  <1>3. data \in Requests /\ data.id = nextId /\ data.type = "Data"
    BY <1>1, <1>2 DEF DataMsg, Requests, MrtapTypeOK
  <1>4. \/ /\ pipelineMap' = Append(pipelineMap, data)
           /\ outbox' = Append(outbox, data)
           /\ nextId' = nextId + 1
        \/ UNCHANGED <<pipelineMap, outbox, nextId>>
    BY DEF Pipes, PipeOutput, Inbox, data, hp
  <1>. HIDE DEF data
  <1>. QED  BY <1>3, <1>4

\* Validate on a SynAck: the outbox was empty, and is the new map.
LEMMA SynAckDoes ==
  ASSUME TypeOK, QueueInv, NEW msg \in Replies, ValidateSynAck(msg),
         Sent(msg.of), Newest(msg.of)
  PROVE  /\ outbox = <<>> /\ outbox' = pipelineMap' /\ msg.of = nextId - 1
         /\ nextId' = nextId + Len(pipelineMap') /\ Len(pipelineMap') \in Nat
         /\ Len(pipelineMap') < Len(pipelineMap)
         /\ \A i \in DOMAIN pipelineMap' :
              /\ pipelineMap'[i].type = "Data" /\ pipelineMap'[i].id \in Nat
              /\ pipelineMap'[i].id >= nextId
         /\ Ascends(pipelineMap', nextId')
  <1>. DEFINE ack == AckHash(msg.of, msg.resp)
              left == Without(pipelineMap, msg.of)
              msgs == ToResend(left, msg.nonce)
              data == Rebuilt(msgs, ack)
  <1>1. ack \in AckHashes /\ MrtapTypeOK /\ pipelineMap \in Seq(Requests)
    BY DEF Replies, AckHash, AckHashes, TypeOK, MrtapTypeOK
  <1>2. msg.of \in Ids(pipelineMap)
    BY DEF ValidateSynAck
  <1>3. left \in Seq(Requests) /\ Len(left) = Len(pipelineMap) - 1
    BY <1>1, <1>2, IndexOfIsIndex, RemoveAtIs DEF Without
  <1>4. msgs \in Seq(Requests) /\ Len(msgs) <= Len(left)
    BY <1>3, ToResendIs
  <1>5. pipelineMap' = data /\ outbox' = outbox \o data /\ nextId' = nextId + Len(data)
    BY DEF ValidateSynAck
  <1>. HIDE DEF data, msgs, left, ack
  <1>6. msg.of = nextId - 1
    BY DEF Newest
  <1>7. outbox = <<>>
    BY <1>6, NewestSent
  <1>8. data \in Seq(Requests) /\ Len(data) = Len(msgs)
    BY <1>1, <1>4, RebuiltIsData DEF data
  <1>9. outbox' = data
    <2>1. \A s \in Seq(Requests) : <<>> \o s = s
      OBVIOUS
    <2>. QED  BY <1>5, <1>7, <1>8, <2>1
  <1>10. Ascends(data, nextId + Len(msgs))
    BY <1>1, <1>4, RebuiltAscends DEF data, QueueInv
  <1>11. \A i \in DOMAIN data : data[i].type = "Data" /\ data[i].id \in Nat
           /\ data[i].id >= nextId
    BY <1>1, <1>4, RebuiltIsData DEF data
  <1>12. Len(data) < Len(pipelineMap) /\ Len(data) \in Nat
    <2>1. Len(pipelineMap) \in Nat /\ Len(msgs) \in Nat
      BY <1>1, <1>4
    <2>. QED  BY <1>3, <1>4, <1>8, <2>1
  <1>. QED  BY <1>5, <1>6, <1>7, <1>8, <1>9, <1>10, <1>11, <1>12

\* Validate on a DataAck: the message acked is not in the outbox.
LEMMA DataAckDoes ==
  ASSUME TypeOK, QueueInv, NEW msg \in Replies, ValidateDataAck(msg), Sent(msg.of)
  PROVE  /\ UNCHANGED <<nextId, outbox>>
         /\ Len(pipelineMap') = Len(pipelineMap) - 1
         /\ Ids(pipelineMap') \subseteq Ids(pipelineMap)
         /\ Ascends(pipelineMap', nextId') /\ IsEndOf(outbox', pipelineMap')
  <1>. DEFINE c == IndexOf(pipelineMap, msg.of)
  <1>1. pipelineMap \in Seq(Requests) /\ nextId \in Nat /\ outbox \in Seq(Requests)
    BY Wires
  <1>2. c \in DOMAIN pipelineMap /\ pipelineMap[c].id = msg.of
    BY IndexOfIsIndex DEF ValidateDataAck
  <1>3. pipelineMap' = RemoveAt(pipelineMap, c) /\ UNCHANGED <<nextId, outbox>>
    BY DEF ValidateDataAck, Without
  <1>. HIDE DEF c
  <1>4. c <= Len(pipelineMap) - Len(outbox)
    BY <1>2, SentIsBefore
  <1>5. Ascends(pipelineMap', nextId') /\ IsEndOf(outbox', pipelineMap')
    BY <1>1, <1>2, <1>3, <1>4, AscendsRemove, EndRemove DEF QueueInv
  <1>6. /\ Len(pipelineMap') = Len(pipelineMap) - 1
        /\ \A i \in DOMAIN pipelineMap' : \E k \in DOMAIN pipelineMap :
             pipelineMap'[i] = pipelineMap[k]
    BY <1>1, <1>2, <1>3, RemoveAtKeeps
  <1>7. Ids(pipelineMap') \subseteq Ids(pipelineMap)
    BY <1>6 DEF Ids
  <1>. QED  BY <1>3, <1>5, <1>6, <1>7

\* The ids that are new to the outbox are those of messages just built.
NoOlder ==
  /\ nextId' \in Nat /\ nextId <= nextId'
  /\ \A i \in DOMAIN outbox' :
       \/ \E k \in DOMAIN outbox : outbox'[i] = outbox[k]
       \/ outbox'[i].id \in Nat /\ nextId <= outbox'[i].id

StaysSent(id) == id < nextId' /\ \A i \in DOMAIN outbox' : id < outbox'[i].id

\* What was sent stays older than the outbox.
LEMMA SentKept ==
  ASSUME TypeOK, NoOlder, NEW id \in Nat, Sent(id)
  PROVE  StaysSent(id)
  <1>1. nextId \in Nat
    BY Wires
  <1>2. id < nextId'
    BY <1>1 DEF Sent, NoOlder
  <1>3. ASSUME NEW i \in DOMAIN outbox'  PROVE id < outbox'[i].id
    <2>1. CASE \E k \in DOMAIN outbox : outbox'[i] = outbox[k]
      BY <2>1 DEF Sent
    <2>2. CASE outbox'[i].id \in Nat /\ nextId <= outbox'[i].id
      BY <1>1, <2>2 DEF Sent
    <2>. QED  BY <2>1, <2>2 DEF NoOlder
  <1>. QED  BY <1>2, <1>3 DEF StaysSent

\* All of it together.
MapInv == OpeningInv /\ QueueInv /\ SentInv /\ RisingInv /\ SynInv

\* The ack that Validate takes is of a message sent.
LEMMA HeadIsSent ==
  ASSUME TypeOK, MapInv, a2d # <<>>
  PROVE  /\ Head(a2d) \in Replies /\ Sent(Head(a2d).of) /\ Head(a2d).of \in Nat
         /\ Head(a2d).type = "SynAck" => Newest(Head(a2d).of)
  <1>1. 1 \in DOMAIN a2d /\ Head(a2d) = a2d[1] /\ Head(a2d) \in Replies
    BY Wires, TailIs, HeadAndTail
  <1>. QED  BY <1>1, Wires DEF MapInv, SentInv, SynInv

\* Every move keeps QueueInv.
LEMMA QueueStep ==
  ASSUME TypeOK, TypeOK', MapInv,
         \/ Idles \/ Opens \/ Recovers \/ Validates \/ Pipes \/ Takes \/ Sends
         \/ Answers \/ Skips
  PROVE  QueueInv' /\ NoOlder
  <1>0. /\ pipelineMap \in Seq(Requests) /\ outbox \in Seq(Requests) /\ nextId \in Nat
        /\ 0 < nextId /\ Ascends(pipelineMap, nextId) /\ IsEndOf(outbox, pipelineMap)
    BY Wires DEF MapInv, QueueInv
  <1>1. ASSUME UNCHANGED <<pipelineMap, outbox, nextId>>  PROVE QueueInv' /\ NoOlder
    BY <1>0, <1>1 DEF QueueInv, NoOlder
  <1>2. ASSUME NEW m \in Requests, m.id = nextId, nextId' = nextId + 1,
               pipelineMap' = Append(pipelineMap, m), outbox' = Append(outbox, m)
        PROVE  QueueInv' /\ NoOlder
    <2>1. Ascends(pipelineMap', nextId') /\ IsEndOf(outbox', pipelineMap')
      BY <1>0, <1>2, AscendsAppend, EndAppend
    <2>2. \A i \in DOMAIN outbox' : \/ i \in DOMAIN outbox /\ outbox'[i] = outbox[i]
                                    \/ outbox'[i] = m
      BY <1>0, <1>2, AppendIs
    <2>3. nextId' \in Nat /\ nextId <= nextId' /\ 0 < nextId' /\ nextId <= nextId
      BY <1>0, <1>2
    <2>4. NoOlder
      BY <1>0, <1>2, <2>2, <2>3 DEF NoOlder
    <2>. QED  BY <2>1, <2>3, <2>4 DEF QueueInv
  <1>3. CASE Idles \/ Sends \/ Answers \/ Skips
    BY <1>1, <1>3 DEF Idles, Sends, Answers, Skips, daemonSide
  <1>4. CASE Takes
    <2>1. UNCHANGED <<pipelineMap, nextId>> /\ outbox # <<>> /\ outbox' = Tail(outbox)
      BY <1>4 DEF Takes
    <2>2. IsEndOf(outbox', pipelineMap')
      BY <1>0, <2>1, EndTail
    <2>3. \A i \in DOMAIN outbox' : i + 1 \in DOMAIN outbox /\ outbox'[i] = outbox[i + 1]
      BY <1>0, <2>1, TailIs
    <2>4. NoOlder
      BY <1>0, <2>1, <2>3 DEF NoOlder
    <2>. QED  BY <1>0, <2>1, <2>2, <2>4 DEF QueueInv
  <1>5. CASE Pipes
    BY <1>1, <1>2, <1>5, PipesDoes
  <1>6. CASE Recovers
    <2>1. BuildSyn(TRUE)
      BY <1>6 DEF Recovers
    <2>2. PICK syn \in Requests :
             /\ syn.id = nextId /\ syn.type = "Syn" /\ nextId' = nextId + 1
             /\ pipelineMap' = Append(pipelineMap, syn)
             /\ outbox' = IF TRUE THEN Append(outbox, syn) ELSE outbox
      BY <2>1, BuildSynDoes
    <2>3. outbox' = Append(outbox, syn)
      BY <2>2
    <2>. QED  BY <1>2, <2>2, <2>3
  <1>7. CASE Opens
    <2>1. BuildSyn(Attach) /\ Attach \in BOOLEAN
      BY <1>7, ChannelAssumption DEF Opens
    <2>2. PICK syn \in Requests :
             /\ syn.id = nextId /\ syn.type = "Syn" /\ nextId' = nextId + 1
             /\ pipelineMap' = Append(pipelineMap, syn)
             /\ outbox' = IF Attach THEN Append(outbox, syn) ELSE outbox
      BY <2>1, BuildSynDoes
    <2>3. CASE Attach
      BY <1>2, <2>2, <2>3
    <2>4. CASE ~Attach
      <3>1. outbox = <<>>
        <4>1. Opening /\ phase # "dead"
          BY <1>7 DEF Opens, MapInv, OpeningInv
        <4>2. CASE phase = "new"
          BY <4>2 DEF MapInv, OpeningInv
        <4>3. CASE phase # "new"
          <5>1. a2d # <<>> /\ IsAnswer(Head(a2d))
            BY <1>7, <4>3 DEF Opens
          <5>. QED  BY <4>1, <5>1, OneUnderWay DEF MapInv
        <4>. QED  BY <4>2, <4>3
      <3>2. outbox' = <<>>
        BY <2>2, <2>4, <3>1
      <3>3. Ascends(pipelineMap', nextId')
        BY <1>0, <2>2, AscendsAppend
      <3>4. IsEndOf(outbox', pipelineMap')
        <4>1. pipelineMap' \in Seq(Requests)
          BY <1>0, <2>2, AppendIs
        <4>. QED  BY <3>2, <4>1, EndOfItself
      <3>5. nextId' \in Nat /\ nextId <= nextId' /\ 0 < nextId' /\ DOMAIN outbox' = {}
        BY <1>0, <2>2, <3>2
      <3>. QED  BY <3>3, <3>4, <3>5 DEF QueueInv, NoOlder
    <2>. QED  BY <2>3, <2>4
  <1>8. CASE Validates
    <2>0. a2d # <<>>
      BY <1>8 DEF Validates
    <2>1. CASE ValidateSynAck(Head(a2d))
      <3>1. Sent(Head(a2d).of) /\ Newest(Head(a2d).of) /\ Head(a2d) \in Replies
              /\ QueueInv
        BY <2>0, <2>1, HeadIsSent DEF MapInv, ValidateSynAck
      <3>2. /\ outbox' = pipelineMap' /\ Ascends(pipelineMap', nextId')
            /\ nextId' = nextId + Len(pipelineMap') /\ Len(pipelineMap') \in Nat
            /\ Len(pipelineMap') < Len(pipelineMap)
            /\ \A i \in DOMAIN pipelineMap' :
                 pipelineMap'[i].id \in Nat /\ pipelineMap'[i].id >= nextId
        BY <2>1, <3>1, SynAckDoes
      <3>3. IsEndOf(outbox', pipelineMap')
        <4>1. pipelineMap' \in Seq(Requests)
          BY DEF TypeOK, MrtapTypeOK
        <4>. QED  BY <3>2, <4>1, EndOfItself
      <3>4. nextId' \in Nat /\ nextId <= nextId' /\ 0 < nextId'
        BY <1>0, <3>2
      <3>5. NoOlder
        BY <1>0, <3>2, <3>4 DEF NoOlder
      <3>. QED  BY <3>2, <3>3, <3>4, <3>5 DEF QueueInv
    <2>2. CASE ValidateDataAck(Head(a2d))
      <3>1. Sent(Head(a2d).of) /\ Head(a2d) \in Replies /\ QueueInv
        BY <2>0, HeadIsSent DEF MapInv
      <3>2. /\ UNCHANGED <<nextId, outbox>>
            /\ Ascends(pipelineMap', nextId') /\ IsEndOf(outbox', pipelineMap')
        BY <2>2, <3>1, DataAckDoes
      <3>. QED  BY <1>0, <3>2 DEF QueueInv, NoOlder
    <2>. QED  BY <1>8, <2>1, <2>2 DEF Validates
  <1>. QED  BY <1>3, <1>4, <1>5, <1>6, <1>7, <1>8

\* Whatever is under way after a step was sent before it, or is sent by it.
LEMMA SentStep ==
  ASSUME TypeOK, TypeOK', MapInv, NoOlder,
         \/ Idles \/ Opens \/ Recovers \/ Validates \/ Pipes \/ Takes \/ Sends
         \/ Answers \/ Skips
  PROVE  SentInv'
  <1>. DEFINE FromA2d == \A i \in DOMAIN a2d' :
                           \/ \E k \in DOMAIN a2d : a2d'[i] = a2d[k]
                           \/ a2d'[i].of \in Nat /\ StaysSent(a2d'[i].of)
              FromD2a == \A i \in DOMAIN d2a' :
                           \/ \E k \in DOMAIN d2a : d2a'[i] = d2a[k]
                           \/ d2a'[i].id \in Nat /\ StaysSent(d2a'[i].id)
              FromHand == \A i \in DOMAIN hand' :
                           \/ \E k \in DOMAIN hand : hand'[i] = hand[k]
                           \/ hand'[i].id \in Nat /\ StaysSent(hand'[i].id)
  <1>a. /\ pipelineMap \in Seq(Requests) /\ outbox \in Seq(Requests) /\ nextId \in Nat
        /\ hand \in Seq(Requests) /\ d2a \in Seq(Requests) /\ a2d \in Seq(Replies)
        /\ \A m \in Requests : m.id \in Nat
        /\ \A r \in Replies : r.of \in Nat
    BY Wires
  <1>b. SentInv /\ QueueInv
    BY DEF MapInv
  <1>c. ASSUME FromA2d, FromD2a, FromHand  PROVE SentInv'
    <2>1. ASSUME NEW i \in DOMAIN a2d'  PROVE StaysSent(a2d'[i].of)
      <3>1. ASSUME NEW k \in DOMAIN a2d  PROVE StaysSent(a2d[k].of)
        <4>1. a2d[k].of \in Nat /\ Sent(a2d[k].of)
          BY <1>a, <1>b DEF SentInv
        <4>. QED  BY <4>1, SentKept
      <3>. QED  BY <1>c, <3>1
    <2>2. ASSUME NEW i \in DOMAIN d2a'  PROVE StaysSent(d2a'[i].id)
      <3>1. ASSUME NEW k \in DOMAIN d2a  PROVE StaysSent(d2a[k].id)
        <4>1. d2a[k].id \in Nat /\ Sent(d2a[k].id)
          BY <1>a, <1>b DEF SentInv
        <4>. QED  BY <4>1, SentKept
      <3>. QED  BY <1>c, <3>1
    <2>3. ASSUME NEW i \in DOMAIN hand'  PROVE StaysSent(hand'[i].id)
      <3>1. ASSUME NEW k \in DOMAIN hand  PROVE StaysSent(hand[k].id)
        <4>1. hand[k].id \in Nat /\ Sent(hand[k].id)
          BY <1>a, <1>b DEF SentInv
        <4>. QED  BY <4>1, SentKept
      <3>. QED  BY <1>c, <3>1
    <2>. QED  BY <2>1, <2>2, <2>3 DEF SentInv, Sent, StaysSent
  <1>d. Sent(0) /\ 0 \in Nat
    <2>1. \A i \in DOMAIN outbox : 0 < outbox[i].id
      <3>1. \A i \in DOMAIN outbox :
              /\ i + (Len(pipelineMap) - Len(outbox)) \in DOMAIN pipelineMap
              /\ outbox[i] = pipelineMap[i + (Len(pipelineMap) - Len(outbox))]
        BY <1>a, <1>b DEF QueueInv, IsEndOf
      <3>. QED  BY <1>b, <3>1 DEF QueueInv, Ascends
    <2>. QED  BY <1>b, <2>1 DEF Sent, QueueInv
  <1>e. StaysSent(0)
    BY <1>d, SentKept
  <1>f. ASSUME a2d' = a2d \/ (a2d # <<>> /\ a2d' = Tail(a2d))  PROVE FromA2d
    <2>1. CASE a2d' = a2d
      BY <2>1
    <2>2. CASE a2d # <<>> /\ a2d' = Tail(a2d)
      <3>1. \A i \in DOMAIN a2d' : i + 1 \in DOMAIN a2d /\ a2d'[i] = a2d[i + 1]
        BY <1>a, <2>2, TailIs
      <3>. QED  BY <3>1
    <2>. QED  BY <1>f, <2>1, <2>2
  <1>g. CloseMsg \in Requests /\ CloseMsg.id = 0 /\ StreamMsg \in Replies
          /\ StreamMsg.of = 0
    BY DEF CloseMsg, StreamMsg, NoAck, NoHash, AckHash, AckHashes, Requests, Replies
  <1>1. CASE Idles
    <2>1. hand' = hand /\ (a2d' = a2d \/ (a2d # <<>> /\ a2d' = Tail(a2d)))
      BY <1>1 DEF Idles
    <2>2. d2a' = d2a \/ d2a' = Append(d2a, CloseMsg)
      BY <1>1 DEF Idles
    <2>3. FromD2a
      <3>1. \A i \in DOMAIN d2a' : \/ i \in DOMAIN d2a /\ d2a'[i] = d2a[i]
                                   \/ d2a'[i] = CloseMsg
        BY <1>a, <1>g, <2>2, AppendIs
      <3>. QED  BY <1>e, <1>g, <3>1
    <2>. QED  BY <1>c, <1>f, <2>1, <2>3
  <1>2. CASE Opens
    <2>1. hand' = hand /\ (a2d' = a2d \/ (a2d # <<>> /\ a2d' = Tail(a2d)))
      BY <1>2 DEF Opens
    <2>2. CASE Attach
      <3>1. d2a' = d2a
        BY <1>2, <2>2 DEF Opens
      <3>. QED  BY <1>c, <1>f, <2>1, <3>1
    <2>3. CASE ~Attach
      <3>. DEFINE open == OpenMsg(SynMsg(nextId, RefreshedCert))
      <3>1. open \in Requests /\ open.id = nextId
        <4>1. RefreshedCert \in Nat
          BY DEF TypeOK, MrtapTypeOK, RefreshedCert
        <4>. QED  BY <1>a, <4>1 DEF OpenMsg, SynMsg, NoAck, NoHash, AckHash, AckHashes,
           Requests
      <3>2. d2a' = Append(d2a, open)
        BY <1>2, <2>3 DEF Opens
      <3>. HIDE DEF open
      <3>3. outbox' = outbox /\ nextId' = nextId + 1
        BY <1>2, <2>3 DEF Opens, BuildSyn
      <3>4. outbox = <<>>
        <4>1. Opening /\ phase # "dead"
          BY <1>2 DEF Opens, MapInv, OpeningInv
        <4>2. CASE phase = "new"
          BY <4>2 DEF MapInv, OpeningInv
        <4>3. CASE phase # "new"
          <5>1. a2d # <<>> /\ IsAnswer(Head(a2d))
            BY <1>2, <4>3 DEF Opens
          <5>. QED  BY <4>1, <5>1, OneUnderWay DEF MapInv
        <4>. QED  BY <4>2, <4>3
      <3>5. StaysSent(nextId)
        BY <1>a, <3>3, <3>4 DEF StaysSent
      <3>6. FromD2a
        BY <1>a, <3>1, <3>2, <3>5, AppendIs
      <3>. QED  BY <1>c, <1>f, <2>1, <3>6
    <2>. QED  BY <2>2, <2>3
  <1>3. CASE Recovers
    BY <1>3, <1>c, <1>f DEF Recovers
  <1>4. CASE Validates
    BY <1>4, <1>c, <1>f DEF Validates
  <1>5. CASE Pipes
    <2>1. UNCHANGED <<d2a, a2d, hand>>
      BY <1>5 DEF Pipes, PipeOutput, wireVars
    <2>. QED  BY <1>c, <2>1
  <1>6. CASE Takes
    <2>1. UNCHANGED <<d2a, a2d, nextId, pipelineMap>> /\ outbox # <<>>
          /\ hand' = <<Head(outbox)>> /\ outbox' = Tail(outbox)
      BY <1>6 DEF Takes
    <2>2. StaysSent(Head(outbox).id) /\ Head(outbox).id \in Nat
      <3>1. /\ \A i \in DOMAIN outbox' : i + 1 \in DOMAIN outbox
                 /\ outbox'[i] = outbox[i + 1]
            /\ 1 \in DOMAIN outbox /\ Head(outbox) = outbox[1]
                 /\ Head(outbox) \in Requests
            /\ \A i \in DOMAIN outbox' : i \in Nat \ {0}
        BY <1>a, <2>1, TailIs, HeadAndTail
      <3>. DEFINE off == Len(pipelineMap) - Len(outbox)
      <3>2. off \in Int /\ \A i \in DOMAIN outbox : i + off \in DOMAIN pipelineMap
                                    /\ outbox[i] = pipelineMap[i + off] /\ i \in Nat
        BY <1>a, <1>b DEF QueueInv, IsEndOf
      <3>. HIDE DEF off
      <3>3. Head(outbox).id < nextId'
        BY <1>b, <2>1, <3>1, <3>2 DEF QueueInv, Ascends
      <3>4. ASSUME NEW i \in DOMAIN outbox'  PROVE Head(outbox).id < outbox'[i].id
        <4>1. i + 1 \in DOMAIN outbox /\ outbox'[i] = outbox[i + 1] /\ i \in Nat \ {0}
          BY <3>1
        <4>2. 1 + off < i + 1 + off
          BY <3>2, <4>1
        <4>. QED  BY <1>b, <3>1, <3>2, <4>1, <4>2 DEF QueueInv, Ascends
      <3>. QED  BY <1>a, <3>1, <3>3, <3>4 DEF StaysSent
    <2>3. FromHand
      BY <1>a, <2>1, <2>2
    <2>. QED  BY <1>c, <2>1, <2>3
  <1>7. CASE Sends
    <2>1. /\ a2d' = a2d /\ hand # <<>> /\ hand' = <<>>
          /\ d2a' = d2a \/ d2a' = Append(d2a, Head(hand))
      BY <1>7 DEF Sends
    <2>2. 1 \in DOMAIN hand /\ Head(hand) = hand[1] /\ Head(hand) \in Requests
      BY <1>a, <2>1, TailIs, HeadAndTail
    <2>3. Sent(Head(hand).id) /\ Head(hand).id \in Nat
      BY <1>a, <1>b, <2>2 DEF SentInv
    <2>4. StaysSent(Head(hand).id)
      BY <2>3, SentKept
    <2>5. FromD2a
      <3>1. \A i \in DOMAIN d2a' : \/ i \in DOMAIN d2a /\ d2a'[i] = d2a[i]
                                   \/ d2a'[i] = Head(hand)
        BY <1>a, <2>1, <2>2, AppendIs
      <3>. QED  BY <2>3, <2>4, <3>1
    <2>. QED  BY <1>c, <2>1, <2>5
  <1>8. CASE Answers
    <2>1. hand' = hand /\ d2a # <<>> /\ d2a' = Tail(d2a)
      BY <1>8 DEF Answers, daemonSide
    <2>2. 1 \in DOMAIN d2a /\ Head(d2a) = d2a[1] /\ Head(d2a) \in Requests /\ FromD2a
      BY <1>a, <2>1, TailIs, HeadAndTail
    <2>3. Sent(Head(d2a).id) /\ Head(d2a).id \in Nat
      BY <1>a, <1>b, <2>2 DEF SentInv
    <2>4. StaysSent(Head(d2a).id)
      BY <2>3, SentKept
    <2>5. ASSUME NEW r \in Replies, r.of = Head(d2a).id, a2d' = Append(a2d, r)
          PROVE  FromA2d
      <3>1. \A i \in DOMAIN a2d' : \/ i \in DOMAIN a2d /\ a2d'[i] = a2d[i]
                                   \/ a2d'[i] = r
        BY <1>a, <2>5, AppendIs
      <3>. QED  BY <2>3, <2>4, <2>5, <3>1
    <2>6. FromA2d
      BY <1>8, <1>f, <2>5 DEF Answers
    <2>. QED  BY <1>c, <2>1, <2>2, <2>6
  <1>9. CASE Skips
    <2>1. hand' = hand
      BY <1>9 DEF Skips, daemonSide
    <2>2. FromD2a
      BY SMTT(30), <1>9, <1>a, EndIs DEF Skips
    <2>3. a2d' = a2d \/ a2d' = Append(a2d, StreamMsg)
      BY <1>9 DEF Skips
    <2>4. FromA2d
      <3>1. \A i \in DOMAIN a2d' : \/ i \in DOMAIN a2d /\ a2d'[i] = a2d[i]
                                   \/ a2d'[i] = StreamMsg
        BY <1>a, <1>g, <2>3, AppendIs
      <3>. QED  BY <1>d, <1>e, <1>g, <3>1
    <2>. QED  BY <1>c, <2>1, <2>2, <2>4
  <1>. QED  BY <1>1, <1>2, <1>3, <1>4, <1>5, <1>6, <1>7, <1>8, <1>9

\* The order on the wire survives what steps do to the wire.
LEMMA RisingParts ==
  ASSUME TypeOK, RisingInv
  PROVE  /\ \A c \in 0..Len(d2a) : d2a' = SubSeq(d2a, c + 1, Len(d2a)) =>
              \A i, j \in DOMAIN d2a' : i < j => d2a'[j].id = 0 \/ d2a'[i].id < d2a'[j].id
         /\ \A m \in Requests :
              d2a' = Append(d2a, m) /\ (m.id = 0
                \/ \A i \in DOMAIN d2a : d2a[i].id < m.id) =>
                \A i, j \in DOMAIN d2a' : i < j => d2a'[j].id = 0
                  \/ d2a'[i].id < d2a'[j].id
         /\ a2d # <<>> /\ a2d' = Tail(a2d) =>
              \A i, j \in DOMAIN a2d' : i < j => a2d'[j].of = 0 \/ a2d'[i].of < a2d'[j].of
         /\ \A r \in Replies :
              a2d' = Append(a2d, r) /\ (r.of = 0
                \/ \A i \in DOMAIN a2d : a2d[i].of < r.of) =>
                \A i, j \in DOMAIN a2d' : i < j => a2d'[j].of = 0
                  \/ a2d'[i].of < a2d'[j].of
  <1>a. d2a \in Seq(Requests) /\ a2d \in Seq(Replies)
    BY Wires
  <1>b. /\ \A i \in DOMAIN d2a : i \in Nat /\ i <= Len(d2a)
        /\ \A i \in DOMAIN a2d : i \in Nat /\ i <= Len(a2d)
    BY <1>a
  <1>1. ASSUME NEW c \in 0..Len(d2a), d2a' = SubSeq(d2a, c + 1, Len(d2a)),
               NEW i \in DOMAIN d2a', NEW j \in DOMAIN d2a', i < j
        PROVE  d2a'[j].id = 0 \/ d2a'[i].id < d2a'[j].id
    <2>1. /\ i + c \in DOMAIN d2a /\ d2a'[i] = d2a[i + c]
          /\ j + c \in DOMAIN d2a /\ d2a'[j] = d2a[j + c] /\ d2a' \in Seq(Requests)
      BY <1>1, <1>a, EndIs
    <2>2. i \in Nat /\ j \in Nat
      BY <2>1
    <2>3. i + c < j + c
      BY <1>1, <2>2
    <2>. QED  BY <2>1, <2>3 DEF RisingInv
  <1>2. ASSUME NEW m \in Requests, d2a' = Append(d2a, m),
               m.id = 0 \/ \A i \in DOMAIN d2a : d2a[i].id < m.id,
               NEW i \in DOMAIN d2a', NEW j \in DOMAIN d2a', i < j
        PROVE  d2a'[j].id = 0 \/ d2a'[i].id < d2a'[j].id
    <2>1. /\ (i \in DOMAIN d2a /\ d2a'[i] = d2a[i]) \/ i = Len(d2a) + 1
          /\ (j \in DOMAIN d2a /\ d2a'[j] = d2a[j]) \/ (j = Len(d2a) + 1 /\ d2a'[j] = m)
          /\ Len(d2a) \in Nat
      BY <1>2, <1>a, AppendIs
    <2>2. i \in DOMAIN d2a /\ d2a'[i] = d2a[i]
      BY <1>2, <1>b, <2>1
    <2>. QED  BY <1>2, <2>1, <2>2 DEF RisingInv
  <1>3. ASSUME a2d # <<>>, a2d' = Tail(a2d), NEW i \in DOMAIN a2d',
               NEW j \in DOMAIN a2d', i < j
        PROVE  a2d'[j].of = 0 \/ a2d'[i].of < a2d'[j].of
    <2>1. /\ i + 1 \in DOMAIN a2d /\ a2d'[i] = a2d[i + 1]
          /\ j + 1 \in DOMAIN a2d /\ a2d'[j] = a2d[j + 1] /\ a2d' \in Seq(Replies)
      BY <1>3, <1>a, TailIs
    <2>2. i \in Nat /\ j \in Nat
      BY <2>1
    <2>3. i + 1 < j + 1
      BY <1>3, <2>2
    <2>. QED  BY <2>1, <2>3 DEF RisingInv
  <1>4. ASSUME NEW r \in Replies, a2d' = Append(a2d, r),
               r.of = 0 \/ \A i \in DOMAIN a2d : a2d[i].of < r.of,
               NEW i \in DOMAIN a2d', NEW j \in DOMAIN a2d', i < j
        PROVE  a2d'[j].of = 0 \/ a2d'[i].of < a2d'[j].of
    <2>1. /\ (i \in DOMAIN a2d /\ a2d'[i] = a2d[i]) \/ i = Len(a2d) + 1
          /\ (j \in DOMAIN a2d /\ a2d'[j] = a2d[j]) \/ (j = Len(a2d) + 1 /\ a2d'[j] = r)
          /\ Len(a2d) \in Nat
      BY <1>4, <1>a, AppendIs
    <2>2. i \in DOMAIN a2d /\ a2d'[i] = a2d[i]
      BY <1>4, <1>b, <2>1
    <2>. QED  BY <1>4, <2>1, <2>2 DEF RisingInv
  <1>. QED  BY <1>1, <1>2, <1>3, <1>4

\* A step is in order when what it adds to the wire is.
LEMMA RisingFrom ==
  ASSUME TypeOK, RisingInv,
         \A i, j \in DOMAIN d2a' : i < j => d2a'[j].id = 0 \/ d2a'[i].id < d2a'[j].id,
         \A i, j \in DOMAIN a2d' : i < j => a2d'[j].of = 0 \/ a2d'[i].of < a2d'[j].of,
         \A j \in DOMAIN d2a' : \/ \E k \in DOMAIN d2a : d2a'[j] = d2a[k]
                                \/ d2a'[j].id = 0
                                \/ \A i \in DOMAIN a2d : a2d[i].of < d2a'[j].id,
         \A j \in DOMAIN hand' : \/ \E k \in DOMAIN hand : hand'[j] = hand[k]
                                 \/ /\ 0 < hand'[j].id
                                    /\ \A i \in DOMAIN a2d : a2d[i].of < hand'[j].id
                                    /\ \A i \in DOMAIN d2a : d2a[i].id < hand'[j].id,
         \A i \in DOMAIN a2d' :
           \/ \E k \in DOMAIN a2d : a2d'[i] = a2d[k]
           \/ /\ \A j \in DOMAIN d2a' : d2a'[j].id = 0 \/ a2d'[i].of < d2a'[j].id
              /\ \A j \in DOMAIN hand' : a2d'[i].of < hand'[j].id,
         \A i \in DOMAIN d2a' :
           \/ \E k \in DOMAIN d2a : d2a'[i] = d2a[k]
           \/ \A j \in DOMAIN hand' : d2a'[i].id < hand'[j].id
  PROVE  RisingInv'
  <1>1. ASSUME NEW i \in DOMAIN a2d', NEW j \in DOMAIN d2a'
        PROVE  d2a'[j].id = 0 \/ a2d'[i].of < d2a'[j].id
    BY DEF RisingInv
  <1>2. ASSUME NEW i \in DOMAIN a2d', NEW j \in DOMAIN hand'
        PROVE  a2d'[i].of < hand'[j].id
    BY DEF RisingInv
  <1>3. ASSUME NEW i \in DOMAIN d2a', NEW j \in DOMAIN hand'
        PROVE  d2a'[i].id < hand'[j].id
    BY DEF RisingInv
  <1>4. ASSUME NEW j \in DOMAIN hand'  PROVE 0 < hand'[j].id
    BY DEF RisingInv
  <1>. QED  BY <1>1, <1>2, <1>3, <1>4 DEF RisingInv

\* Every move keeps RisingInv.
LEMMA RisingStep ==
  ASSUME TypeOK, TypeOK', MapInv,
         \/ Idles \/ Opens \/ Recovers \/ Validates \/ Pipes \/ Takes \/ Sends
         \/ Answers \/ Skips
  PROVE  RisingInv'
  <1>a. /\ pipelineMap \in Seq(Requests) /\ outbox \in Seq(Requests) /\ nextId \in Nat
        /\ hand \in Seq(Requests) /\ d2a \in Seq(Requests) /\ a2d \in Seq(Replies)
        /\ \A m \in Requests : m.id \in Nat
        /\ \A r \in Replies : r.of \in Nat
    BY Wires
  <1>b. SentInv /\ QueueInv /\ RisingInv /\ OpeningInv
    BY DEF MapInv
  <1>c. /\ \A i \in DOMAIN d2a : d2a[i].id < nextId
        /\ \A i \in DOMAIN a2d : a2d[i].of < nextId
        /\ \A i \in DOMAIN d2a, k \in DOMAIN outbox : d2a[i].id < outbox[k].id
        /\ \A i \in DOMAIN a2d, k \in DOMAIN outbox : a2d[i].of < outbox[k].id
    BY <1>b DEF SentInv, Sent
  \* a reply taken from the front
  <1>d. ASSUME a2d' = a2d \/ (a2d # <<>> /\ a2d' = Tail(a2d))
        PROVE  /\ \A i, j \in DOMAIN a2d' : i < j => a2d'[j].of = 0
                    \/ a2d'[i].of < a2d'[j].of
               /\ \A i \in DOMAIN a2d' : \E k \in DOMAIN a2d : a2d'[i] = a2d[k]
    <2>1. CASE a2d' = a2d
      BY <1>b, <2>1 DEF RisingInv
    <2>2. CASE a2d # <<>> /\ a2d' = Tail(a2d)
      <3>1. \A i \in DOMAIN a2d' : i + 1 \in DOMAIN a2d /\ a2d'[i] = a2d[i + 1]
        BY <1>a, <2>2, TailIs
      <3>2. \A i, j \in DOMAIN a2d' : i < j => a2d'[j].of = 0 \/ a2d'[i].of < a2d'[j].of
        BY <1>b, <2>2, RisingParts
      <3>. QED  BY <3>1, <3>2
    <2>. QED  BY <1>d, <2>1, <2>2
  \* requests taken from the front
  <1>e. ASSUME NEW c \in 0..Len(d2a), d2a' = SubSeq(d2a, c + 1, Len(d2a))
        PROVE  /\ \A i, j \in DOMAIN d2a' : i < j => d2a'[j].id = 0
                    \/ d2a'[i].id < d2a'[j].id
               /\ \A i \in DOMAIN d2a' : i + c \in DOMAIN d2a /\ d2a'[i] = d2a[i + c]
    <2>1. \A i \in DOMAIN d2a' : i + c \in DOMAIN d2a /\ d2a'[i] = d2a[i + c]
      BY <1>a, <1>e, EndIs
    <2>. QED  BY <1>b, <1>e, <2>1, RisingParts
  <1>f. ASSUME d2a' = d2a
        PROVE  \A i, j \in DOMAIN d2a' : i < j => d2a'[j].id = 0
                 \/ d2a'[i].id < d2a'[j].id
    BY <1>b, <1>f DEF RisingInv
  <1>1. CASE Recovers \/ Validates \/ Pipes
    <2>1. UNCHANGED <<d2a, hand>> /\ (a2d' = a2d \/ (a2d # <<>> /\ a2d' = Tail(a2d)))
      BY <1>1 DEF Recovers, Validates, Pipes, PipeOutput, wireVars
    <2>. QED  BY <1>b, <1>d, <1>f, <2>1, RisingFrom
  <1>2. CASE Idles
    <2>1. /\ hand' = hand /\ (a2d' = a2d \/ (a2d # <<>> /\ a2d' = Tail(a2d)))
          /\ d2a' = d2a \/ d2a' = Append(d2a, CloseMsg)
      BY <1>2 DEF Idles
    <2>2. CloseMsg \in Requests /\ CloseMsg.id = 0
      BY DEF CloseMsg, NoAck, NoHash, AckHash, AckHashes, Requests
    <2>3. \A i, j \in DOMAIN d2a' : i < j => d2a'[j].id = 0 \/ d2a'[i].id < d2a'[j].id
      BY <1>b, <1>f, <2>1, <2>2, RisingParts
    <2>4. \A i \in DOMAIN d2a' : (i \in DOMAIN d2a /\ d2a'[i] = d2a[i]) \/ d2a'[i].id = 0
      BY <1>a, <2>1, <2>2, AppendIs
    <2>6. \A j \in DOMAIN hand' : 0 < hand'[j].id
      BY <1>b, <2>1 DEF RisingInv
    <2>. QED  BY <1>b, <1>d, <2>1, <2>3, <2>4, <2>6, RisingFrom
  <1>3. CASE Opens
    <2>1. Opening /\ phase # "dead"
      BY <1>3, <1>b DEF Opens, OpeningInv
    <2>2. hand = <<>> /\ d2a = <<>>
      <3>1. CASE phase = "new"
        BY <1>b, <3>1 DEF OpeningInv
      <3>2. CASE phase # "new"
        <4>1. a2d # <<>> /\ IsAnswer(Head(a2d))
          BY <1>3, <3>2 DEF Opens
        <4>. QED  BY <1>b, <2>1, <4>1, OneUnderWay
      <3>. QED  BY <3>1, <3>2
    <2>. DEFINE open == OpenMsg(SynMsg(nextId, RefreshedCert))
    <2>3. /\ hand' = hand /\ (a2d' = a2d \/ (a2d # <<>> /\ a2d' = Tail(a2d)))
          /\ d2a' = d2a \/ d2a' = Append(d2a, open)
      BY <1>3 DEF Opens
    <2>4. open.id = nextId /\ open \in Requests
      <3>1. RefreshedCert \in Nat
        BY DEF TypeOK, MrtapTypeOK, RefreshedCert
      <3>. QED  BY <1>a, <3>1 DEF OpenMsg, SynMsg, NoAck, NoHash, AckHash, AckHashes,
         Requests
    <2>. HIDE DEF open
    <2>5. \A i, j \in DOMAIN d2a' : i < j => d2a'[j].id = 0 \/ d2a'[i].id < d2a'[j].id
      BY <1>b, <1>c, <1>f, <2>3, <2>4, RisingParts
    <2>6. \A i \in DOMAIN d2a' : (i \in DOMAIN d2a /\ d2a'[i] = d2a[i])
            \/ d2a'[i].id = nextId
      BY <1>a, <2>3, <2>4, AppendIs
    <2>7. DOMAIN hand' = {}
      BY <2>2, <2>3
    <2>. QED  BY <1>b, <1>c, <1>d, <2>3, <2>5, <2>6, <2>7, RisingFrom
  <1>4. CASE Takes
    <2>1. UNCHANGED <<d2a, a2d>> /\ outbox # <<>> /\ hand' = <<Head(outbox)>>
      BY <1>4 DEF Takes
    <2>2. 1 \in DOMAIN outbox /\ Head(outbox) = outbox[1]
      BY <1>a, <2>1, TailIs
    <2>3. \A j \in DOMAIN hand' : hand'[j] = outbox[1]
      BY <2>1, <2>2
    <2>4. 0 < outbox[1].id
      <3>1. /\ 1 + (Len(pipelineMap) - Len(outbox)) \in DOMAIN pipelineMap
            /\ outbox[1] = pipelineMap[1 + (Len(pipelineMap) - Len(outbox))]
        BY <1>a, <1>b, <2>2 DEF QueueInv, IsEndOf
      <3>. QED  BY <1>b, <3>1 DEF QueueInv, Ascends
    <2>. QED  BY <1>b, <1>c, <1>d, <1>f, <2>1, <2>2, <2>3, <2>4, RisingFrom
  <1>5. CASE Sends
    <2>1. /\ a2d' = a2d /\ hand # <<>> /\ hand' = <<>>
          /\ d2a' = d2a \/ d2a' = Append(d2a, Head(hand))
      BY <1>5 DEF Sends
    <2>2. 1 \in DOMAIN hand /\ Head(hand) = hand[1] /\ Head(hand) \in Requests
      BY <1>a, <2>1, TailIs, HeadAndTail
    <2>3. /\ \A i \in DOMAIN d2a : d2a[i].id < Head(hand).id
          /\ \A i \in DOMAIN a2d : a2d[i].of < Head(hand).id
      BY <1>b, <2>2 DEF RisingInv
    <2>4. \A i, j \in DOMAIN d2a' : i < j => d2a'[j].id = 0 \/ d2a'[i].id < d2a'[j].id
      BY <1>b, <1>f, <2>1, <2>2, <2>3, RisingParts
    <2>5. \A i \in DOMAIN d2a' : (i \in DOMAIN d2a /\ d2a'[i] = d2a[i])
            \/ d2a'[i] = Head(hand)
      BY <1>a, <2>1, <2>2, AppendIs
    <2>6. DOMAIN hand' = {}
      BY <2>1
    <2>. QED  BY <1>b, <1>d, <2>1, <2>3, <2>4, <2>5, <2>6, RisingFrom
  <1>6. CASE Answers
    <2>1. hand' = hand /\ d2a # <<>> /\ d2a' = Tail(d2a)
      BY <1>6 DEF Answers, daemonSide
    <2>2. 1 \in DOMAIN d2a /\ Head(d2a) = d2a[1] /\ Head(d2a).id \in Nat
      BY <1>a, <2>1, TailIs, HeadAndTail
    <2>3. 1 \in 0..Len(d2a) /\ d2a' = SubSeq(d2a, 1 + 1, Len(d2a))
      BY <1>a, <2>1
    <2>4. /\ \A i, j \in DOMAIN d2a' : i < j => d2a'[j].id = 0 \/ d2a'[i].id < d2a'[j].id
          /\ \A i \in DOMAIN d2a' : i + 1 \in DOMAIN d2a /\ d2a'[i] = d2a[i + 1]
      BY <1>e, <2>3
    <2>5. CASE a2d' = a2d
      BY <1>b, <1>d, <2>1, <2>4, <2>5, RisingFrom
    <2>6. ASSUME NEW r \in Replies, r.of = Head(d2a).id, a2d' = Append(a2d, r)
          PROVE  RisingInv'
      <3>1. \A i \in DOMAIN a2d' : (i \in DOMAIN a2d /\ a2d'[i] = a2d[i]) \/ a2d'[i] = r
        BY <1>a, <2>6, AppendIs
      <3>2. r.of = 0 \/ \A i \in DOMAIN a2d : a2d[i].of < r.of
        BY <1>b, <2>2, <2>6 DEF RisingInv
      <3>3. \A i, j \in DOMAIN a2d' : i < j => a2d'[j].of = 0 \/ a2d'[i].of < a2d'[j].of
        BY <1>b, <2>6, <3>2, RisingParts
      <3>4. \A j \in DOMAIN d2a' : d2a'[j].id = 0 \/ r.of < d2a'[j].id
        <4>1. \A j \in DOMAIN d2a' : 1 < j + 1
          <5>1. d2a' \in Seq(Requests)
            BY DEF TypeOK
          <5>. QED  BY <5>1
        <4>. QED  BY <1>b, <2>2, <2>4, <2>6, <4>1 DEF RisingInv
      <3>5. \A j \in DOMAIN hand' : r.of < hand'[j].id
        BY <1>b, <2>1, <2>2, <2>6 DEF RisingInv
      <3>. QED  BY <1>b, <2>1, <2>4, <3>1, <3>3, <3>4, <3>5, RisingFrom
    <2>. QED  BY <1>6, <2>5, <2>6 DEF Answers
  <1>7. CASE Skips
    <2>1. hand' = hand /\ (a2d' = a2d \/ a2d' = Append(a2d, StreamMsg))
      BY <1>7 DEF Skips, daemonSide
    <2>2. PICK c \in 0..Len(d2a) : d2a' = SubSeq(d2a, c + 1, Len(d2a))
      BY <1>7 DEF Skips
    <2>3. /\ \A i, j \in DOMAIN d2a' : i < j => d2a'[j].id = 0 \/ d2a'[i].id < d2a'[j].id
          /\ \A i \in DOMAIN d2a' : i + c \in DOMAIN d2a /\ d2a'[i] = d2a[i + c]
      BY <1>e, <2>2
    <2>4. CASE a2d' = a2d
      BY <1>b, <1>d, <2>1, <2>3, <2>4, RisingFrom
    <2>5. CASE a2d' = Append(a2d, StreamMsg)
      <3>1. StreamMsg \in Replies /\ StreamMsg.of = 0
        BY DEF StreamMsg, NoHash, Replies
      <3>2. \A i \in DOMAIN a2d' : (i \in DOMAIN a2d /\ a2d'[i] = a2d[i])
              \/ a2d'[i].of = 0
        BY <1>a, <2>5, <3>1, AppendIs
      <3>3. \A i, j \in DOMAIN a2d' : i < j => a2d'[j].of = 0 \/ a2d'[i].of < a2d'[j].of
        BY <1>b, <2>5, <3>1, RisingParts
      <3>4. \A j \in DOMAIN d2a' : d2a'[j].id = 0 \/ 0 < d2a'[j].id
        <4>1. \A j \in DOMAIN d2a : d2a[j].id \in Nat
          BY <1>a
        <4>. QED  BY <2>3, <4>1
      <3>5. \A j \in DOMAIN hand' : 0 < hand'[j].id
        BY <1>b, <2>1 DEF RisingInv
      <3>. QED  BY <1>b, <2>1, <2>3, <3>2, <3>3, <3>4, <3>5, RisingFrom
    <2>. QED  BY <2>1, <2>4, <2>5
  <1>. QED  BY <1>1, <1>2, <1>3, <1>4, <1>5, <1>6, <1>7

\* The Syn under way is still the newest message after a step.
StaysNewest(id) ==
  /\ ~handshakeDone' /\ id = nextId' - 1 /\ pipelineMap' # <<>>
  /\ pipelineMap'[Len(pipelineMap')].id = id
  /\ pipelineMap'[Len(pipelineMap')].type = "Syn"

\* Which Syns, and answers to them, are under way after a step.
LEMMA SynFrom ==
  ASSUME \A i \in DOMAIN d2a' : IsSyn(d2a'[i]) => StaysNewest(d2a'[i].id),
         \A i \in DOMAIN hand' : IsSyn(hand'[i]) => StaysNewest(hand'[i].id),
         \A i \in DOMAIN outbox' : IsSyn(outbox'[i]) => StaysNewest(outbox'[i].id),
         \A i \in DOMAIN a2d' : a2d'[i].type = "SynAck" => StaysNewest(a2d'[i].of)
  PROVE  SynInv'
  BY Zenon DEF SynInv, Newest, StaysNewest, IsSyn

\* A Syn is the only one when everything before it has been answered.
LEMMA OnlySyn ==
  ASSUME TypeOK, NEW send \in BOOLEAN, BuildSyn(send),
         outbox = <<>>, hand' = <<>>, NoAnswer',
         \A i \in DOMAIN d2a' : IsSyn(d2a'[i]) => d2a'[i].id = nextId
  PROVE  SynInv'
  <1>1. PICK syn \in Requests :
           /\ syn.id = nextId /\ syn.type = "Syn" /\ nextId' = nextId + 1
           /\ pipelineMap' = Append(pipelineMap, syn)
           /\ outbox' = IF send THEN Append(outbox, syn) ELSE outbox
    BY BuildSynDoes
  <1>2. ~handshakeDone'
    BY Zenon DEF BuildSyn
  <1>3. nextId' - 1 = nextId
    BY <1>1, Wires
  <1>4. StaysNewest(nextId)
    <2>1. /\ pipelineMap' # <<>> /\ pipelineMap'[Len(pipelineMap')] = syn
      BY <1>1, Wires
    <2>. QED  BY Zenon, <1>1, <1>2, <1>3, <2>1 DEF StaysNewest
  <1>5. \A i \in DOMAIN outbox' : outbox'[i] = syn
    <2>1. outbox' = <<>> \/ outbox' = <<syn>>
      BY <1>1
    <2>. QED  BY <2>1
  <1>6. \A i \in DOMAIN a2d' : a2d'[i].type # "SynAck"
    BY DEF NoAnswer, IsAnswer
  <1>7. DOMAIN hand' = {}
    OBVIOUS
  <1>. QED  BY <1>1, <1>4, <1>5, <1>6, <1>7, SynFrom

\* The newest message has an id.
LEMMA NewestIsNoZero ==
  ASSUME TypeOK, QueueInv, NEW id, Newest(id)
  PROVE  id # 0
  <1>1. Len(pipelineMap) \in DOMAIN pipelineMap /\ pipelineMap[Len(pipelineMap)].id = id
    BY Wires DEF Newest
  <1>. QED  BY <1>1 DEF QueueInv, Ascends

\* Every move keeps SynInv.  (An agent of version 1 sends errors that are not checked
\* against the map: there may be two Syns under way.)
LEMMA SynStep ==
  ASSUME TypeOK, TypeOK', MapInv, AgentVersion # "1",
         \/ Idles \/ Opens \/ Recovers \/ Validates \/ Pipes \/ Takes \/ Sends
         \/ Answers \/ Skips
  PROVE  SynInv'
  <1>a. /\ pipelineMap \in Seq(Requests) /\ outbox \in Seq(Requests) /\ nextId \in Nat
        /\ hand \in Seq(Requests) /\ d2a \in Seq(Requests) /\ a2d \in Seq(Replies)
        /\ \A m \in Requests : m.id \in Nat
        /\ \A r \in Replies : r.of \in Nat
    BY Wires
  <1>b. SentInv /\ QueueInv /\ RisingInv /\ SynInv /\ OpeningInv
    BY DEF MapInv
  \* every id under way is below nextId
  <1>c. /\ \A i \in DOMAIN d2a : d2a[i].id < nextId
        /\ \A i \in DOMAIN hand : hand[i].id < nextId
        /\ \A i \in DOMAIN a2d : a2d[i].of < nextId
        /\ \A i \in DOMAIN outbox : outbox[i].id < nextId
    <2>1. \A i \in DOMAIN outbox :
            /\ i + (Len(pipelineMap) - Len(outbox)) \in DOMAIN pipelineMap
            /\ outbox[i] = pipelineMap[i + (Len(pipelineMap) - Len(outbox))]
      BY <1>a, <1>b DEF QueueInv, IsEndOf
    <2>. QED  BY <1>b, <2>1 DEF SentInv, Sent, QueueInv, Ascends
  \* a step that keeps what is live, and sends no Syn of its own
  <1>d. ASSUME \A id \in Nat : id < nextId /\ Newest(id) => StaysNewest(id),
               \A i \in DOMAIN d2a' : \/ \E k \in DOMAIN d2a : d2a'[i] = d2a[k]
                                      \/ \E k \in DOMAIN hand : d2a'[i] = hand[k]
                                      \/ ~IsSyn(d2a'[i]),
               \A i \in DOMAIN hand' : \/ \E k \in DOMAIN hand : hand'[i] = hand[k]
                                       \/ \E k \in DOMAIN outbox : hand'[i] = outbox[k],
               \A i \in DOMAIN outbox' :
                 \/ \E k \in DOMAIN outbox : outbox'[i] = outbox[k]
                 \/ ~IsSyn(outbox'[i])
                 \/ StaysNewest(outbox'[i].id),
               \A i \in DOMAIN a2d' :
                 \/ \E k \in DOMAIN a2d : a2d'[i] = a2d[k]
                 \/ a2d'[i].type # "SynAck"
                 \/ \E k \in DOMAIN d2a : IsSyn(d2a[k]) /\ a2d'[i].of = d2a[k].id
        PROVE  SynInv'
    <2>1. \A k \in DOMAIN d2a : IsSyn(d2a[k]) => StaysNewest(d2a[k].id)
      BY <1>a, <1>b, <1>c, <1>d DEF SynInv
    <2>2. \A k \in DOMAIN hand : IsSyn(hand[k]) => StaysNewest(hand[k].id)
      BY <1>a, <1>b, <1>c, <1>d DEF SynInv
    <2>3. \A k \in DOMAIN outbox : IsSyn(outbox[k]) => StaysNewest(outbox[k].id)
      BY <1>a, <1>b, <1>c, <1>d DEF SynInv
    <2>4. \A k \in DOMAIN a2d : a2d[k].type = "SynAck" => StaysNewest(a2d[k].of)
      BY <1>a, <1>b, <1>c, <1>d DEF SynInv
    <2>5. \A i \in DOMAIN d2a' : IsSyn(d2a'[i]) => StaysNewest(d2a'[i].id)
      BY <1>d, <2>1, <2>2
    <2>6. \A i \in DOMAIN hand' : IsSyn(hand'[i]) => StaysNewest(hand'[i].id)
      BY <1>d, <2>2, <2>3
    <2>7. \A i \in DOMAIN outbox' : IsSyn(outbox'[i]) => StaysNewest(outbox'[i].id)
      BY <1>d, <2>3
    <2>8. \A i \in DOMAIN a2d' : a2d'[i].type = "SynAck" => StaysNewest(a2d'[i].of)
      BY <1>d, <2>1, <2>4
    <2>. QED  BY <2>5, <2>6, <2>7, <2>8, SynFrom
  <1>e. ASSUME a2d # <<>> /\ a2d' = Tail(a2d)
        PROVE  \A i \in DOMAIN a2d' : \E k \in DOMAIN a2d : a2d'[i] = a2d[k]
    <2>1. \A i \in DOMAIN a2d' : i + 1 \in DOMAIN a2d /\ a2d'[i] = a2d[i + 1]
      BY <1>a, <1>e, TailIs
    <2>. QED  BY <2>1
  <1>f. ASSUME UNCHANGED <<pipelineMap, nextId>>, ~handshakeDone => ~handshakeDone'
        PROVE  \A id \in Nat : id < nextId /\ Newest(id) => StaysNewest(id)
    <2>1. pipelineMap' = pipelineMap /\ nextId' = nextId
      BY <1>f
    <2>. QED  BY Zenon, <1>f, <2>1 DEF Newest, StaysNewest
  <1>1. CASE Idles
    <2>1. /\ UNCHANGED <<hand, outbox, pipelineMap, nextId>>
          /\ a2d' = a2d \/ (a2d # <<>> /\ a2d' = Tail(a2d))
          /\ d2a' = d2a \/ d2a' = Append(d2a, CloseMsg)
      BY <1>1 DEF Idles
    <2>2. ~handshakeDone => ~handshakeDone'
      <3>1. CASE handshakeDone' = handshakeDone
        BY Zenon, <3>1
      <3>2. CASE handshakeDone' # handshakeDone
        BY Zenon, <1>1, <3>2 DEF Idles
      <3>. QED  BY Zenon, <3>1, <3>2
    <2>3. \A i \in DOMAIN d2a' : (\E k \in DOMAIN d2a : d2a'[i] = d2a[k])
            \/ ~IsSyn(d2a'[i])
      <3>1. CloseMsg \in Requests /\ ~IsSyn(CloseMsg)
        BY DEF CloseMsg, NoAck, NoHash, AckHash, AckHashes, Requests, IsSyn
      <3>. QED  BY <1>a, <2>1, <3>1, AppendIs
    <2>4. \A i \in DOMAIN a2d' : \E k \in DOMAIN a2d : a2d'[i] = a2d[k]
      BY <1>e, <2>1
    <2>5. \A id \in Nat : id < nextId /\ Newest(id) => StaysNewest(id)
      BY <1>f, <2>1, <2>2
    <2>. QED  BY <1>d, <2>1, <2>3, <2>4, <2>5
  <1>2. CASE Opens
    <2>1. Opening /\ phase # "dead"
      BY <1>2 DEF Opens, MapInv, OpeningInv
    <2>2. outbox = <<>> /\ hand = <<>> /\ d2a = <<>> /\ NoAnswer'
      <3>1. CASE phase = "new"
        <4>1. a2d' = a2d
          BY <1>2, <3>1 DEF Opens
        <4>. QED  BY <1>b, <3>1, <4>1 DEF OpeningInv, NoAnswer
      <3>2. CASE phase # "new"
        <4>1. a2d # <<>> /\ IsAnswer(Head(a2d)) /\ a2d' = Tail(a2d)
          BY <1>2, <3>2 DEF Opens
        <4>. QED  BY <1>b, <2>1, <4>1, OneUnderWay DEF NoAnswer
      <3>. QED  BY <3>1, <3>2
    <2>3. BuildSyn(Attach) /\ Attach \in BOOLEAN /\ hand' = hand
      BY <1>2, ChannelAssumption DEF Opens
    <2>4. \A i \in DOMAIN d2a' : d2a'[i].id = nextId
      <3>. DEFINE open == OpenMsg(SynMsg(nextId, RefreshedCert))
      <3>1. d2a' = d2a \/ d2a' = Append(d2a, open)
        BY <1>2 DEF Opens
      <3>2. open.id = nextId
        BY DEF OpenMsg, SynMsg
      <3>. HIDE DEF open
      <3>3. d2a' = <<>> \/ d2a' = <<open>>
        BY <2>2, <3>1
      <3>. QED  BY <3>2, <3>3
    <2>. QED  BY <2>2, <2>3, <2>4, OnlySyn
  <1>3. CASE Recovers
    <2>1. /\ BuildSyn(TRUE) /\ a2d # <<>> /\ a2d' = Tail(a2d) /\ UNCHANGED <<d2a, hand>>
          /\ phase # "dead" /\ Head(a2d).type = "Error" /\ ~IgnoresError(Head(a2d))
      BY <1>3 DEF Recovers
    <2>2. ~recovering
      BY <2>1 DEF IgnoresError, ErrorVersioned
    <2>3. CASE Opening
      <3>1. IsAnswer(Head(a2d))
        BY <2>1 DEF IsAnswer
      <3>2. outbox = <<>> /\ hand' = <<>> /\ d2a' = <<>> /\ NoAnswer'
        BY <1>b, <2>1, <2>3, <3>1, OneUnderWay DEF NoAnswer
      <3>3. \A i \in DOMAIN d2a' : IsSyn(d2a'[i]) => d2a'[i].id = nextId
        BY <3>2
      <3>. QED  BY <2>1, <3>2, <3>3, OnlySyn
    <2>4. CASE ~Opening
      <3>1. handshakeDone
        BY <2>2, <2>4 DEF Opening
      <3>2. PICK syn \in Requests :
               /\ syn.id = nextId /\ syn.type = "Syn" /\ nextId' = nextId + 1
               /\ pipelineMap' = Append(pipelineMap, syn)
               /\ outbox' = IF TRUE THEN Append(outbox, syn) ELSE outbox
        BY <2>1, BuildSynDoes
      <3>3. ~handshakeDone'
        BY Zenon, <2>1 DEF BuildSyn
      <3>4. nextId = nextId' - 1
        BY <1>a, <3>2
      <3>5. ASSUME NEW id \in Nat, Newest(id)  PROVE StaysNewest(id)
        BY Zenon, <3>1, <3>5 DEF Newest
      <3>6. StaysNewest(nextId)
        <4>1. /\ pipelineMap' # <<>> /\ pipelineMap'[Len(pipelineMap')] = syn
          BY SMTT(30), <1>a, <3>2
        <4>. QED  BY Zenon, <3>2, <3>3, <3>4, <4>1 DEF StaysNewest
      <3>7. \A i \in DOMAIN outbox' : \/ \E k \in DOMAIN outbox : outbox'[i] = outbox[k]
                                      \/ StaysNewest(outbox'[i].id)
        <4>1. \A i \in DOMAIN outbox' : \/ i \in DOMAIN outbox /\ outbox'[i] = outbox[i]
                                        \/ outbox'[i] = syn
          BY <1>a, <3>2, AppendIs
        <4>. QED  BY <3>2, <3>6, <4>1
      <3>8. \A i \in DOMAIN a2d' : \E k \in DOMAIN a2d : a2d'[i] = a2d[k]
        BY <1>e, <2>1
      <3>. QED  BY <1>d, <2>1, <3>5, <3>7, <3>8
    <2>. QED  BY <2>3, <2>4
  <1>4. CASE Validates
    <2>0. a2d # <<>> /\ a2d' = Tail(a2d) /\ UNCHANGED <<d2a, hand>>
      BY <1>4 DEF Validates
    <2>1. \A i \in DOMAIN a2d' : \E k \in DOMAIN a2d : a2d'[i] = a2d[k]
      BY <1>e, <2>0
    <2>2. CASE ValidateSynAck(Head(a2d))
      <3>1. Sent(Head(a2d).of) /\ Newest(Head(a2d).of) /\ Head(a2d) \in Replies
              /\ QueueInv
        BY <2>0, <2>2, HeadIsSent DEF MapInv, ValidateSynAck
      <3>2. /\ outbox' = pipelineMap'
            /\ \A i \in DOMAIN pipelineMap' :
                 /\ pipelineMap'[i].type = "Data" /\ pipelineMap'[i].id \in Nat
                 /\ pipelineMap'[i].id >= nextId
        BY <2>2, <3>1, SynAckDoes
      <3>3. Head(a2d).of = nextId - 1 /\ Head(a2d).of \in Nat \ {0}
        <4>1. /\ Head(a2d).of \in Nat /\ Head(a2d).of = nextId - 1
              /\ pipelineMap # <<>> /\ pipelineMap[Len(pipelineMap)].id = Head(a2d).of
          BY <1>a, <3>1 DEF Newest
        <4>2. Len(pipelineMap) \in DOMAIN pipelineMap
          BY <1>a, <4>1
        <4>. QED  BY <1>b, <4>1, <4>2 DEF QueueInv, Ascends
      <3>4. \A i \in DOMAIN outbox' : ~IsSyn(outbox'[i])
        BY <3>2 DEF IsSyn
      <3>5. Head(a2d) = a2d[1] /\ 1 \in DOMAIN a2d
        BY <1>a, <2>0, TailIs
      <3>6. ASSUME NEW i \in DOMAIN d2a, IsSyn(d2a[i])  PROVE FALSE
        <4>1. d2a[i].id = nextId - 1
          BY <1>b, <3>6 DEF SynInv, Newest
        <4>. QED  BY <1>b, <3>3, <3>5, <4>1 DEF RisingInv
      <3>7. ASSUME NEW i \in DOMAIN hand, IsSyn(hand[i])  PROVE FALSE
        <4>1. hand[i].id = nextId - 1
          BY <1>b, <3>7 DEF SynInv, Newest
        <4>. QED  BY <1>b, <3>3, <3>5, <4>1 DEF RisingInv
      <3>8. ASSUME NEW i \in DOMAIN a2d', a2d'[i].type = "SynAck"  PROVE FALSE
        <4>1. i + 1 \in DOMAIN a2d /\ a2d'[i] = a2d[i + 1] /\ i \in Nat \ {0}
          <5>1. i + 1 \in DOMAIN a2d /\ a2d'[i] = a2d[i + 1] /\ a2d' \in Seq(Replies)
            BY <1>a, <2>0, TailIs
          <5>. QED  BY <5>1
        <4>2. a2d[i + 1].of = nextId - 1
          BY <1>b, <3>8, <4>1 DEF SynInv, Newest
        <4>3. 1 < i + 1
          BY <4>1
        <4>. QED  BY <1>b, <3>3, <3>5, <4>1, <4>2, <4>3 DEF RisingInv
      <3>. QED  BY <2>0, <3>4, <3>6, <3>7, <3>8, SynFrom
    <2>3. CASE ValidateDataAck(Head(a2d))
      <3>1. Sent(Head(a2d).of) /\ Head(a2d) \in Replies /\ QueueInv
        BY <2>0, HeadIsSent DEF MapInv
      <3>2. nextId' = nextId /\ outbox' = outbox
        BY <2>3, <3>1, DataAckDoes
      <3>3. ASSUME NEW id \in Nat, Newest(id), id # Head(a2d).of  PROVE StaysNewest(id)
        <4>. DEFINE c == IndexOf(pipelineMap, Head(a2d).of)
        <4>1. c \in DOMAIN pipelineMap /\ pipelineMap[c].id = Head(a2d).of
          BY <2>3, IndexOfIsIndex DEF ValidateDataAck
        <4>2. pipelineMap' = RemoveAt(pipelineMap, c)
          BY <2>3 DEF ValidateDataAck, Without
        <4>. HIDE DEF c
        <4>3. /\ ~handshakeDone /\ id = nextId - 1 /\ pipelineMap # <<>>
              /\ pipelineMap[Len(pipelineMap)].id = id
              /\ pipelineMap[Len(pipelineMap)].type = "Syn"
          BY Zenon, <3>3 DEF Newest
        <4>4. c # Len(pipelineMap)
          BY <3>3, <4>1, <4>3
        <4>5. /\ pipelineMap' \in Seq(Requests)
                   /\ Len(pipelineMap') = Len(pipelineMap) - 1
              /\ \A i \in DOMAIN pipelineMap' :
                   pipelineMap'[i] = IF i < c THEN pipelineMap[i] ELSE pipelineMap[i + 1]
          BY <1>a, <4>1, <4>2, RemoveAtIs
        <4>6. c \in 1..(Len(pipelineMap) - 1) /\ Len(pipelineMap) \in Nat
          BY <1>a, <4>1, <4>4
        <4>7. Len(pipelineMap') \in DOMAIN pipelineMap' /\ ~(Len(pipelineMap') < c)
              /\ Len(pipelineMap') + 1 = Len(pipelineMap)
          BY <4>5, <4>6
        <4>8. pipelineMap'[Len(pipelineMap')] = pipelineMap[Len(pipelineMap)]
                /\ pipelineMap' # <<>>
          BY <4>5, <4>7
        <4>9. ~handshakeDone'
          BY Zenon, <2>3, <4>3 DEF ValidateDataAck
        <4>. QED  BY Zenon, <3>2, <4>3, <4>8, <4>9 DEF StaysNewest
      <3>5. Head(a2d) = a2d[1] /\ 1 \in DOMAIN a2d /\ Head(a2d).of \in Nat
        BY <1>a, <2>0, TailIs
      <3>6. ASSUME NEW i \in DOMAIN d2a, IsSyn(d2a[i])  PROVE StaysNewest(d2a[i].id)
        <4>1. Newest(d2a[i].id) /\ d2a[i].id \in Nat
          BY <1>a, <1>b, <3>6 DEF SynInv
        <4>2. d2a[i].id # 0
          BY <1>a, <1>b, <4>1, NewestIsNoZero
        <4>3. a2d[1].of < d2a[i].id
          BY <1>b, <3>5, <4>2 DEF RisingInv
        <4>. QED  BY <3>3, <3>5, <4>1, <4>3
      <3>7. ASSUME NEW i \in DOMAIN hand, IsSyn(hand[i])  PROVE StaysNewest(hand[i].id)
        <4>1. Newest(hand[i].id) /\ hand[i].id \in Nat
          BY <1>a, <1>b, <3>7 DEF SynInv
        <4>3. a2d[1].of < hand[i].id
          BY <1>b, <3>5 DEF RisingInv
        <4>. QED  BY <3>3, <3>5, <4>1, <4>3
      <3>8. ASSUME NEW i \in DOMAIN outbox,
                   IsSyn(outbox[i])  PROVE StaysNewest(outbox[i].id)
        <4>1. Newest(outbox[i].id) /\ outbox[i].id \in Nat
          BY <1>a, <1>b, <3>8 DEF SynInv
        <4>3. Head(a2d).of < outbox[i].id
          BY <3>1 DEF Sent
        <4>. QED  BY <3>3, <3>5, <4>1, <4>3
      <3>9. ASSUME NEW i \in DOMAIN a2d', a2d'[i].type = "SynAck"
            PROVE  StaysNewest(a2d'[i].of)
        <4>1. i + 1 \in DOMAIN a2d /\ a2d'[i] = a2d[i + 1] /\ i \in Nat \ {0}
          <5>1. i + 1 \in DOMAIN a2d /\ a2d'[i] = a2d[i + 1] /\ a2d' \in Seq(Replies)
            BY <1>a, <2>0, TailIs
          <5>. QED  BY <5>1
        <4>2. Newest(a2d[i + 1].of) /\ a2d[i + 1].of \in Nat
          BY <1>a, <1>b, <3>9, <4>1 DEF SynInv
        <4>3. 1 < i + 1 /\ a2d[i + 1].of # 0
          BY <1>b, <4>1, <4>2, NewestIsNoZero
        <4>4. a2d[1].of < a2d[i + 1].of
          BY <1>b, <3>5, <4>1, <4>3 DEF RisingInv
        <4>. QED  BY <3>3, <3>5, <4>1, <4>2, <4>4
      <3>10. UNCHANGED <<d2a, hand>> /\ outbox' = outbox
        BY <2>0, <3>2
      <3>. QED  BY <3>6, <3>7, <3>8, <3>9, <3>10, SynFrom
    <2>. QED  BY <1>4, <2>2, <2>3 DEF Validates
  <1>5. CASE Pipes
    <2>1. UNCHANGED <<d2a, a2d, hand>>
      BY <1>5 DEF Pipes, PipeOutput, wireVars
    <2>2. handshakeDone
      BY Zenon, <1>5 DEF Pipes, PipeOutput, Inbox
    <2>3. CASE UNCHANGED <<pipelineMap, outbox, nextId>>
      <3>1. \A id \in Nat : id < nextId /\ Newest(id) => StaysNewest(id)
        BY <1>f, <2>2, <2>3
      <3>. QED  BY <1>d, <2>1, <2>3, <3>1
    <2>4. ASSUME NEW data \in Requests, data.id = nextId, data.type = "Data",
                 nextId' = nextId + 1, pipelineMap' = Append(pipelineMap, data),
                 outbox' = Append(outbox, data)
          PROVE  SynInv'
      <3>1. ASSUME NEW id \in Nat, Newest(id)  PROVE StaysNewest(id)
        BY Zenon, <2>2, <3>1 DEF Newest
      <3>2. \A i \in DOMAIN outbox' : \/ \E k \in DOMAIN outbox : outbox'[i] = outbox[k]
                                      \/ ~IsSyn(outbox'[i])
        <4>1. \A i \in DOMAIN outbox' : \/ i \in DOMAIN outbox /\ outbox'[i] = outbox[i]
                                        \/ outbox'[i] = data
          BY <1>a, <2>4, AppendIs
        <4>. QED  BY <2>4, <4>1 DEF IsSyn
      <3>. QED  BY <1>d, <2>1, <3>1, <3>2
    <2>. QED  BY <1>5, <2>3, <2>4, PipesDoes
  <1>6. CASE Takes
    <2>1. /\ UNCHANGED <<d2a, a2d, nextId, pipelineMap>> /\ handshakeDone' = handshakeDone
          /\ outbox # <<>> /\ hand' = <<Head(outbox)>> /\ outbox' = Tail(outbox)
      BY <1>6 DEF Takes
    <2>2. /\ \A i \in DOMAIN outbox' : i + 1 \in DOMAIN outbox
               /\ outbox'[i] = outbox[i + 1]
          /\ 1 \in DOMAIN outbox /\ Head(outbox) = outbox[1]
      BY <1>a, <2>1, TailIs
    <2>3. ~handshakeDone => ~handshakeDone'
      BY Zenon, <2>1
    <2>4. \A id \in Nat : id < nextId /\ Newest(id) => StaysNewest(id)
      BY <1>f, <2>1, <2>3
    <2>5. \A i \in DOMAIN hand' : hand'[i] = outbox[1]
      BY <2>1, <2>2
    <2>. QED  BY <1>d, <2>1, <2>2, <2>4, <2>5
  <1>7. CASE Sends
    <2>1. /\ UNCHANGED <<a2d, outbox, nextId, pipelineMap>>
               /\ handshakeDone' = handshakeDone
          /\ hand # <<>> /\ hand' = <<>> /\ (d2a' = d2a \/ d2a' = Append(d2a, Head(hand)))
      BY <1>7 DEF Sends
    <2>2. 1 \in DOMAIN hand /\ Head(hand) = hand[1] /\ Head(hand) \in Requests
      BY <1>a, <2>1, TailIs, HeadAndTail
    <2>3. ~handshakeDone => ~handshakeDone'
      BY Zenon, <2>1
    <2>4. \A id \in Nat : id < nextId /\ Newest(id) => StaysNewest(id)
      BY <1>f, <2>1, <2>3
    <2>5. \A i \in DOMAIN d2a' : (i \in DOMAIN d2a /\ d2a'[i] = d2a[i])
            \/ d2a'[i] = hand[1]
      BY <1>a, <2>1, <2>2, AppendIs
    <2>6. DOMAIN hand' = {}
      BY <2>1
    <2>. QED  BY <1>d, <2>1, <2>2, <2>4, <2>5, <2>6
  <1>8. CASE Answers
    <2>1. /\ UNCHANGED <<hand, outbox, nextId, pipelineMap>>
               /\ handshakeDone' = handshakeDone
          /\ d2a # <<>> /\ d2a' = Tail(d2a)
      BY <1>8 DEF Answers, daemonSide
    <2>2. /\ \A i \in DOMAIN d2a' : i + 1 \in DOMAIN d2a /\ d2a'[i] = d2a[i + 1]
          /\ 1 \in DOMAIN d2a /\ Head(d2a) = d2a[1]
      BY <1>a, <2>1, TailIs
    <2>3. ~handshakeDone => ~handshakeDone'
      BY Zenon, <2>1
    <2>4. \A id \in Nat : id < nextId /\ Newest(id) => StaysNewest(id)
      BY <1>f, <2>1, <2>3
    <2>5. CASE a2d' = a2d
      BY <1>d, <2>1, <2>2, <2>4, <2>5
    <2>6. ASSUME NEW r \in Replies, r.of = Head(d2a).id,
                 r.type = "SynAck" => IsSyn(Head(d2a)), a2d' = Append(a2d, r)
          PROVE  SynInv'
      <3>1. \A i \in DOMAIN a2d' : (i \in DOMAIN a2d /\ a2d'[i] = a2d[i]) \/ a2d'[i] = r
        BY <1>a, <2>6, AppendIs
      <3>2. \A i \in DOMAIN a2d' :
              \/ \E k \in DOMAIN a2d : a2d'[i] = a2d[k]
              \/ a2d'[i].type # "SynAck"
              \/ \E k \in DOMAIN d2a : IsSyn(d2a[k]) /\ a2d'[i].of = d2a[k].id
        BY <2>2, <2>6, <3>1
      <3>. QED  BY <1>d, <2>1, <2>2, <2>4, <3>2
    <2>. QED  BY <1>8, <2>5, <2>6 DEF Answers
  <1>9. CASE Skips
    <2>1. /\ UNCHANGED <<hand, outbox, nextId, pipelineMap>>
               /\ handshakeDone' = handshakeDone
          /\ a2d' = a2d \/ a2d' = Append(a2d, StreamMsg)
      BY <1>9 DEF Skips, daemonSide
    <2>2. \A i \in DOMAIN d2a' : \E k \in DOMAIN d2a : d2a'[i] = d2a[k]
      BY <1>9, <1>a, EndIs DEF Skips
    <2>3. ~handshakeDone => ~handshakeDone'
      BY Zenon, <2>1
    <2>4. \A id \in Nat : id < nextId /\ Newest(id) => StaysNewest(id)
      BY <1>f, <2>1, <2>3
    <2>5. \A i \in DOMAIN a2d' :
            (i \in DOMAIN a2d /\ a2d'[i] = a2d[i]) \/ a2d'[i].type # "SynAck"
      <3>1. StreamMsg \in Replies /\ StreamMsg.type # "SynAck"
        BY DEF StreamMsg, NoHash, Replies
      <3>. QED  BY <1>a, <2>1, <3>1, AppendIs
    <2>. QED  BY <1>d, <2>1, <2>2, <2>4, <2>5
  <1>. QED  BY <1>1, <1>2, <1>3, <1>4, <1>5, <1>6, <1>7, <1>8, <1>9

\* Every move keeps LengthInv.
LEMMA LengthStep ==
  ASSUME TypeOK, TypeOK', MapInv, QueueInv', LengthInv,
         AgentVersion # "1", MaxSynRetries < PipelineLimit,
         \/ Idles \/ Opens \/ Recovers \/ Validates \/ Pipes \/ Takes \/ Sends
         \/ Answers \/ Skips
  PROVE  LengthInv'
  <1>a. /\ PipelineLimit \in Nat \ {0} /\ MaxSynRetries \in Nat
        /\ MaxSynRetries + 1 <= PipelineLimit
    BY MrtapAssumption, ChannelAssumption
  <1>b. /\ pipelineMap \in Seq(Requests) /\ outbox \in Seq(Requests)
        /\ Len(pipelineMap) \in Nat /\ Len(outbox) \in Nat /\ retries \in Nat
    BY Wires
  <1>c. /\ Len(pipelineMap') \in Nat /\ Len(outbox') \in Nat
        /\ Len(outbox') <= Len(pipelineMap')
    <2>1. pipelineMap' \in Seq(Requests) /\ outbox' \in Seq(Requests)
      BY DEF TypeOK, MrtapTypeOK
    <2>. QED  BY <2>1 DEF QueueInv, IsEndOf
  <1>d. /\ retries <= MaxSynRetries
        /\ handshakeDone => Len(pipelineMap) <= PipelineLimit
        /\ Opening => Len(pipelineMap) <= retries + 1
        /\ recovering => Len(pipelineMap) <= PipelineLimit + 1
        /\ Len(outbox) <= PipelineLimit
    BY DEF LengthInv, OutboxFits
  <1>e. Len(pipelineMap) <= PipelineLimit + 1
    <2>1. Len(pipelineMap) <= PipelineLimit \/ Len(pipelineMap) <= retries + 1
            \/ Len(pipelineMap) <= PipelineLimit + 1
      BY Zenon, <1>d DEF Opening
    <2>. QED  BY <1>a, <1>b, <1>d, <2>1
  <1>f. ~recovering => Len(pipelineMap) <= PipelineLimit
    <2>1. ~recovering => Len(pipelineMap) <= PipelineLimit
            \/ Len(pipelineMap) <= retries + 1
      BY Zenon, <1>d DEF Opening
    <2>. QED  BY <1>a, <1>b, <1>d, <2>1
  \* nothing is built
  <1>g. ASSUME Len(pipelineMap') <= Len(pipelineMap), Len(outbox') <= Len(outbox),
               retries' \in Nat, retries <= retries', retries' <= MaxSynRetries,
               handshakeDone' => handshakeDone, Opening' => Opening
        PROVE  LengthInv'
    <2>1. handshakeDone' => Len(pipelineMap') <= PipelineLimit
      BY <1>a, <1>b, <1>c, <1>d, <1>g
    <2>2. Opening' => Len(pipelineMap') <= retries' + 1
      BY <1>a, <1>b, <1>c, <1>d, <1>g
    <2>3. Len(pipelineMap') <= PipelineLimit + 1 /\ Len(outbox') <= PipelineLimit
      BY <1>a, <1>b, <1>c, <1>d, <1>e, <1>g
    <2>. QED  BY <1>g, <2>1, <2>2, <2>3 DEF LengthInv, OutboxFits
  <1>1. CASE Idles
    <2>1. /\ UNCHANGED <<outbox, pipelineMap>>
          /\ retries' = retries \/ (retries < MaxSynRetries /\ retries' = retries + 1)
      BY <1>1 DEF Idles
    <2>2. handshakeDone' => handshakeDone
      <3>1. CASE handshakeDone' = handshakeDone
        BY Zenon, <3>1
      <3>2. CASE handshakeDone' # handshakeDone
        BY Zenon, <1>1, <3>2 DEF Idles
      <3>. QED  BY Zenon, <3>1, <3>2
    <2>3. Opening' => Opening
      BY Zenon, <1>1 DEF Idles, Opening
    <2>4. retries' \in Nat /\ retries <= retries' /\ retries' <= MaxSynRetries
      BY <1>a, <1>b, <1>d, <2>1
    <2>. QED  BY <1>b, <1>g, <2>1, <2>2, <2>3, <2>4
  <1>2. CASE Opens
    <2>1. Opening /\ phase # "dead"
      BY <1>2 DEF Opens, MapInv, OpeningInv
    <2>2. ~handshakeDone' /\ ~recovering'
      BY Zenon, <1>2, <2>1 DEF Opens, BuildSyn, Opening
    <2>3. outbox = <<>> /\ Len(pipelineMap) + 1 <= retries' + 1
            /\ retries' <= MaxSynRetries
      <3>1. CASE phase = "new"
        <4>1. retries' = retries /\ outbox = <<>> /\ pipelineMap = <<>>
          BY <1>2, <3>1 DEF Opens, MapInv, OpeningInv
        <4>. QED  BY <1>b, <1>d, <4>1
      <3>2. CASE phase # "new"
        <4>1. a2d # <<>> /\ IsAnswer(Head(a2d))
              /\ retries < MaxSynRetries /\ retries' = retries + 1
          BY <1>2, <3>2 DEF Opens
        <4>2. outbox = <<>>
          BY <2>1, <4>1, OneUnderWay DEF MapInv
        <4>. QED  BY <1>a, <1>b, <1>d, <2>1, <4>1, <4>2
      <3>. QED  BY <3>1, <3>2
    <2>4. BuildSyn(Attach) /\ Attach \in BOOLEAN
      BY <1>2, ChannelAssumption DEF Opens
    <2>5. PICK syn \in Requests :
             /\ pipelineMap' = Append(pipelineMap, syn)
             /\ outbox' = IF Attach THEN Append(outbox, syn) ELSE outbox
      BY <2>4, BuildSynDoes
    <2>6. Len(pipelineMap') = Len(pipelineMap) + 1
      BY <1>b, <2>5
    <2>7. Len(outbox') <= 1
      <3>1. outbox' = <<>> \/ outbox' = <<syn>>
        BY <2>3, <2>5
      <3>2. Len(<<>>) = 0 /\ Len(<<syn>>) = 1
        OBVIOUS
      <3>3. CASE outbox' = <<>>
        BY <3>3
      <3>4. CASE outbox' = <<syn>>
        <4>1. Len(outbox') = 1
          BY Zenon, <3>2, <3>4
        <4>. QED  BY <4>1
      <3>. QED  BY <3>1, <3>3, <3>4
    <2>8. Len(outbox') <= PipelineLimit
      BY <1>a, <1>c, <2>7
    <2>. QED  BY <2>2, <2>3, <2>6, <2>8 DEF LengthInv, OutboxFits
  <1>3. CASE Recovers
    <2>1. /\ BuildSyn(TRUE) /\ a2d # <<>> /\ ~IgnoresError(Head(a2d))
               /\ retries' = retries
      BY <1>3 DEF Recovers
    <2>2. ~recovering /\ Head(a2d).of \in Ids(pipelineMap)
      BY <2>1 DEF IgnoresError, ErrorVersioned
    <2>3. ~handshakeDone' /\ ~Opening'
      BY Zenon, <1>3 DEF Recovers, BuildSyn, Opening
    <2>4. PICK syn \in Requests :
             /\ pipelineMap' = Append(pipelineMap, syn)
             /\ outbox' = IF TRUE THEN Append(outbox, syn) ELSE outbox
      BY <2>1, BuildSynDoes
    <2>5. Len(pipelineMap') = Len(pipelineMap) + 1 /\ Len(outbox') = Len(outbox) + 1
      BY <1>b, <2>4
    \* the message refused is in the pipeline and not in the outbox
    <2>6. Len(outbox) < Len(pipelineMap)
      <3>. DEFINE c == IndexOf(pipelineMap, Head(a2d).of)
      <3>1. c \in DOMAIN pipelineMap /\ pipelineMap[c].id = Head(a2d).of
        BY <2>2, IndexOfIsIndex
      <3>. HIDE DEF c
      <3>2. c <= Len(pipelineMap) - Len(outbox)
        BY <2>1, <3>1, HeadIsSent, SentIsBefore DEF MapInv
      <3>3. c \in Nat \ {0}
        BY <1>b, <3>1
      <3>. QED  BY <1>b, <3>2, <3>3
    <2>7. Len(pipelineMap') <= PipelineLimit + 1 /\ Len(outbox') <= PipelineLimit
      BY <1>a, <1>b, <1>f, <2>2, <2>5, <2>6
    <2>. QED  BY <1>d, <2>1, <2>3, <2>7 DEF LengthInv, OutboxFits
  <1>4. CASE Validates
    <2>0. a2d # <<>> /\ retries' = retries
      BY <1>4 DEF Validates
    <2>1. CASE ValidateSynAck(Head(a2d))
      <3>1. Sent(Head(a2d).of) /\ Newest(Head(a2d).of) /\ Head(a2d) \in Replies
              /\ QueueInv
        BY <2>0, <2>1, HeadIsSent DEF MapInv, ValidateSynAck
      <3>2. Len(pipelineMap') < Len(pipelineMap)
        BY <2>1, <3>1, SynAckDoes
      <3>3. handshakeDone' /\ ~recovering' /\ ~Opening'
        BY Zenon, <2>1 DEF ValidateSynAck, Opening
      <3>4. Len(pipelineMap') <= PipelineLimit /\ Len(outbox') <= PipelineLimit
        BY <1>a, <1>b, <1>c, <1>e, <3>2
      <3>. QED  BY <1>d, <2>0, <3>3, <3>4 DEF LengthInv, OutboxFits
    <2>2. CASE ValidateDataAck(Head(a2d))
      <3>1. Sent(Head(a2d).of) /\ Head(a2d) \in Replies /\ QueueInv
        BY <2>0, HeadIsSent DEF MapInv
      <3>2. outbox' = outbox /\ Len(pipelineMap') = Len(pipelineMap) - 1
        BY <2>2, <3>1, DataAckDoes
      <3>3. (handshakeDone' => handshakeDone) /\ (Opening' => Opening)
        BY Zenon, <2>2 DEF ValidateDataAck, Opening
      <3>4. Len(pipelineMap') <= Len(pipelineMap) /\ Len(outbox') <= Len(outbox)
        BY <1>b, <3>2
      <3>. QED  BY <1>b, <1>d, <1>g, <2>0, <3>3, <3>4
    <2>. QED  BY <1>4, <2>1, <2>2 DEF Validates
  <1>5. CASE Pipes
    <2>1. Len(pipelineMap) < Limit /\ retries' = retries
      BY <1>5 DEF Pipes, PipeOutput, Inbox
    <2>2. handshakeDone /\ handshakeDone' /\ ~Opening'
      BY Zenon, <1>5 DEF Pipes, PipeOutput, Inbox, Opening
    <2>3. Len(pipelineMap) + 1 <= PipelineLimit
      BY <1>a, <1>b, <2>1 DEF Limit
    <2>4. Len(pipelineMap') <= Len(pipelineMap) + 1
      BY <1>5, <1>b, PipesDoes
    <2>5. Len(pipelineMap') <= PipelineLimit /\ Len(outbox') <= PipelineLimit
          /\ Len(pipelineMap') <= PipelineLimit + 1
      BY <1>a, <1>b, <1>c, <2>3, <2>4
    <2>. QED  BY <1>d, <2>1, <2>2, <2>5 DEF LengthInv, OutboxFits
  <1>6. CASE Takes
    <2>1. UNCHANGED <<pipelineMap, retries>> /\ outbox # <<>> /\ outbox' = Tail(outbox)
      BY <1>6 DEF Takes
    <2>2. (handshakeDone' => handshakeDone) /\ (Opening' => Opening)
      BY Zenon, <1>6 DEF Takes, Opening
    <2>3. Len(outbox') <= Len(outbox) /\ Len(pipelineMap') <= Len(pipelineMap)
      BY <1>b, <2>1, TailIs
    <2>. QED  BY <1>b, <1>d, <1>g, <2>1, <2>2, <2>3
  <1>7. CASE Sends \/ Answers \/ Skips
    <2>1. UNCHANGED <<pipelineMap, retries, outbox>>
      BY <1>7 DEF Sends, Answers, Skips, daemonSide
    <2>2. (handshakeDone' => handshakeDone) /\ (Opening' => Opening)
      <3>1. handshakeDone' = handshakeDone /\ recovering' = recovering
        BY <1>7 DEF Sends, Answers, Skips, daemonSide
      <3>. QED  BY Zenon, <3>1 DEF Opening
    <2>3. Len(outbox') <= Len(outbox) /\ Len(pipelineMap') <= Len(pipelineMap)
      BY <1>b, <2>1
    <2>. QED  BY <1>b, <1>d, <1>g, <2>1, <2>2, <2>3
  <1>. QED  BY <1>1, <1>2, <1>3, <1>4, <1>5, <1>6, <1>7

\* Everything holds at the start.
LEMMA MapInit ==
  ASSUME Init  PROVE MapInv /\ (MaxSynRetries < PipelineLimit => LengthInv)
  <1>1. /\ pipelineMap = <<>> /\ outbox = <<>> /\ hand = <<>> /\ d2a = <<>> /\ nextId = 2
        /\ retries = 0 /\ phase = "new"
    BY DEF Init, MrtapInit, ChannelInit
  <1>2. ~handshakeDone /\ ~recovering
    BY Zenon DEF Init, MrtapInit
  <1>3. a2d = <<>> \/ a2d = <<DataAckMsg(1, FALSE)>>
    BY DEF Init, AgentInit
  <1>4. DataAckMsg(1, FALSE).of = 1 /\ DataAckMsg(1, FALSE).type = "DataAck"
    BY DEF DataAckMsg
  <1>5. \A i \in DOMAIN a2d : a2d[i].of = 1 /\ a2d[i].type = "DataAck"
    <2>. DEFINE ack == DataAckMsg(1, FALSE)
    <2>. HIDE DEF ack
    <2>1. \A i \in DOMAIN <<ack>> : <<ack>>[i] = ack
      OBVIOUS
    <2>2. DOMAIN <<>> = {}
      OBVIOUS
    <2>3. a2d = <<>> \/ a2d = <<ack>>
      BY <1>3 DEF ack
    <2>4. ack.of = 1 /\ ack.type = "DataAck"
      BY <1>4 DEF ack
    <2>. QED  BY <2>1, <2>2, <2>3, <2>4
  <1>6. OpeningInv
    BY <1>1, <1>2, <1>5 DEF OpeningInv, NoAnswer, IsAnswer, Opening
  <1>7. QueueInv
    BY <1>1 DEF QueueInv, Ascends, IsEndOf
  <1>8. SentInv
    BY <1>1, <1>5 DEF SentInv, Sent
  <1>9. SynInv
    BY <1>1, <1>5 DEF SynInv
  <1>11. RisingInv
    <2>1. \A i, j \in DOMAIN a2d : ~(i < j)
      <3>. DEFINE ack == DataAckMsg(1, FALSE)
      <3>. HIDE DEF ack
      <3>1. a2d = <<>> \/ a2d = <<ack>>
        BY <1>3 DEF ack
      <3>2. \A i \in DOMAIN a2d : i = 1
        BY <3>1
      <3>. QED  BY <3>2
    <2>. QED  BY <1>1, <2>1 DEF RisingInv
  <1>10. MaxSynRetries < PipelineLimit => LengthInv
    BY <1>1, <1>2, MrtapAssumption, ChannelAssumption DEF LengthInv, OutboxFits
  <1>. QED  BY <1>6, <1>7, <1>8, <1>9, <1>10, <1>11 DEF MapInv

\* Every step keeps MapInv.
LEMMA MapStep ==
  ASSUME TypeOK, TypeOK', MapInv, [Next]_vars, AgentVersion # "1"
  PROVE  MapInv'
  <1>1. \/ Idles \/ Opens \/ Recovers \/ Validates \/ Pipes \/ Takes \/ Sends
        \/ Answers \/ Skips
    BY Moves DEF MapInv
  <1>2. OpeningInv'
    BY <1>1, OpeningStep DEF MapInv
  <1>3. QueueInv' /\ NoOlder
    BY <1>1, QueueStep
  <1>4. SentInv' /\ SynInv' /\ RisingInv'
    BY <1>1, <1>3, SentStep, SynStep, RisingStep
  <1>. QED  BY <1>2, <1>3, <1>4 DEF MapInv

\* No push onto outboxQueue, made with stateLock held, finds it full.
THEOREM OutboxNeverFull ==
  ASSUME AgentVersion # "1", MaxSynRetries < PipelineLimit
  PROVE  Spec => []OutboxFits
  <1>1. Init => MapInv /\ LengthInv
    BY MapInit
  <1>2. TypeOK /\ TypeOK' /\ MapInv /\ LengthInv /\ [Next]_vars => MapInv' /\ LengthInv'
    <2>. SUFFICES ASSUME TypeOK, TypeOK', MapInv, LengthInv, [Next]_vars
                  PROVE  MapInv' /\ LengthInv'
      OBVIOUS
    <2>1. MapInv'
      BY MapStep
    <2>2. \/ Idles \/ Opens \/ Recovers \/ Validates \/ Pipes \/ Takes \/ Sends
          \/ Answers \/ Skips
      BY Moves DEF MapInv
    <2>3. LengthInv'
      BY <2>1, <2>2, LengthStep DEF MapInv
    <2>. QED  BY <2>1, <2>3
  <1>3. LengthInv => OutboxFits
    BY DEF LengthInv
  <1>. QED  BY <1>1, <1>2, <1>3, TypeCorrect, PTL DEF Spec

-----------------------------------------------------------------------------
(* The hash chain.                                                         *)

\* Before the end of the first handshake only Syns are built.
StartInv ==
  /\ Opening => delivered = <<>>
       /\ \A i \in DOMAIN pipelineMap : pipelineMap[i].type = "Syn"
  /\ \A i \in DOMAIN d2a : d2a[i].type = "Open" => Opening
  /\ \A i \in DOMAIN hand : hand[i].type # "Open"
  /\ \A i \in DOMAIN pipelineMap : pipelineMap[i].type \in {"Syn", "Data"}
  /\ lastData < nextId /\ expected.of < nextId /\ lastAck.of < nextId

\* Of the pipeline the first n messages are Data: the last n payloads piped.
Carries(n) ==
  /\ \A i \in DOMAIN pipelineMap : pipelineMap[i].type = "Data" <=> i <= n
  /\ \A i \in 1..n : pipelineMap[i].payload + n = Piped + i
  /\ n <= Piped

\* Each is built on the one before, and the agent, which has accepted the
\* first k, can accept no other than the next.
Links(n, k) ==
  /\ \A i \in 1..n :
       /\ pipelineMap[i].hp.of < pipelineMap[i].id
       /\ i > 1 => pipelineMap[i].hp.of = pipelineMap[i - 1].id
       /\ pipelineMap[i].hp.of = expected.of => i = k + 1
       /\ pipelineMap[i].id = expected.of => i = k
  /\ \A i \in DOMAIN pipelineMap : pipelineMap[i].id <= lastData <=> i <= k

\* The Data under way are of the pipeline.
Tracked ==
  /\ \A i \in DOMAIN d2a :
       d2a[i].type = "Data" => \E c \in DOMAIN pipelineMap : pipelineMap[c] = d2a[i]
  /\ \A i \in DOMAIN hand :
       hand[i].type = "Data" => \E c \in DOMAIN pipelineMap : pipelineMap[c] = hand[i]

\* The acks of the first j are under way; the agent acks all it accepts for as
\* long as it answers at all, and a SynAck says how far it has come.
Acks(k, j) ==
  /\ \A c \in 1..j : \E i \in DOMAIN a2d :
       a2d[i].type = "DataAck" /\ a2d[i].of = pipelineMap[c].id
  /\ \A i \in DOMAIN a2d : a2d[i].type = "DataAck" /\ a2d[i].of \in Ids(pipelineMap) =>
       \E c \in 1..j : a2d[i].of = pipelineMap[c].id
  /\ aState = "open" => j = k
  /\ \A i \in DOMAIN a2d : a2d[i].type = "SynAck" => j = k /\ a2d[i].nonce = lastData

\* The last payload delivered is that of the last Data accepted, which is in the
\* pipeline or was the last one acked.
Delivers(n, k) ==
  /\ delivered = <<>> => lastAckedData = NoHash /\ k = 0
  /\ delivered # <<>> =>
       /\ lastData > 0 /\ delivered[Len(delivered)] + n = Piped + k
       /\ k > 0 => pipelineMap[k].id = lastData
       /\ k = 0 => lastAckedData = lastData
  /\ n > 0 \/ delivered # <<>> => Len(pipelineMap) <= n + 1

Chain(n, k, j) ==
  /\ j <= k /\ k <= n /\ n <= Len(pipelineMap)
  /\ Carries(n) /\ Links(n, k) /\ Acks(k, j) /\ Delivers(n, k)

\* The payloads delivered are consecutive.
Consecutive == \A i \in DOMAIN delivered : delivered[i] = delivered[1] + (i - 1)

FlowInv ==
  /\ StartInv /\ Tracked
  /\ ~replyLost => Consecutive /\ \E n, k, j \in Nat : Chain(n, k, j)

-----------------------------------------------------------------------------
(* What the agent does, as far as the chain goes.                          *)

\* A new datachannel.
Opened ==
  /\ UNCHANGED daemonSide /\ d2a # <<>> /\ d2a' = Tail(d2a)
  /\ Head(d2a).type = "Open" /\ aState' = "open" /\ UNCHANGED delivered
  /\ lastData' = 0 /\ expected'.of = Head(d2a).id
  /\ a2d' = Append(a2d, SynAckMsg(Head(d2a).id, 0))

\* A Syn is accepted.
Synced ==
  /\ UNCHANGED daemonSide /\ d2a # <<>> /\ d2a' = Tail(d2a)
  /\ Head(d2a).type = "Syn" /\ UNCHANGED <<aState, lastData, delivered>>
  /\ expected'.of = Head(d2a).id
  /\ \/ aState = "open" /\ a2d' = Append(a2d, SynAckMsg(Head(d2a).id, lastData))
     \/ aState # "open" /\ a2d' = a2d

\* A Data is accepted.
Accepts ==
  /\ UNCHANGED daemonSide /\ d2a # <<>> /\ d2a' = Tail(d2a)
  /\ Head(d2a).type = "Data" /\ Head(d2a).hp = expected /\ UNCHANGED aState
  /\ lastData' = Head(d2a).id /\ expected'.of = Head(d2a).id
  /\ delivered' = Append(delivered, Head(d2a).payload)
  /\ \/ /\ aState = "open"
        /\ \E resp \in BOOLEAN : a2d' = Append(a2d, DataAckMsg(Head(d2a).id, resp))
     \/ aState # "open" /\ a2d' = a2d

\* Something is refused, skipped, lost or streamed.
Passes ==
  /\ UNCHANGED daemonSide /\ UNCHANGED <<lastData, expected, delivered>>
  /\ aState' = "open" => aState = "open"
  /\ \E c \in 0..Len(d2a) : d2a' = SubSeq(d2a, c + 1, Len(d2a))
  /\ \/ UNCHANGED a2d
     \/ \E r \in Replies : r.type \notin {"SynAck", "DataAck"} /\ a2d' = Append(a2d, r)

\* The agent's steps, in the words of the chain.
LEMMA AgentDoes ==
  ASSUME TypeOK, AgentVersion = "2.1+", "pluginFails" \notin Env,
         AgentStep(AgentMessage) \/ AgentStep(AgentEvent) \/ LoseRequest
  PROVE  Opened \/ Synced \/ Accepts \/ Passes
  <1>a. UNCHANGED daemonSide
    BY DEF AgentStep, LoseRequest, daemonVars, mrtapVars, channelVars, lossVars,
       daemonSide
  <1>b. /\ d2a \in Seq(Requests) /\ Len(d2a) \in Nat
        /\ d2a # <<>> => /\ Head(d2a) \in Requests /\ Head(d2a).id \in Nat
                         /\ 1 \in 0..Len(d2a) /\ Tail(d2a) = SubSeq(d2a, 1 + 1, Len(d2a))
        /\ d2a = SubSeq(d2a, 0 + 1, Len(d2a)) /\ 0 \in 0..Len(d2a)
    <2>1. d2a \in Seq(Requests)
      BY DEF TypeOK
    <2>2. \A m \in Requests : m.id \in Nat
      BY DEF Requests
    <2>3. ASSUME NEW S, NEW s \in Seq(S)
          PROVE  /\ Len(s) \in Nat /\ s = SubSeq(s, 0 + 1, Len(s)) /\ 0 \in 0..Len(s)
                 /\ s # <<>> => Tail(s) = SubSeq(s, 1 + 1, Len(s)) /\ 1 \in 0..Len(s)
      OBVIOUS
    <2>. QED  BY <2>1, <2>2, <2>3, HeadAndTail
  <1>c. ASSUME NEW id \in Nat
        PROVE  /\ ErrorMsg(id) \in Replies
                    /\ ErrorMsg(id).type \notin {"SynAck", "DataAck"}
               /\ FatalMsg(id) \in Replies
                    /\ FatalMsg(id).type \notin {"SynAck", "DataAck"}
    BY DEF ErrorMsg, FatalMsg, Replies, NoHash
  \* what is refused
  <1>d. ASSUME UNCHANGED <<lastData, expected, delivered>>, aState' = "open"
                 => aState = "open",
               d2a # <<>>, d2a' = Tail(d2a),
               \/ a2d' = a2d
               \/ a2d' = Append(a2d, ErrorMsg(Head(d2a).id))
               \/ a2d' = Append(a2d, FatalMsg(Head(d2a).id))
        PROVE  Passes
    <2>1. \E c \in 0..Len(d2a) : d2a' = SubSeq(d2a, c + 1, Len(d2a))
      BY <1>b, <1>d
    <2>2. \/ UNCHANGED a2d
          \/ \E r \in Replies : r.type \notin {"SynAck", "DataAck"}
               /\ a2d' = Append(a2d, r)
      BY <1>b, <1>c, <1>d
    <2>. QED  BY <1>a, <1>d, <2>1, <2>2 DEF Passes
  <1>1. CASE AgentStep(AgentMessage)
    <2>1. CASE OpenAccepted(expired)
      BY <1>a, <2>1 DEF OpenAccepted, OpenReceived, Opened, AckHash, NoHash
    <2>2. CASE OpenRefused(expired)
      <3>1. \/ a2d' = Append(a2d, ErrorMsg(Head(d2a).id))
            \/ a2d' = Append(a2d, FatalMsg(Head(d2a).id))
        BY Zenon, <2>2 DEF OpenRefused
      <3>2. /\ d2a # <<>> /\ d2a' = Tail(d2a) /\ aState' = "none"
            /\ UNCHANGED <<lastData, expected, delivered>>
        BY <2>2 DEF OpenRefused, OpenReceived
      <3>. QED  BY <1>d, <3>1, <3>2
    <2>3. CASE SynAccepted(expired, NonceChecked)
      BY <1>a, <2>3 DEF SynAccepted, SynReceived, Listening, Reply, Synced,
         NonceChecked, AckHash
    <2>4. CASE SynRefused(expired)
      <3>1. /\ d2a # <<>> /\ d2a' = Tail(d2a) /\ aState' = aState
            /\ UNCHANGED <<lastData, expected, delivered>>
            /\ a2d' = a2d \/ a2d' = Append(a2d, ErrorMsg(Head(d2a).id))
        BY <2>4 DEF SynRefused, SynReceived, Reply
      <3>. QED  BY <1>d, <3>1
    <2>5. ASSUME NEW resp \in BOOLEAN, DataAccepted(expired, resp)
          PROVE  Accepts
      BY <1>a, <2>5 DEF DataAccepted, DataReceived, ValidData, Listening, Reply,
         Accepts, AckHash
    <2>6. CASE DataRefused(expired)
      <3>1. /\ d2a # <<>> /\ d2a' = Tail(d2a) /\ aState' = aState
            /\ UNCHANGED <<lastData, expected, delivered>>
            /\ a2d' = a2d \/ a2d' = Append(a2d, ErrorMsg(Head(d2a).id))
        BY <2>6 DEF DataRefused, DataReceived, Reply
      <3>. QED  BY <1>d, <3>1
    <2>7. CASE Unread
      <3>1. /\ d2a # <<>> /\ d2a' = Tail(d2a) /\ aState' = aState
            /\ UNCHANGED <<lastData, expected, delivered, a2d>>
        BY <2>7 DEF Unread, agentVars
      <3>. QED  BY <1>d, <3>1
    <2>. QED  BY <1>1, <2>1, <2>2, <2>3, <2>4, <2>5, <2>6, <2>7 DEF AgentStep,
       AgentMessage
  <1>2. CASE AgentStep(AgentEvent)
    <2>1. StreamMsg \in Replies /\ StreamMsg.type \notin {"SynAck", "DataAck"}
      BY DEF StreamMsg, NoHash, Replies
    <2>2. CASE AgentStream
      <3>1. /\ UNCHANGED <<d2a, lastData, expected, delivered, aState>>
            /\ a2d' = a2d \/ a2d' = Append(a2d, StreamMsg)
        BY <2>2 DEF AgentStream
      <3>. QED  BY <1>a, <1>b, <2>1, <3>1 DEF Passes
    <2>3. CASE AgentPluginDone \/ AgentOrphaned
      <3>1. UNCHANGED <<d2a, a2d, lastData, expected, delivered>> /\ aState' # "open"
        BY <2>3 DEF AgentPluginDone, AgentOrphaned, wireVars
      <3>. QED  BY <1>a, <1>b, <3>1 DEF Passes
    <2>4. CASE CloseReceived
      <3>1. UNCHANGED <<a2d, lastData, expected, delivered>> /\ aState' # "open"
        BY <2>4 DEF CloseReceived
      <3>2. \E c \in 0..Len(d2a) : d2a' = SubSeq(d2a, c + 1, Len(d2a))
        <4>1. DOMAIN d2a \subseteq 0..Len(d2a)
          BY <1>b
        <4>. QED  BY <2>4, <4>1 DEF CloseReceived
      <3>. QED  BY <1>a, <3>1, <3>2 DEF Passes
    <2>. QED  BY <1>2, <2>2, <2>3, <2>4 DEF AgentStep, AgentEvent
  <1>3. CASE LoseRequest
    <2>1. /\ d2a # <<>> /\ d2a' = Tail(d2a) /\ aState' = aState
          /\ UNCHANGED <<lastData, expected, delivered, a2d>>
      BY <1>3 DEF LoseRequest, agentVars
    <2>. QED  BY <1>d, <2>1
  <1>. QED  BY <1>1, <1>2, <1>3

\* The numbers in messages and in the state.
LEMMA Fields ==
  ASSUME TypeOK
  PROVE  /\ \A m \in Requests : m.id \in Nat /\ m.payload \in Nat /\ m.hp.of \in Nat
         /\ \A r \in Replies : r.of \in Nat /\ r.nonce \in Nat /\ r.resp \in BOOLEAN
         /\ lastData \in Nat /\ expected.of \in Nat /\ lastAck.of \in Nat
         /\ lastAckedData \in Nat /\ nextId \in Nat /\ delivered \in Seq(Nat)
  <1>1. \A h \in AckHashes : h.of \in Nat
    BY DEF AckHashes
  <1>2. \A m \in Requests : m.id \in Nat /\ m.payload \in Nat /\ m.hp \in AckHashes
    BY DEF Requests
  <1>3. \A r \in Replies : r.of \in Nat /\ r.nonce \in Nat /\ r.resp \in BOOLEAN
    BY DEF Replies
  <1>4. expected \in AckHashes /\ lastAck \in AckHashes
    BY DEF TypeOK, AgentTypeOK, MrtapTypeOK
  <1>5. /\ lastData \in Nat /\ lastAckedData \in Nat /\ nextId \in Nat
        /\ delivered \in Seq(Nat)
    BY DEF TypeOK, AgentTypeOK, MrtapTypeOK
  <1>. QED  BY <1>1, <1>2, <1>3, <1>4, <1>5

\* What the agent takes from the wire.
LEMMA AgentTakes ==
  ASSUME TypeOK, Opened \/ Synced \/ Accepts \/ Passes
  PROVE  /\ UNCHANGED daemonSide /\ Piped' = Piped
         /\ \A i \in DOMAIN d2a' : \E c \in DOMAIN d2a : d2a'[i] = d2a[c]
  <1>1. UNCHANGED daemonSide
    BY DEF Opened, Synced, Accepts, Passes
  <1>2. Piped' = Piped
    BY <1>1 DEF daemonSide, Piped
  <1>3. d2a \in Seq(Requests)
    BY Wires
  <1>4. CASE d2a # <<>> /\ d2a' = Tail(d2a)
    <2>1. \A i \in DOMAIN d2a' : i + 1 \in DOMAIN d2a /\ d2a'[i] = d2a[i + 1]
      BY <1>3, <1>4, TailIs
    <2>. QED  BY <1>1, <1>2, <2>1
  <1>5. CASE \E c \in 0..Len(d2a) : d2a' = SubSeq(d2a, c + 1, Len(d2a))
    <2>1. PICK c \in 0..Len(d2a) : d2a' = SubSeq(d2a, c + 1, Len(d2a))
      BY <1>5
    <2>2. \A i \in DOMAIN d2a' : i + c \in DOMAIN d2a /\ d2a'[i] = d2a[i + c]
      BY <1>3, <2>1, EndIs
    <2>. QED  BY <1>1, <1>2, <2>2
  <1>. QED  BY <1>4, <1>5 DEF Opened, Synced, Accepts, Passes

\* Every move keeps StartInv.
LEMMA StartStep ==
  ASSUME TypeOK, TypeOK', MapInv, MapInv', StartInv, Tracked, AgentVersion = "2.1+",
         \/ Idles \/ Opens \/ Recovers \/ Validates \/ Pipes \/ Takes \/ Sends
         \/ Opened \/ Synced \/ Accepts \/ Passes
  PROVE  StartInv'
  <1>a. /\ pipelineMap \in Seq(Requests) /\ outbox \in Seq(Requests) /\ nextId \in Nat
        /\ hand \in Seq(Requests) /\ d2a \in Seq(Requests) /\ a2d \in Seq(Replies)
        /\ nextId' \in Nat
    BY Wires DEF TypeOK, MrtapTypeOK
  <1>b. /\ lastData \in Nat /\ expected.of \in Nat /\ lastAck.of \in Nat
        /\ \A m \in Requests : m.id \in Nat
        /\ 0 < nextId /\ NoAck.of = 0
    BY Fields DEF MapInv, QueueInv, NoAck, AckHash, NoHash
  <1>c. /\ Opening => delivered = <<>>
             /\ \A i \in DOMAIN pipelineMap : pipelineMap[i].type = "Syn"
        /\ \A i \in DOMAIN d2a : d2a[i].type = "Open" => Opening
        /\ \A i \in DOMAIN hand : hand[i].type # "Open"
        /\ \A i \in DOMAIN pipelineMap : pipelineMap[i].type \in {"Syn", "Data"}
        /\ lastData < nextId /\ expected.of < nextId /\ lastAck.of < nextId
    BY DEF StartInv
  <1>d. ASSUME \/ Recovers \/ (Idles /\ recovering' /\ ~recovering)
        PROVE  Opening => d2a = <<>>
    <2>1. a2d # <<>> /\ IsAnswer(Head(a2d)) /\ phase # "dead"
      <3>1. CASE Recovers
        BY <3>1 DEF Recovers, IsAnswer
      <3>2. CASE Idles /\ recovering' /\ ~recovering
        <4>1. recovering' # recovering
          BY Zenon, <3>2
        <4>2. ~(UNCHANGED <<handshakeDone, recovering>>)
          BY <4>1
        <4>. QED  BY <3>2, <4>2 DEF Idles
      <3>. QED  BY <1>d, <3>1, <3>2
    <2>. QED  BY <2>1, OneUnderWay DEF MapInv
  <1>1. CASE Idles
    <2>1. /\ UNCHANGED <<hand, pipelineMap, nextId>>
          /\ d2a' = d2a \/ d2a' = Append(d2a, CloseMsg)
          /\ UNCHANGED <<lastData, expected, delivered>>
          /\ lastAck' = lastAck \/ lastAck' = NoAck
      BY <1>1 DEF Idles, agentVars
    <2>2. Opening' => Opening
      BY Zenon, <1>1 DEF Idles, Opening
    <2>3. \A i \in DOMAIN d2a' : (i \in DOMAIN d2a /\ d2a'[i] = d2a[i])
            \/ d2a'[i].type # "Open"
      <3>1. CloseMsg \in Requests /\ CloseMsg.type # "Open"
        BY DEF CloseMsg, NoAck, NoHash, AckHash, AckHashes, Requests
      <3>. QED  BY <1>a, <2>1, <3>1, AppendIs
    <2>4. ASSUME NEW i \in DOMAIN d2a, d2a[i].type = "Open"  PROVE Opening'
      <3>1. Opening /\ d2a # <<>>
        BY <1>a, <1>c, <2>4
      <3>2. ~recovering'
        BY Zenon, <1>1, <1>d, <3>1 DEF Opening
      <3>3. ~handshakeDone'
        <4>1. CASE handshakeDone' = handshakeDone
          BY Zenon, <3>1, <4>1 DEF Opening
        <4>2. CASE handshakeDone' # handshakeDone
          BY Zenon, <1>1, <4>2 DEF Idles
        <4>. QED  BY Zenon, <4>1, <4>2
      <3>. QED  BY Zenon, <3>2, <3>3 DEF Opening
    <2>. QED  BY <1>b, <1>c, <2>1, <2>2, <2>3, <2>4 DEF StartInv
  <1>2. CASE Opens
    <2>1. Opening
      BY <1>2 DEF Opens, MapInv, OpeningInv
    <2>2. Opening'
      BY Zenon, <1>2, <2>1 DEF Opens, BuildSyn, Opening
    <2>3. BuildSyn(Attach) /\ Attach \in BOOLEAN /\ hand' = hand
          /\ UNCHANGED <<lastData, expected, delivered>>
      BY <1>2, ChannelAssumption DEF Opens, agentVars
    <2>4. PICK syn \in Requests : /\ syn.type = "Syn" /\ nextId' = nextId + 1
                                  /\ pipelineMap' = Append(pipelineMap, syn)
      BY <2>3, BuildSynDoes
    <2>5. \A i \in DOMAIN pipelineMap' :
            (i \in DOMAIN pipelineMap /\ pipelineMap'[i] = pipelineMap[i])
              \/ pipelineMap'[i] = syn
      BY <1>a, <2>4, AppendIs
    <2>6. \A i \in DOMAIN pipelineMap' : pipelineMap'[i].type = "Syn"
      BY <1>c, <2>1, <2>4, <2>5
    <2>7. lastAck' = NoAck
      BY <2>3 DEF BuildSyn
    <2>8. lastData' < nextId' /\ expected'.of < nextId' /\ lastAck'.of < nextId'
      BY <1>a, <1>b, <1>c, <2>3, <2>4, <2>7
    <2>. QED  BY <1>c, <2>1, <2>2, <2>3, <2>6, <2>8 DEF StartInv
  <1>3. CASE Recovers
    <2>1. ~Opening'
      BY Zenon, <1>3 DEF Recovers, Opening
    <2>2. BuildSyn(TRUE) /\ UNCHANGED <<hand, d2a, lastData, expected, delivered>>
      BY <1>3 DEF Recovers, agentVars
    <2>3. PICK syn \in Requests : /\ syn.type = "Syn" /\ nextId' = nextId + 1
                                  /\ pipelineMap' = Append(pipelineMap, syn)
      BY <2>2, BuildSynDoes
    <2>4. \A i \in DOMAIN pipelineMap' :
            (i \in DOMAIN pipelineMap /\ pipelineMap'[i] = pipelineMap[i])
              \/ pipelineMap'[i] = syn
      BY <1>a, <2>3, AppendIs
    <2>5. \A i \in DOMAIN pipelineMap' : pipelineMap'[i].type \in {"Syn", "Data"}
      BY <1>c, <2>3, <2>4
    <2>6. lastAck' = NoAck
      BY <2>2 DEF BuildSyn
    <2>7. lastData' < nextId' /\ expected'.of < nextId' /\ lastAck'.of < nextId'
      BY <1>a, <1>b, <1>c, <2>2, <2>3, <2>6
    <2>8. \A i \in DOMAIN d2a' : d2a'[i].type # "Open"
      BY <1>3, <1>a, <1>c, <1>d, <2>2
    <2>. QED  BY <1>c, <2>1, <2>2, <2>5, <2>7, <2>8 DEF StartInv
  <1>4. CASE Validates
    <2>0. a2d # <<>> /\ UNCHANGED <<d2a, hand, lastData, expected, delivered>>
      BY <1>4 DEF Validates, agentVars
    <2>1. CASE ValidateSynAck(Head(a2d))
      <3>1. Sent(Head(a2d).of) /\ Newest(Head(a2d).of) /\ Head(a2d) \in Replies
              /\ QueueInv
        BY <2>0, <2>1, HeadIsSent DEF MapInv, ValidateSynAck
      <3>2. /\ Head(a2d).of = nextId - 1 /\ nextId' = nextId + Len(pipelineMap')
            /\ Len(pipelineMap') \in Nat
            /\ \A i \in DOMAIN pipelineMap' : pipelineMap'[i].type = "Data"
        BY <2>1, <3>1, SynAckDoes
      <3>3. handshakeDone' /\ ~Opening'
        BY Zenon, <2>1 DEF ValidateSynAck, Opening
      <3>4. lastAck'.of = Head(a2d).of
        BY <2>1 DEF ValidateSynAck, AckHash
      <3>5. lastData' < nextId' /\ expected'.of < nextId' /\ lastAck'.of < nextId'
        BY <1>a, <1>b, <1>c, <2>0, <3>2, <3>4
      <3>6. \A i \in DOMAIN d2a' : d2a'[i].type # "Open"
        BY <3>3 DEF MapInv, SynInv, IsSyn, Newest
      <3>. QED  BY <1>c, <2>0, <3>2, <3>3, <3>5, <3>6 DEF StartInv
    <2>2. CASE ValidateDataAck(Head(a2d))
      <3>1. Sent(Head(a2d).of) /\ Head(a2d) \in Replies /\ QueueInv
        BY <2>0, HeadIsSent DEF MapInv
      <3>2. lastAck'.of = Head(a2d).of /\ nextId' = nextId
        BY <2>2 DEF ValidateDataAck, AckHash
      <3>3. Opening' <=> Opening
        BY Zenon, <2>2 DEF ValidateDataAck, Opening
      <3>4. \A i \in DOMAIN pipelineMap' : \E c \in DOMAIN pipelineMap :
              pipelineMap'[i] = pipelineMap[c]
        BY <1>a, <2>2, IndexOfIsIndex, RemoveAtKeeps DEF ValidateDataAck, Without
      <3>5. lastData' < nextId' /\ expected'.of < nextId' /\ lastAck'.of < nextId'
        BY <1>c, <2>0, <3>1, <3>2 DEF Sent
      <3>. QED  BY <1>c, <2>0, <3>3, <3>4, <3>5 DEF StartInv
    <2>. QED  BY <1>4, <2>1, <2>2 DEF Validates
  <1>5. CASE Pipes
    <2>1. UNCHANGED <<d2a, hand, lastData, expected, delivered, lastAck>>
      BY <1>5 DEF Pipes, PipeOutput, Inbox, wireVars, agentVars
    <2>2. handshakeDone /\ ~Opening'
      BY Zenon, <1>5 DEF Pipes, PipeOutput, Inbox, Opening
    <2>3. \A i \in DOMAIN d2a : d2a[i].type # "Open"
      BY <2>2 DEF MapInv, SynInv, IsSyn, Newest
    <2>4. nextId <= nextId' /\ \A i \in DOMAIN pipelineMap' :
            \/ i \in DOMAIN pipelineMap /\ pipelineMap'[i] = pipelineMap[i]
            \/ pipelineMap'[i].type = "Data"
      <3>1. CASE UNCHANGED <<pipelineMap, outbox, nextId>>
        BY <1>a, <3>1
      <3>2. ASSUME NEW data \in Requests, data.type = "Data", nextId' = nextId + 1,
                   pipelineMap' = Append(pipelineMap, data)
            PROVE  nextId <= nextId' /\ \A i \in DOMAIN pipelineMap' :
                     \/ i \in DOMAIN pipelineMap /\ pipelineMap'[i] = pipelineMap[i]
                     \/ pipelineMap'[i].type = "Data"
        BY <1>a, <3>2, AppendIs
      <3>. QED  BY <1>5, <3>1, <3>2, PipesDoes
    <2>5. lastData' < nextId' /\ expected'.of < nextId' /\ lastAck'.of < nextId'
      BY <1>a, <1>b, <1>c, <2>1, <2>4
    <2>. QED  BY <1>c, <2>1, <2>2, <2>3, <2>4, <2>5 DEF StartInv
  <1>6. CASE Takes
    <2>1. UNCHANGED <<d2a, nextId, pipelineMap, lastAck, lastData, expected, delivered>>
          /\ outbox # <<>> /\ hand' = <<Head(outbox)>>
      BY <1>6 DEF Takes, agentVars
    <2>2. Opening' <=> Opening
      BY Zenon, <1>6 DEF Takes, Opening
    <2>3. \A i \in DOMAIN hand' : hand'[i].type # "Open"
      <3>1. 1 \in DOMAIN outbox /\ Head(outbox) = outbox[1]
        BY <1>a, <2>1, TailIs
      <3>2. /\ 1 + (Len(pipelineMap) - Len(outbox)) \in DOMAIN pipelineMap
            /\ outbox[1] = pipelineMap[1 + (Len(pipelineMap) - Len(outbox))]
        BY <1>a, <3>1 DEF MapInv, QueueInv, IsEndOf
      <3>3. \A i \in DOMAIN hand' : hand'[i] = outbox[1]
        BY <2>1, <3>1
      <3>. QED  BY <1>c, <3>2, <3>3
    <2>. QED  BY <1>c, <2>1, <2>2, <2>3 DEF StartInv
  <1>7. CASE Sends
    <2>1. /\ UNCHANGED <<nextId, pipelineMap, lastAck, lastData, expected, delivered>>
          /\ hand # <<>> /\ hand' = <<>> /\ (d2a' = d2a \/ d2a' = Append(d2a, Head(hand)))
      BY <1>7 DEF Sends, agentVars
    <2>2. Opening' <=> Opening
      BY Zenon, <1>7 DEF Sends, Opening
    <2>3. 1 \in DOMAIN hand /\ Head(hand) = hand[1] /\ Head(hand) \in Requests
      BY <1>a, <2>1, TailIs, HeadAndTail
    <2>4. \A i \in DOMAIN d2a' : (i \in DOMAIN d2a /\ d2a'[i] = d2a[i])
            \/ d2a'[i] = hand[1]
      BY <1>a, <2>1, <2>3, AppendIs
    <2>5. DOMAIN hand' = {}
      BY <2>1
    <2>. QED  BY <1>c, <2>1, <2>2, <2>3, <2>4, <2>5 DEF StartInv
  <1>8. CASE Opened \/ Synced \/ Accepts \/ Passes
    <2>1. /\ UNCHANGED daemonSide
          /\ \A i \in DOMAIN d2a' : \E c \in DOMAIN d2a : d2a'[i] = d2a[c]
      BY <1>8, AgentTakes
    <2>2. Opening' <=> Opening
      <3>1. handshakeDone' = handshakeDone /\ recovering' = recovering
        BY <2>1 DEF daemonSide
      <3>. QED  BY Zenon, <3>1 DEF Opening
    <2>3. UNCHANGED <<nextId, pipelineMap, lastAck, hand>>
      BY <2>1 DEF daemonSide
    <2>4. d2a # <<>> => Head(d2a) = d2a[1] /\ 1 \in DOMAIN d2a /\ Head(d2a).id < nextId
      BY <1>a, TailIs DEF MapInv, SentInv, Sent
    <2>5. lastData' < nextId' /\ expected'.of < nextId'
      BY <1>8, <1>b, <1>c, <2>3, <2>4 DEF Opened, Synced, Accepts, Passes
    <2>6. Opening => delivered' = delivered
      <3>1. CASE Accepts
        <4>1. d2a # <<>> /\ Head(d2a).type = "Data"
          BY <3>1 DEF Accepts
        <4>2. \E c \in DOMAIN pipelineMap : pipelineMap[c] = Head(d2a)
          BY <2>4, <4>1 DEF Tracked
        <4>. QED  BY <1>c, <4>1, <4>2
      <3>2. CASE Opened \/ Synced \/ Passes
        BY <3>2 DEF Opened, Synced, Passes
      <3>. QED  BY <1>8, <3>1, <3>2
    <2>. QED  BY <1>c, <2>1, <2>2, <2>3, <2>5, <2>6 DEF StartInv
  <1>. QED  BY <1>1, <1>2, <1>3, <1>4, <1>5, <1>6, <1>7, <1>8

\* RemoveAt keeps the others.
LEMMA RemoveAtLeaves ==
  ASSUME NEW S, NEW s \in Seq(S), NEW c \in DOMAIN s, NEW o \in DOMAIN s, o # c
  PROVE  \E i \in DOMAIN RemoveAt(s, c) : RemoveAt(s, c)[i] = s[o]
  <1>. DEFINE r == RemoveAt(s, c)
  <1>1. /\ r \in Seq(S) /\ Len(r) = Len(s) - 1
        /\ \A i \in DOMAIN r : r[i] = IF i < c THEN s[i] ELSE s[i + 1]
    BY RemoveAtIs
  <1>2. DOMAIN s = 1..Len(s) /\ Len(s) \in Nat /\ DOMAIN r = 1..Len(r)
    BY <1>1
  <1>. HIDE DEF r
  <1>3. CASE o < c
    <2>1. o \in DOMAIN r /\ r[o] = s[o]
      BY <1>1, <1>2, <1>3
    <2>. QED  BY <2>1 DEF r
  <1>4. CASE o > c
    <2>1. o - 1 \in DOMAIN r /\ ~(o - 1 < c) /\ (o - 1) + 1 = o
      BY <1>1, <1>2, <1>4
    <2>2. r[o - 1] = s[o]
      BY <1>1, <2>1
    <2>. QED  BY <2>1, <2>2 DEF r
  <1>. QED  BY <1>2, <1>3, <1>4

\* What is tracked stays tracked when the pipeline only grows.
LEMMA TrackedKept ==
  ASSUME Tracked,
         \A c \in DOMAIN pipelineMap : c \in DOMAIN pipelineMap'
           /\ pipelineMap'[c] = pipelineMap[c],
         \A i \in DOMAIN d2a' :
           \/ \E c \in DOMAIN d2a : d2a'[i] = d2a[c]
           \/ \E c \in DOMAIN hand : d2a'[i] = hand[c]
           \/ d2a'[i].type # "Data",
         \A i \in DOMAIN hand' :
           \/ \E c \in DOMAIN hand : hand'[i] = hand[c]
           \/ \E c \in DOMAIN pipelineMap : hand'[i] = pipelineMap[c]
  PROVE  Tracked'
  BY DEF Tracked

\* A message appended moves none of the others.
LEMMA AppendKeeps ==
  ASSUME NEW S, NEW s \in Seq(S), NEW m \in S, NEW i \in DOMAIN s
  PROVE  i \in DOMAIN Append(s, m) /\ Append(s, m)[i] = s[i]
  OBVIOUS

\* Every move keeps Tracked: no Data is on its way that the daemon has given up.
LEMMA TrackedStep ==
  ASSUME TypeOK, TypeOK', MapInv, MapInv', Tracked,
         \/ Idles \/ Opens \/ Recovers \/ Validates \/ Pipes \/ Takes \/ Sends
         \/ Opened \/ Synced \/ Accepts \/ Passes
  PROVE  Tracked'
  <1>a. /\ pipelineMap \in Seq(Requests) /\ outbox \in Seq(Requests) /\ nextId \in Nat
        /\ hand \in Seq(Requests) /\ d2a \in Seq(Requests) /\ a2d \in Seq(Replies)
        /\ \A m \in Requests : m.id \in Nat
    BY Wires
  <1>1. CASE Idles
    <2>1. /\ UNCHANGED <<hand, pipelineMap>>
          /\ d2a' = d2a \/ d2a' = Append(d2a, CloseMsg)
      BY <1>1 DEF Idles
    <2>2. CloseMsg \in Requests /\ CloseMsg.type # "Data"
      BY DEF CloseMsg, NoAck, NoHash, AckHash, AckHashes, Requests
    <2>3. \A i \in DOMAIN d2a' : (i \in DOMAIN d2a /\ d2a'[i] = d2a[i])
            \/ d2a'[i].type # "Data"
      BY <1>a, <2>1, <2>2, AppendIs
    <2>. QED  BY <2>1, <2>3, TrackedKept
  <1>2. CASE Opens \/ Recovers
    <2>1. hand' = hand /\ \E send \in BOOLEAN : BuildSyn(send)
      BY <1>2, ChannelAssumption DEF Opens, Recovers
    <2>2. PICK syn \in Requests : pipelineMap' = Append(pipelineMap, syn)
      BY <2>1, BuildSynDoes
    <2>3. \A c \in DOMAIN pipelineMap : c \in DOMAIN pipelineMap'
            /\ pipelineMap'[c] = pipelineMap[c]
      BY <1>a, <2>2, AppendKeeps
    <2>4. \A i \in DOMAIN d2a' : (i \in DOMAIN d2a /\ d2a'[i] = d2a[i])
            \/ d2a'[i].type # "Data"
      <3>1. OpenMsg(SynMsg(nextId, RefreshedCert)).type # "Data"
        BY DEF OpenMsg, SynMsg
      <3>2. OpenMsg(SynMsg(nextId, RefreshedCert)) \in Requests
        <4>1. nextId \in Nat /\ RefreshedCert \in Nat
          BY DEF TypeOK, MrtapTypeOK, RefreshedCert
        <4>. QED  BY <4>1, BuiltMessages DEF OpenMsg, SynMsg, NoAck, NoHash, AckHash,
           AckHashes, Requests
      <3>3. d2a' = d2a \/ d2a' = Append(d2a, OpenMsg(SynMsg(nextId, RefreshedCert)))
        BY <1>2 DEF Opens, Recovers
      <3>. QED  BY <1>a, <3>1, <3>2, <3>3, AppendIs
    <2>. QED  BY <2>1, <2>3, <2>4, TrackedKept
  <1>4. CASE Validates
    <2>0. a2d # <<>> /\ UNCHANGED <<d2a, hand>>
      BY <1>4 DEF Validates
    <2>0a. 1 \in DOMAIN a2d /\ Head(a2d) = a2d[1]
      BY <1>a, <2>0, TailIs
    <2>0b. Sent(Head(a2d).of) /\ Head(a2d) \in Replies /\ Head(a2d).of \in Nat /\ QueueInv
      BY <2>0, HeadIsSent DEF MapInv
    \* what is under way and was built at all was built later
    <2>0c. /\ \A i \in DOMAIN d2a : /\ d2a[i].id = 0 \/ Head(a2d).of < d2a[i].id
                                    /\ d2a[i].id < nextId /\ d2a[i].id \in Nat
           /\ \A i \in DOMAIN hand : /\ Head(a2d).of < hand[i].id
                                     /\ hand[i].id < nextId /\ hand[i].id \in Nat
      BY <1>a, <2>0a DEF MapInv, RisingInv, SentInv, Sent
    <2>0d. \A i \in DOMAIN pipelineMap : 0 < pipelineMap[i].id
      BY <2>0b DEF QueueInv, Ascends
    <2>1. CASE ValidateSynAck(Head(a2d))
      <3>1. Newest(Head(a2d).of)
        BY <2>0, <2>1, HeadIsSent DEF ValidateSynAck
      <3>2. Head(a2d).of = nextId - 1
        BY <3>1 DEF Newest
      <3>3. \A i \in DOMAIN d2a : d2a[i].id = 0
        BY <1>a, <2>0c, <3>2
      <3>4. \A i \in DOMAIN hand : FALSE
        BY <1>a, <2>0c, <3>2
      <3>5. \A i \in DOMAIN d2a : d2a[i].type # "Data"
        BY <2>0d, <3>3 DEF Tracked
      <3>. QED  BY <2>0, <3>4, <3>5 DEF Tracked
    <2>2. CASE ValidateDataAck(Head(a2d))
      <3>1. PICK c \in DOMAIN pipelineMap : /\ pipelineMap[c].id = Head(a2d).of
                                            /\ pipelineMap' = RemoveAt(pipelineMap, c)
        BY <1>a, <2>2, IndexOfIsIndex DEF ValidateDataAck, Without
      <3>2. \A o \in DOMAIN pipelineMap : o # c =>
              \E i \in DOMAIN pipelineMap' : pipelineMap'[i] = pipelineMap[o]
        BY <1>a, <3>1, RemoveAtLeaves
      <3>3. ASSUME NEW m \in Requests, m.id = 0 \/ Head(a2d).of < m.id,
                   \E o \in DOMAIN pipelineMap : pipelineMap[o] = m
            PROVE  \E i \in DOMAIN pipelineMap' : pipelineMap'[i] = m
        BY <1>a, <2>0b, <2>0d, <3>1, <3>2, <3>3
      <3>4. /\ \A i \in DOMAIN d2a : d2a[i] \in Requests
            /\ \A i \in DOMAIN hand : hand[i] \in Requests
        BY <1>a
      <3>. QED  BY <2>0, <2>0c, <3>3, <3>4 DEF Tracked
    <2>. QED  BY <1>4, <2>1, <2>2 DEF Validates
  <1>5. CASE Pipes
    <2>1. UNCHANGED <<d2a, hand>>
      BY <1>5 DEF Pipes, PipeOutput, wireVars
    <2>2. \A c \in DOMAIN pipelineMap : c \in DOMAIN pipelineMap'
            /\ pipelineMap'[c] = pipelineMap[c]
      <3>1. CASE UNCHANGED <<pipelineMap, outbox, nextId>>
        BY <3>1
      <3>2. ASSUME NEW data \in Requests, pipelineMap' = Append(pipelineMap, data)
            PROVE  \A c \in DOMAIN pipelineMap :
                     c \in DOMAIN pipelineMap' /\ pipelineMap'[c] = pipelineMap[c]
        BY <1>a, <3>2, AppendKeeps
      <3>. QED  BY <1>5, <3>1, <3>2, PipesDoes
    <2>. QED  BY <2>1, <2>2, TrackedKept
  <1>6. CASE Takes
    <2>1. UNCHANGED <<d2a, pipelineMap>> /\ outbox # <<>> /\ hand' = <<Head(outbox)>>
      BY <1>6 DEF Takes
    <2>2. \A i \in DOMAIN hand' : \E c \in DOMAIN pipelineMap : hand'[i] = pipelineMap[c]
      <3>1. 1 \in DOMAIN outbox /\ Head(outbox) = outbox[1]
        BY <1>a, <2>1, TailIs
      <3>2. /\ 1 + (Len(pipelineMap) - Len(outbox)) \in DOMAIN pipelineMap
            /\ outbox[1] = pipelineMap[1 + (Len(pipelineMap) - Len(outbox))]
        BY <1>a, <3>1 DEF MapInv, QueueInv, IsEndOf
      <3>3. \A i \in DOMAIN hand' : hand'[i] = outbox[1]
        BY <2>1, <3>1
      <3>. QED  BY <3>2, <3>3
    <2>. QED  BY <2>1, <2>2, TrackedKept
  <1>7. CASE Sends
    <2>1. /\ pipelineMap' = pipelineMap
          /\ hand # <<>> /\ hand' = <<>> /\ (d2a' = d2a \/ d2a' = Append(d2a, Head(hand)))
      BY <1>7 DEF Sends
    <2>2. 1 \in DOMAIN hand /\ Head(hand) = hand[1] /\ Head(hand) \in Requests
      BY <1>a, <2>1, TailIs, HeadAndTail
    <2>3. \A i \in DOMAIN d2a' : (i \in DOMAIN d2a /\ d2a'[i] = d2a[i])
            \/ d2a'[i] = hand[1]
      BY <1>a, <2>1, <2>2, AppendIs
    <2>4. DOMAIN hand' = {}
      BY <2>1
    <2>. QED  BY <2>1, <2>2, <2>3, <2>4, TrackedKept
  <1>8. CASE Opened \/ Synced \/ Accepts \/ Passes
    <2>1. /\ UNCHANGED daemonSide
          /\ \A i \in DOMAIN d2a' : \E c \in DOMAIN d2a : d2a'[i] = d2a[c]
      BY <1>8, AgentTakes
    <2>2. UNCHANGED <<pipelineMap, hand>>
      BY <2>1 DEF daemonSide
    <2>. QED  BY <2>1, <2>2, TrackedKept
  <1>. QED  BY <1>1, <1>2, <1>4, <1>5, <1>6, <1>7, <1>8

\* The replies that concern the chain stay, and none is added.
AcksStay ==
  /\ \A i \in DOMAIN a2d : KnownAck(a2d[i]) => \E c \in DOMAIN a2d' : a2d'[c] = a2d[i]
  /\ \A i \in DOMAIN a2d' :
       \/ \E c \in DOMAIN a2d : a2d'[i] = a2d[c]
       \/ a2d'[i].type \notin {"SynAck", "DataAck"}

\* Acks is kept by what leaves the acks and the acked alone.
LEMMA AcksKept ==
  ASSUME NEW k \in Nat, NEW j \in Nat, Acks(k, j), AcksStay,
         lastData' = lastData, aState' = "open" => aState = "open",
         \A c \in 1..j : c \in DOMAIN pipelineMap /\ pipelineMap'[c] = pipelineMap[c],
         \A i \in DOMAIN a2d : a2d[i].of \in Ids(pipelineMap')
           => a2d[i].of \in Ids(pipelineMap)
  PROVE  Acks(k, j)'
  <1>1. ASSUME NEW c \in 1..j
        PROVE  \E i \in DOMAIN a2d' : a2d'[i].type = "DataAck"
                 /\ a2d'[i].of = pipelineMap'[c].id
    <2>1. PICK i \in DOMAIN a2d : a2d[i].type = "DataAck" /\ a2d[i].of = pipelineMap[c].id
      BY DEF Acks
    <2>2. KnownAck(a2d[i])
      BY <2>1 DEF KnownAck, Ids
    <2>. QED  BY <2>1, <2>2 DEF AcksStay
  <1>2. ASSUME NEW i \in DOMAIN a2d', a2d'[i].type = "DataAck",
               a2d'[i].of \in Ids(pipelineMap')
        PROVE  \E c \in 1..j : a2d'[i].of = pipelineMap'[c].id
    <2>1. PICK o \in DOMAIN a2d : a2d'[i] = a2d[o]
      BY <1>2 DEF AcksStay
    <2>2. a2d[o].type = "DataAck" /\ a2d[o].of \in Ids(pipelineMap)
      BY <1>2, <2>1
    <2>. QED  BY <2>1, <2>2 DEF Acks
  <1>3. \A i \in DOMAIN a2d' : a2d'[i].type = "SynAck" => j = k
          /\ a2d'[i].nonce = lastData'
    BY DEF Acks, AcksStay
  <1>4. aState' = "open" => j = k
    BY DEF Acks
  <1>. QED  BY <1>1, <1>2, <1>3, <1>4 DEF Acks

\* The chain is kept by what leaves the pipeline and the agent's state alone.
LEMMA ChainKept ==
  ASSUME NEW n \in Nat, NEW k \in Nat, NEW j \in Nat, Chain(n, k, j), AcksStay,
         pipelineMap \in Seq(Requests),
         UNCHANGED <<pipelineMap, lastData, expected, delivered, lastAckedData>>,
         Piped' = Piped,
         aState' = "open" => aState = "open"
  PROVE  Chain(n, k, j)'
  <1>1. Len(pipelineMap) \in Nat /\ DOMAIN pipelineMap = 1..Len(pipelineMap)
    OBVIOUS
  <1>2. \A c \in 1..j : c \in DOMAIN pipelineMap /\ pipelineMap'[c] = pipelineMap[c]
    BY <1>1 DEF Chain
  <1>3. Acks(k, j)'
    BY <1>2, AcksKept DEF Chain
  <1>4. Carries(n)' /\ Links(n, k)' /\ Delivers(n, k)'
    BY DEF Chain, Carries, Links, Delivers
  <1>. QED  BY <1>3, <1>4 DEF Chain

\* A Syn joins the pipeline.
LEMMA ChainWithSyn ==
  ASSUME TypeOK, MapInv, StartInv,
         NEW n \in Nat, NEW k \in Nat, NEW j \in Nat, Chain(n, k, j), AcksStay,
         NEW syn \in Requests, syn.id = nextId, syn.type = "Syn",
         pipelineMap' = Append(pipelineMap, syn),
         UNCHANGED <<lastData, expected, delivered, lastAckedData>>, Piped' = Piped,
         aState' = "open" => aState = "open",
         n > 0 \/ delivered # <<>> => Len(pipelineMap) = n
  PROVE  Chain(n, k, j)'
  <1>. DEFINE L == Len(pipelineMap)
  <1>1. /\ L \in Nat /\ DOMAIN pipelineMap = 1..L /\ DOMAIN pipelineMap' = 1..(L + 1)
        /\ Len(pipelineMap') = L + 1
        /\ \A i \in 1..L : pipelineMap'[i] = pipelineMap[i]
        /\ pipelineMap'[L + 1] = syn
    BY Wires
  <1>2. lastData \in Nat /\ expected.of \in Nat /\ nextId \in Nat /\ lastData < nextId
    BY Fields DEF StartInv
  <1>3. j <= k /\ k <= n /\ n <= L
    BY DEF Chain
  <1>0. n > 0 \/ delivered # <<>> => L = n
    OBVIOUS
  <1>. HIDE DEF L
  <1>4. Acks(k, j)'
    <2>1. \A c \in 1..j : c \in DOMAIN pipelineMap /\ pipelineMap'[c] = pipelineMap[c]
      BY <1>1, <1>3
    <2>2. ASSUME NEW i \in DOMAIN a2d, a2d[i].of \in Ids(pipelineMap')
          PROVE  a2d[i].of \in Ids(pipelineMap)
      <3>1. PICK c \in 1..(L + 1) : a2d[i].of = pipelineMap'[c].id
        BY <1>1, <2>2 DEF Ids
      <3>2. a2d[i].of < nextId
        BY DEF MapInv, SentInv, Sent
      <3>3. c # L + 1
        BY <1>1, <1>2, <3>1, <3>2
      <3>4. c \in 1..L
        BY <1>1, <3>3
      <3>. QED  BY <1>1, <3>1, <3>4 DEF Ids
    <2>. QED  BY <2>1, <2>2, AcksKept DEF Chain
  <1>5. Carries(n)'
    <2>1. \A i \in 1..(L + 1) : i \in 1..L \/ i = L + 1
      BY <1>1
    <2>2. ASSUME NEW i \in 1..(L + 1)
          PROVE  pipelineMap'[i].type = "Data" <=> i <= n
      BY <1>1, <1>3, <2>1 DEF Chain, Carries
    <2>3. \A i \in 1..n : i \in 1..L
      BY <1>1, <1>3
    <2>4. \A i \in 1..n : pipelineMap'[i].payload + n = Piped' + i
      BY <1>1, <2>3 DEF Chain, Carries
    <2>. QED  BY <1>1, <2>2, <2>4 DEF Chain, Carries
  <1>6. Links(n, k)'
    <2>1. \A i \in 1..n : i \in 1..L /\ (i > 1 => i - 1 \in 1..L)
      BY <1>1, <1>3
    <2>2. \A i \in 1..n :
            /\ pipelineMap'[i].hp.of < pipelineMap'[i].id
            /\ i > 1 => pipelineMap'[i].hp.of = pipelineMap'[i - 1].id
            /\ pipelineMap'[i].hp.of = expected'.of => i = k + 1
            /\ pipelineMap'[i].id = expected'.of => i = k
      BY <1>1, <2>1 DEF Chain, Links
    <2>3. ASSUME NEW i \in 1..(L + 1)
          PROVE  pipelineMap'[i].id <= lastData' <=> i <= k
      <3>1. CASE i \in 1..L
        BY <1>1, <3>1 DEF Chain, Links
      <3>2. CASE i = L + 1
        BY <1>1, <1>2, <1>3, <3>2
      <3>. QED  BY <1>1, <3>1, <3>2
    <2>. QED  BY <1>1, <2>2, <2>3 DEF Links
  <1>7. Delivers(n, k)'
    <2>1. k > 0 => pipelineMap'[k] = pipelineMap[k]
      BY <1>1, <1>3
    <2>2. n > 0 \/ delivered # <<>> => Len(pipelineMap') <= n + 1
      BY <1>1, <1>0
    <2>. QED  BY <2>1, <2>2 DEF Chain, Delivers
  <1>. QED  BY <1>1, <1>3, <1>4, <1>5, <1>6, <1>7 DEF Chain

\* Before the end of the first handshake there is no Data.
LEMMA OpeningChain ==
  ASSUME TypeOK, StartInv, Opening, NEW n \in Nat, NEW k \in Nat, NEW j \in Nat,
         Chain(n, k, j)
  PROVE  n = 0 /\ k = 0 /\ j = 0 /\ delivered = <<>>
  <1>1. Len(pipelineMap) \in Nat /\ DOMAIN pipelineMap = 1..Len(pipelineMap)
    BY Wires
  <1>2. \A i \in DOMAIN pipelineMap : pipelineMap[i].type = "Syn"
    BY DEF StartInv
  <1>3. ~(n > 0)
    <2>1. n > 0 => 1 \in DOMAIN pipelineMap /\ pipelineMap[1].type = "Data"
      BY <1>1 DEF Chain, Carries
    <2>. QED  BY <1>2, <2>1
  <1>. QED  BY <1>3 DEF Chain, StartInv

\* Taking a reply that is not a known ack.
LEMMA HeadIsNoAck ==
  ASSUME TypeOK, a2d # <<>>, a2d' = Tail(a2d), ~KnownAck(Head(a2d))
  PROVE  AcksStay
  <1>1. /\ \A i \in DOMAIN Tail(a2d) : i + 1 \in DOMAIN a2d /\ Tail(a2d)[i] = a2d[i + 1]
        /\ Head(a2d) = a2d[1]
    BY Wires, TailIs
  <1>2. \A i \in DOMAIN a2d : i # 1 => i - 1 \in DOMAIN Tail(a2d) /\ (i - 1) + 1 = i
    BY Wires
  <1>3. \A i \in DOMAIN a2d : i # 1 => Tail(a2d)[i - 1] = a2d[i]
    BY <1>1, <1>2
  <1>. QED  BY <1>1, <1>2, <1>3 DEF AcksStay

\* The moves, one by one: the daemon idles,
LEMMA ChainIdles ==
  ASSUME TypeOK, Idles, replyLost' = FALSE, NEW n \in Nat, NEW k \in Nat,
         NEW j \in Nat, Chain(n, k, j)
  PROVE  Chain(n, k, j)'
  <1>1. /\ UNCHANGED <<pipelineMap, lastData, expected, delivered, lastAckedData, aState>>
        /\ Piped' = Piped
        /\ a2d' = a2d \/ (a2d # <<>> /\ a2d' = Tail(a2d) /\ ~KnownAck(Head(a2d)))
    BY DEF Idles, agentVars
  <1>2. CASE a2d' = a2d
    BY <1>1, <1>2, ChainKept, Wires DEF AcksStay
  <1>3. CASE a2d # <<>> /\ a2d' = Tail(a2d) /\ ~KnownAck(Head(a2d))
    BY <1>1, <1>3, ChainKept, HeadIsNoAck, Wires
  <1>. QED  BY <1>1, <1>2, <1>3

\* sendMrtap takes a message and sends or drops it,
LEMMA ChainSends ==
  ASSUME TypeOK, Takes \/ Sends, NEW n \in Nat, NEW k \in Nat, NEW j \in Nat, Chain(n,
         k, j)
  PROVE  Chain(n, k, j)'
  <1>1. /\ UNCHANGED <<pipelineMap, lastData, expected, delivered, lastAckedData, aState, a2d>>
        /\ Piped' = Piped
    BY DEF Takes, Sends, agentVars
  <1>. QED  BY <1>1, ChainKept, Wires DEF AcksStay

\* the agent passes over something,
LEMMA ChainPasses ==
  ASSUME TypeOK, Passes, NEW n \in Nat, NEW k \in Nat, NEW j \in Nat, Chain(n, k, j)
  PROVE  Chain(n, k, j)'
  <1>1. /\ UNCHANGED <<pipelineMap, lastData, expected, delivered, lastAckedData>>
        /\ aState' = "open" => aState = "open"
    BY DEF Passes, daemonSide
  <1>2. Piped' = Piped
    BY AgentTakes
  <1>3. AcksStay
    <2>1. CASE a2d' = a2d
      BY <2>1 DEF AcksStay
    <2>2. ASSUME NEW r \in Replies, r.type \notin {"SynAck", "DataAck"},
                 a2d' = Append(a2d, r)
          PROVE  AcksStay
      <3>1. a2d \in Seq(Replies)
        BY Wires
      <3>2. \A i \in DOMAIN a2d : i \in DOMAIN a2d' /\ a2d'[i] = a2d[i]
        BY <2>2, <3>1, AppendKeeps
      <3>3. \A i \in DOMAIN a2d' : (i \in DOMAIN a2d /\ a2d'[i] = a2d[i]) \/ a2d'[i] = r
        BY <2>2, <3>1, AppendIs
      <3>. QED  BY <2>2, <3>2, <3>3 DEF AcksStay
    <2>. QED  BY <2>1, <2>2 DEF Passes
  <1>. QED  BY <1>1, <1>2, <1>3, ChainKept, Wires

\* buildSyn,
LEMMA ChainSyn ==
  ASSUME TypeOK, MapInv, StartInv, HandshakeInv, AgentVersion # "1", Opens \/ Recovers,
         NEW n \in Nat, NEW k \in Nat, NEW j \in Nat, Chain(n, k, j)
  PROVE  Chain(n, k, j)'
  <1>1. /\ UNCHANGED <<lastData, expected, delivered, aState>> /\ Piped' = Piped
        /\ \E send \in BOOLEAN : BuildSyn(send)
    BY ChannelAssumption DEF Opens, Recovers, agentVars
  <1>2. lastAckedData' = lastAckedData
    BY <1>1 DEF BuildSyn
  <1>3. PICK syn \in Requests : /\ syn.id = nextId /\ syn.type = "Syn"
                                /\ pipelineMap' = Append(pipelineMap, syn)
    BY <1>1, BuildSynDoes
  <1>4. AcksStay
    <2>1. a2d' = a2d \/ (a2d # <<>> /\ a2d' = Tail(a2d) /\ ~KnownAck(Head(a2d)))
      BY DEF Opens, Recovers, KnownAck, IsAnswer
    <2>. QED  BY <2>1, HeadIsNoAck DEF AcksStay
  <1>5. n > 0 \/ delivered # <<>> => Len(pipelineMap) = n
    <2>1. CASE Opening
      BY <2>1, OpeningChain
    <2>2. CASE handshakeDone
      <3>1. \A i \in DOMAIN pipelineMap : pipelineMap[i].type = "Data"
        BY <2>2 DEF HandshakeInv
      <3>2. Len(pipelineMap) \in Nat /\ DOMAIN pipelineMap = 1..Len(pipelineMap)
        BY Wires
      <3>3. Len(pipelineMap) > 0 => Len(pipelineMap) <= n
        BY <3>1, <3>2 DEF Chain, Carries
      <3>4. n <= Len(pipelineMap)
        BY DEF Chain
      <3>5. ASSUME NEW l \in Nat, l > 0 => l <= n, n <= l  PROVE l = n
        BY <3>5
      <3>6. Len(pipelineMap) = n
        BY <3>2, <3>3, <3>4, <3>5
      <3>. QED  BY <3>6
    <2>3. ~recovering
      <3>1. CASE Opens
        <4>1. phase \in {"new", "handshake"}
          BY <3>1 DEF Opens
        <4>. QED  BY Zenon, <4>1 DEF MapInv, OpeningInv, Opening
      <3>2. CASE Recovers
        BY Zenon, <3>2 DEF Recovers, IgnoresError, ErrorVersioned
      <3>. QED  BY <3>1, <3>2
    <2>4. Opening \/ handshakeDone
      BY Zenon, <2>3 DEF Opening
    <2>. QED  BY <2>1, <2>2, <2>4
  <1>. QED  BY <1>1, <1>2, <1>3, <1>4, <1>5, ChainWithSyn

\* What Inbox builds: a payload more, on the message built last.
LEMMA PipesBuilds ==
  ASSUME TypeOK, HandshakeInv, Pipes
  PROVE  \E data \in Requests :
           /\ data.id = nextId /\ data.type = "Data" /\ nextId' = nextId + 1
           /\ pipelineMap' = Append(pipelineMap, data)
           /\ data.payload = Piped + 1
           /\ pipelineMap = <<>> => data.hp = lastAck
           /\ pipelineMap # <<>> => data.hp.of = pipelineMap[Len(pipelineMap)].id
  <1>1. /\ MrtapTypeOK /\ taken \in Nat /\ pipelineMap \in Seq(Requests)
             /\ lastAck \in AckHashes
        /\ nextId \in Nat /\ cert \in Nat
    BY DEF TypeOK, ChannelTypeOK, MrtapTypeOK
  <1>2. handshakeDone
    BY Zenon DEF Pipes, PipeOutput, Inbox
  <1>3. lastAck.of > 0 /\ \A i \in DOMAIN pipelineMap : pipelineMap[i].type = "Data"
    BY <1>2 DEF HandshakeInv
  <1>4. pipelineMap # <<>> => /\ Len(pipelineMap) \in DOMAIN pipelineMap
                              /\ Last(pipelineMap) = pipelineMap[Len(pipelineMap)]
                              /\ Last(pipelineMap) \in Requests
    BY <1>1 DEF Last
  <1>5. CanBuild(pipelineMap, lastAck)
    BY <1>3, <1>4 DEF CanBuild, NoAck, AckHash, NoHash
  <1>. DEFINE hp == NextHPointer(pipelineMap, lastAck)
              data == DataMsg(nextId, cert, hp, taken)
  <1>6. /\ hp \in AckHashes
        /\ pipelineMap = <<>> => hp = lastAck
        /\ pipelineMap # <<>> => hp.of = pipelineMap[Len(pipelineMap)].id
    <2>1. pipelineMap # <<>> => Last(pipelineMap).id \in Nat
      BY <1>4 DEF Requests
    <2>. QED  BY <1>1, <1>4, <2>1 DEF NextHPointer, AckHash, AckHashes
  <1>7. pipelineMap' = Append(pipelineMap, data) /\ nextId' = nextId + 1
    BY <1>5 DEF Pipes, PipeOutput, Inbox
  <1>8. taken = Piped + 1
    BY <1>1 DEF Pipes, PipeOutput, Piped
  <1>. HIDE DEF hp
  <1>9. /\ data \in Requests /\ data.id = nextId /\ data.type = "Data"
             /\ data.payload = taken
        /\ data.hp = hp
    BY <1>1, <1>6 DEF DataMsg, Requests
  <1>. HIDE DEF data
  <1>. QED  BY <1>6, <1>7, <1>8, <1>9

\* Inbox,
LEMMA ChainPipes ==
  ASSUME TypeOK, MapInv, StartInv, HandshakeInv, Pipes,
         NEW n \in Nat, NEW k \in Nat, NEW j \in Nat, Chain(n, k, j)
  PROVE  Chain(n + 1, k, j)'
  <1>1. UNCHANGED <<lastData, expected, delivered, aState, a2d, lastAckedData>>
    BY DEF Pipes, PipeOutput, Inbox, wireVars, agentVars
  <1>2. Piped' = Piped + 1 /\ Piped \in Int
    <2>1. taken \in Nat
      BY DEF TypeOK, ChannelTypeOK
    <2>. QED  BY <2>1 DEF Pipes, PipeOutput, Piped
  <1>3. PICK data \in Requests :
           /\ data.id = nextId /\ data.type = "Data"
           /\ pipelineMap' = Append(pipelineMap, data)
           /\ data.payload = Piped + 1
           /\ pipelineMap = <<>> => data.hp = lastAck
           /\ pipelineMap # <<>> => data.hp.of = pipelineMap[Len(pipelineMap)].id
    BY PipesBuilds
  <1>4. n = Len(pipelineMap)
    <2>1. handshakeDone
      BY Zenon DEF Pipes, PipeOutput, Inbox
    <2>2. \A i \in DOMAIN pipelineMap : pipelineMap[i].type = "Data"
      BY <2>1 DEF HandshakeInv
    <2>3. Len(pipelineMap) \in Nat /\ DOMAIN pipelineMap = 1..Len(pipelineMap)
      BY Wires
    <2>4. Len(pipelineMap) > 0 => Len(pipelineMap) <= n
      BY <2>2, <2>3 DEF Chain, Carries
    <2>5. n <= Len(pipelineMap)
      BY DEF Chain
    <2>6. ASSUME NEW l \in Nat, l > 0 => l <= n, n <= l  PROVE l = n
      BY <2>6
    <2>. QED  BY <2>3, <2>4, <2>5, <2>6
  <1>5. /\ DOMAIN pipelineMap = 1..n /\ DOMAIN pipelineMap' = 1..(n + 1)
        /\ Len(pipelineMap') = n + 1
        /\ \A i \in 1..n : pipelineMap'[i] = pipelineMap[i]
        /\ pipelineMap'[n + 1] = data
        /\ n = 0 => pipelineMap = <<>>
        /\ n > 0 => pipelineMap # <<>>
    BY <1>3, <1>4, Wires
  <1>6. /\ lastData \in Nat /\ expected.of \in Nat /\ nextId \in Nat /\ lastData < nextId
        /\ lastAck.of < nextId /\ expected.of < nextId
        /\ \A i \in 1..n : pipelineMap[i].id \in Nat /\ pipelineMap[i].id < nextId
        /\ \A i \in 1..n : pipelineMap[i].payload \in Nat /\ pipelineMap[i].hp.of \in Nat
    <2>1. \A i \in 1..n : pipelineMap[i] \in Requests
      BY <1>5, Wires
    <2>2. \A i \in 1..n : pipelineMap[i].id < nextId
      BY <1>5 DEF MapInv, QueueInv, Ascends
    <2>. QED  BY <2>1, <2>2, Fields DEF StartInv
  <1>7. j <= k /\ k <= n
    BY DEF Chain
  <1>8. \A i \in 1..(n + 1) : i \in 1..n \/ i = n + 1
    OBVIOUS
  <1>9. Acks(k, j)'
    <2>1. \A c \in 1..j : c \in DOMAIN pipelineMap /\ pipelineMap'[c] = pipelineMap[c]
      BY <1>5, <1>7
    <2>2. ASSUME NEW i \in DOMAIN a2d, a2d[i].of \in Ids(pipelineMap')
          PROVE  a2d[i].of \in Ids(pipelineMap)
      <3>1. PICK c \in 1..(n + 1) : a2d[i].of = pipelineMap'[c].id
        BY <1>5, <2>2 DEF Ids
      <3>2. a2d[i].of < nextId
        BY DEF MapInv, SentInv, Sent
      <3>3. c # n + 1
        BY <1>3, <1>5, <1>6, <3>1, <3>2
      <3>4. c \in 1..n
        BY <1>8, <3>3
      <3>. QED  BY <1>5, <3>1, <3>4 DEF Ids
    <2>3. AcksStay
      BY <1>1 DEF AcksStay
    <2>. QED  BY <1>1, <2>1, <2>2, <2>3, AcksKept DEF Chain
  <1>10. Carries(n + 1)'
    <2>1. ASSUME NEW i \in 1..n
          PROVE  /\ pipelineMap'[i].type = "Data"
                 /\ pipelineMap'[i].payload + (n + 1) = Piped' + i
      <3>1. pipelineMap[i].type = "Data" /\ pipelineMap[i].payload + n = Piped + i
        BY <1>5 DEF Chain, Carries
      <3>2. pipelineMap'[i] = pipelineMap[i] /\ pipelineMap[i].payload \in Nat
        BY <1>5, <1>6
      <3>3. ASSUME NEW p \in Nat, NEW q \in Int, p + n = q + i
            PROVE  p + (n + 1) = (q + 1) + i
        BY <3>3
      <3>. QED  BY <1>2, <3>1, <3>2, <3>3
    <2>2. ASSUME NEW i \in 1..(n + 1)
          PROVE  /\ pipelineMap'[i].type = "Data" /\ i <= n + 1
                 /\ pipelineMap'[i].payload + (n + 1) = Piped' + i
      <3>0. i <= n + 1
        OBVIOUS
      <3>1. CASE i \in 1..n
        BY <2>1, <3>0, <3>1
      <3>2. CASE i = n + 1
        BY <1>2, <1>3, <1>5, <3>0, <3>2
      <3>. QED  BY <1>8, <3>1, <3>2
    <2>3. n + 1 <= Piped'
      BY <1>2 DEF Chain, Carries
    <2>. QED  BY <1>5, <2>2, <2>3 DEF Carries
  <1>11. Links(n + 1, k)'
    <2>1. ASSUME NEW i \in 1..n
          PROVE  /\ pipelineMap'[i].hp.of < pipelineMap'[i].id
                 /\ i > 1 => pipelineMap'[i].hp.of = pipelineMap'[i - 1].id
                 /\ pipelineMap'[i].hp.of = expected'.of => i = k + 1
                 /\ pipelineMap'[i].id = expected'.of => i = k
                 /\ pipelineMap'[i].id <= lastData' <=> i <= k
      <3>1. i > 1 => i - 1 \in 1..n
        OBVIOUS
      <3>. QED  BY <1>1, <1>5, <3>1 DEF Chain, Links
    <2>2. data.hp.of < data.id
      <3>1. n > 0 => n \in 1..n
        OBVIOUS
      <3>. QED  BY <1>3, <1>4, <1>5, <1>6, <3>1
    <2>3. n + 1 > 1 => data.hp.of = pipelineMap'[(n + 1) - 1].id
      <3>1. n + 1 > 1 => n \in 1..n /\ (n + 1) - 1 = n /\ n > 0
        OBVIOUS
      <3>. QED  BY <1>3, <1>4, <1>5, <3>1
    <2>4. data.hp.of = expected'.of => n + 1 = k + 1
      <3>1. CASE n = 0
        BY <1>7, <3>1
      <3>2. CASE n > 0
        <4>1. n \in 1..n
          BY <3>2
        <4>. QED  BY <1>1, <1>3, <1>4, <1>5, <3>2, <4>1 DEF Chain, Links
      <3>. QED  BY <3>1, <3>2
    <2>5. data.id # expected'.of /\ ~(data.id <= lastData') /\ ~(n + 1 <= k)
      BY <1>1, <1>3, <1>6, <1>7
    <2>6. ASSUME NEW i \in 1..(n + 1)
          PROVE  /\ pipelineMap'[i].hp.of < pipelineMap'[i].id
                 /\ i > 1 => pipelineMap'[i].hp.of = pipelineMap'[i - 1].id
                 /\ pipelineMap'[i].hp.of = expected'.of => i = k + 1
                 /\ pipelineMap'[i].id = expected'.of => i = k
                 /\ pipelineMap'[i].id <= lastData' <=> i <= k
      <3>1. CASE i \in 1..n
        BY <2>1, <3>1
      <3>2. CASE i = n + 1
        BY <1>5, <2>2, <2>3, <2>4, <2>5, <3>2
      <3>. QED  BY <1>8, <3>1, <3>2
    <2>. QED  BY <1>5, <2>6 DEF Links
  <1>12. Delivers(n + 1, k)'
    <2>1. k > 0 => pipelineMap'[k] = pipelineMap[k]
      BY <1>5, <1>7
    <2>2. /\ delivered = <<>> => lastAckedData = NoHash /\ k = 0
          /\ delivered # <<>> =>
               /\ lastData > 0 /\ delivered[Len(delivered)] + n = Piped + k
               /\ k > 0 => pipelineMap[k].id = lastData
               /\ k = 0 => lastAckedData = lastData
      BY DEF Chain, Delivers
    <2>3. delivered # <<>> => delivered[Len(delivered)] \in Nat
      BY Fields
    <2>4. delivered # <<>> => delivered[Len(delivered)] + (n + 1) = Piped' + k
      BY <1>2, <2>2, <2>3
    <2>. QED  BY <1>1, <1>5, <2>1, <2>2, <2>4 DEF Delivers
  <1>13. j <= k /\ k <= n + 1 /\ n + 1 <= Len(pipelineMap')
    BY <1>5, <1>7
  <1>. QED  BY <1>9, <1>10, <1>11, <1>12, <1>13 DEF Chain

\* The first message of the pipeline is acked first.
LEMMA ChainDataAck ==
  ASSUME TypeOK, MapInv, Validates, ValidateDataAck(Head(a2d)),
         NEW n \in Nat, NEW k \in Nat, NEW j \in Nat, Chain(n, k, j)
  PROVE  n > 0 /\ k > 0 /\ j > 0 /\ Chain(n - 1, k - 1, j - 1)'
  <1>1. /\ UNCHANGED <<lastData, expected, delivered, aState>> /\ Piped' = Piped
        /\ a2d # <<>> /\ a2d' = Tail(a2d)
    BY DEF Validates, agentVars
  <1>. DEFINE head == Head(a2d)
  <1>2. /\ 1 \in DOMAIN a2d /\ head = a2d[1]
        /\ \A i \in DOMAIN a2d' : i + 1 \in DOMAIN a2d /\ a2d'[i] = a2d[i + 1]
        /\ \A i \in DOMAIN a2d : i # 1 => i - 1 \in DOMAIN a2d'
             /\ a2d'[i - 1] = a2d[i] /\ 1 < i
        /\ \A i \in DOMAIN a2d : a2d[i].of \in Nat
    <2>1. a2d \in Seq(Replies) /\ \A r \in Replies : r.of \in Nat
      BY Wires
    <2>. QED  BY <1>1, <2>1
  <1>3. /\ head.type = "DataAck" /\ head.of \in Ids(pipelineMap)
        /\ lastAckedData' = head.of
        /\ pipelineMap' = RemoveAt(pipelineMap, IndexOf(pipelineMap, head.of))
    BY DEF ValidateDataAck, Without
  <1>. HIDE DEF head
  <1>4. /\ Len(pipelineMap) \in Nat /\ DOMAIN pipelineMap = 1..Len(pipelineMap)
        /\ pipelineMap \in Seq(Requests)
        /\ \A i \in DOMAIN pipelineMap : pipelineMap[i].id \in Nat
             /\ 0 < pipelineMap[i].id
        /\ \A i, o \in DOMAIN pipelineMap : i < o => pipelineMap[i].id < pipelineMap[o].id
    BY Wires DEF MapInv, QueueInv, Ascends
  <1>5. j <= k /\ k <= n /\ n <= Len(pipelineMap)
    BY DEF Chain
  <1>6. PICK c \in 1..j : head.of = pipelineMap[c].id
    BY <1>2, <1>3 DEF Chain, Acks
  <1>7. n > 0 /\ k > 0 /\ j > 0 /\ 1 \in 1..j /\ 1 \in DOMAIN pipelineMap
          /\ c \in DOMAIN pipelineMap
    BY <1>4, <1>5
  <1>8. c = 1
    <2>1. PICK i \in DOMAIN a2d : a2d[i].type = "DataAck" /\ a2d[i].of = pipelineMap[1].id
      BY <1>7 DEF Chain, Acks
    <2>2. SUFFICES ASSUME c > 1 PROVE FALSE
      OBVIOUS
    <2>3. a2d[i].of < head.of /\ 0 < a2d[i].of /\ a2d[i].of \in Nat /\ head.of \in Nat
      BY <1>4, <1>6, <1>7, <2>1, <2>2
    <2>4. i # 1
      BY <1>2, <2>3
    <2>5. a2d[i].of = 0 \/ a2d[1].of < a2d[i].of
      BY <1>2, <2>4 DEF MapInv, RisingInv
    <2>. QED  BY <1>2, <2>3, <2>5
  <1>9. IndexOf(pipelineMap, head.of) = 1
    <2>1. /\ IndexOf(pipelineMap, head.of) \in DOMAIN pipelineMap
          /\ pipelineMap[IndexOf(pipelineMap, head.of)].id = head.of
      BY <1>3, <1>4, IndexOfIsIndex
    <2>. QED  BY <1>4, <1>6, <1>7, <1>8, <2>1
  <1>10. /\ Len(pipelineMap') = Len(pipelineMap) - 1 /\ pipelineMap' \in Seq(Requests)
         /\ \A i \in DOMAIN pipelineMap' : pipelineMap'[i] = pipelineMap[i + 1]
    <2>1. pipelineMap' = RemoveAt(pipelineMap, c)
      BY <1>3, <1>8, <1>9
    <2>2. /\ pipelineMap' \in Seq(Requests) /\ Len(pipelineMap') = Len(pipelineMap) - 1
          /\ \A i \in DOMAIN pipelineMap' :
               /\ i \in DOMAIN pipelineMap
               /\ pipelineMap'[i] = IF i < c THEN pipelineMap[i] ELSE pipelineMap[i + 1]
      <3>1. pipelineMap \in Seq(Requests) /\ c \in DOMAIN pipelineMap
        BY <1>4, <1>7
      <3>2. /\ RemoveAt(pipelineMap, c) \in Seq(Requests)
            /\ Len(RemoveAt(pipelineMap, c)) = Len(pipelineMap) - 1
            /\ \A i \in DOMAIN RemoveAt(pipelineMap, c) :
                 /\ i \in DOMAIN pipelineMap
                 /\ RemoveAt(pipelineMap, c)[i] =
                      IF i < c THEN pipelineMap[i] ELSE pipelineMap[i + 1]
        BY <3>1, RemoveAtIs
      <3>. QED  BY <2>1, <3>2
    <2>3. \A i \in DOMAIN pipelineMap' : ~(i < c)
      BY <1>4, <1>8, <2>2
    <2>. QED  BY <2>2, <2>3
  <1>11. DOMAIN pipelineMap' = 1..(Len(pipelineMap) - 1)
    BY <1>10
  <1>12. \A i \in 1..(Len(pipelineMap) - 1) : i + 1 \in DOMAIN pipelineMap /\ i \in Nat
    BY <1>4
  <1>12a. \A i \in 1..(Len(pipelineMap) - 1) : pipelineMap'[i] = pipelineMap[i + 1]
    BY <1>10, <1>11
  <1>13. Carries(n - 1)'
    <2>1. ASSUME NEW i \in 1..(Len(pipelineMap) - 1)
          PROVE  pipelineMap'[i].type = "Data" <=> i <= n - 1
      <3>1. pipelineMap[i + 1].type = "Data" <=> i + 1 <= n
        BY <1>12 DEF Chain, Carries
      <3>. QED  BY <1>12, <1>12a, <3>1
    <2>2. ASSUME NEW i \in 1..(n - 1)
          PROVE  pipelineMap'[i].payload + (n - 1) = Piped' + i
      <3>1. i \in 1..(Len(pipelineMap) - 1) /\ i + 1 \in 1..n
        BY <1>4, <1>5
      <3>2. pipelineMap[i + 1].payload + n = Piped + (i + 1)
        BY <3>1 DEF Chain, Carries
      <3>3. pipelineMap[i + 1].payload \in Nat
        BY <1>4, <1>12, <3>1, Fields
      <3>4. Piped \in Int
        BY DEF TypeOK, ChannelTypeOK, Piped
      <3>5. pipelineMap'[i] = pipelineMap[i + 1]
        BY <1>12a, <3>1
      <3>6. pipelineMap[i + 1].payload + (n - 1) = Piped + i
        BY <3>1, <3>2, <3>3, <3>4
      <3>. QED  BY <1>1, <3>5, <3>6
    <2>3. n - 1 <= Piped'
      <3>1. Piped \in Int /\ n <= Piped
        BY DEF Chain, Carries, TypeOK, ChannelTypeOK, Piped
      <3>. QED  BY <1>1, <3>1
    <2>. QED  BY <1>11, <2>1, <2>2, <2>3 DEF Carries
  <1>14. Links(n - 1, k - 1)'
    <2>1. ASSUME NEW i \in 1..(n - 1)
          PROVE  /\ pipelineMap'[i].hp.of < pipelineMap'[i].id
                 /\ i > 1 => pipelineMap'[i].hp.of = pipelineMap'[i - 1].id
                 /\ pipelineMap'[i].hp.of = expected'.of => i = (k - 1) + 1
                 /\ pipelineMap'[i].id = expected'.of => i = k - 1
      <3>1. i \in 1..(Len(pipelineMap) - 1) /\ i + 1 \in 1..n /\ i + 1 > 1
              /\ (i + 1) - 1 = i
        BY <1>4, <1>5
      <3>2. i > 1 => i - 1 \in 1..(Len(pipelineMap) - 1) /\ (i - 1) + 1 = i
        BY <3>1
      <3>3. /\ pipelineMap[i + 1].hp.of < pipelineMap[i + 1].id
            /\ pipelineMap[i + 1].hp.of = pipelineMap[i].id
            /\ pipelineMap[i + 1].hp.of = expected.of => i + 1 = k + 1
            /\ pipelineMap[i + 1].id = expected.of => i + 1 = k
        BY <3>1 DEF Chain, Links
      <3>. QED  BY <1>1, <1>12a, <3>1, <3>2, <3>3
    <2>2. ASSUME NEW i \in 1..(Len(pipelineMap) - 1)
          PROVE  pipelineMap'[i].id <= lastData' <=> i <= k - 1
      <3>1. pipelineMap[i + 1].id <= lastData <=> i + 1 <= k
        BY <1>12 DEF Chain, Links
      <3>. QED  BY <1>1, <1>12, <1>12a, <3>1
    <2>. QED  BY <1>11, <2>1, <2>2 DEF Links
  <1>15. Acks(k - 1, j - 1)'
    <2>1. ASSUME NEW o \in 1..(j - 1)
          PROVE  \E i \in DOMAIN a2d' : a2d'[i].type = "DataAck"
                   /\ a2d'[i].of = pipelineMap'[o].id
      <3>1. o + 1 \in 1..j /\ o \in 1..(Len(pipelineMap) - 1)
              /\ o + 1 \in DOMAIN pipelineMap /\ 1 < o + 1
        BY <1>4, <1>5
      <3>2. PICK i \in DOMAIN a2d : a2d[i].type = "DataAck"
              /\ a2d[i].of = pipelineMap[o + 1].id
        BY <3>1 DEF Chain, Acks
      <3>3. pipelineMap[1].id < pipelineMap[o + 1].id
        BY <1>4, <1>7, <3>1
      <3>4. i # 1
        BY <1>2, <1>4, <1>6, <1>7, <1>8, <3>1, <3>2, <3>3
      <3>. QED  BY SMTT(30), <1>2, <1>12a, <3>1, <3>2, <3>4
    <2>2. ASSUME NEW i \in DOMAIN a2d', a2d'[i].type = "DataAck",
                 a2d'[i].of \in Ids(pipelineMap')
          PROVE  \E o \in 1..(j - 1) : a2d'[i].of = pipelineMap'[o].id
      <3>1. PICK q \in 1..(Len(pipelineMap) - 1) : a2d'[i].of = pipelineMap[q + 1].id
        BY <1>11, <1>12a, <2>2 DEF Ids
      <3>2. a2d'[i].of \in Ids(pipelineMap)
        BY <1>12, <3>1 DEF Ids
      <3>3. PICK o \in 1..j : a2d'[i].of = pipelineMap[o].id
        BY <1>2, <2>2, <3>2 DEF Chain, Acks
      <3>4. pipelineMap[1].id < pipelineMap[q + 1].id
        BY <1>4, <1>7, <1>12, <3>1
      <3>5. o # 1
        BY <1>4, <1>7, <1>12, <3>1, <3>3, <3>4
      <3>6. o - 1 \in 1..(j - 1) /\ o - 1 \in 1..(Len(pipelineMap) - 1) /\ (o - 1) + 1 = o
        BY <1>4, <1>5, <3>5
      <3>. QED  BY <1>12a, <3>3, <3>6
    <2>3. aState' = "open" => j - 1 = k - 1
      BY <1>1 DEF Chain, Acks
    <2>4. \A i \in DOMAIN a2d' : a2d'[i].type = "SynAck" => j - 1 = k - 1
            /\ a2d'[i].nonce = lastData'
      BY <1>1, <1>2 DEF Chain, Acks
    <2>. QED  BY <2>1, <2>2, <2>3, <2>4 DEF Acks
  <1>16. Delivers(n - 1, k - 1)'
    <2>1. delivered # <<>>
      BY <1>7 DEF Chain, Delivers
    <2>2. /\ lastData > 0 /\ delivered[Len(delivered)] + n = Piped + k
          /\ pipelineMap[k].id = lastData /\ Len(pipelineMap) <= n + 1
      BY <1>7, <2>1 DEF Chain, Delivers
    <2>3. delivered[Len(delivered)] \in Nat /\ Piped \in Int
      BY SMTT(30), <2>1, Fields DEF TypeOK, ChannelTypeOK, Piped
    <2>4. delivered[Len(delivered)] + (n - 1) = Piped' + (k - 1)
      BY <1>1, <2>2, <2>3
    <2>5. k - 1 > 0 => pipelineMap'[k - 1].id = lastData
      <3>1. k - 1 > 0 => k - 1 \in 1..(Len(pipelineMap) - 1) /\ (k - 1) + 1 = k
        BY <1>4, <1>5
      <3>. QED  BY <1>12a, <2>2, <3>1
    <2>6. k - 1 = 0 => lastAckedData' = lastData
      BY <1>3, <1>6, <1>8, <2>2
    <2>7. Len(pipelineMap') <= (n - 1) + 1
      BY <1>4, <1>10, <2>2
    <2>. QED  BY <1>1, <2>1, <2>2, <2>4, <2>5, <2>6, <2>7 DEF Delivers
  <1>17. j - 1 <= k - 1 /\ k - 1 <= n - 1 /\ n - 1 <= Len(pipelineMap')
    BY <1>4, <1>5, <1>10
  <1>. QED  BY <1>7, <1>13, <1>14, <1>15, <1>16, <1>17 DEF Chain

\* The pipeline without its last message.
LEMMA WithoutLast ==
  ASSUME NEW map \in Seq(Requests), map # <<>>, NEW id, map[Len(map)].id = id,
         \A i \in DOMAIN map : map[i].id = id => i = Len(map)
  PROVE  /\ Without(map, id) \in Seq(Requests) /\ Len(Without(map, id)) = Len(map) - 1
         /\ \A i \in 1..(Len(map) - 1) : Without(map, id)[i] = map[i]
  <1>1. Len(map) \in Nat \ {0} /\ DOMAIN map = 1..Len(map) /\ Len(map) \in DOMAIN map
    OBVIOUS
  <1>2. id \in Ids(map)
    BY <1>1 DEF Ids
  <1>3. IndexOf(map, id) \in DOMAIN map /\ map[IndexOf(map, id)].id = id
    BY <1>2, IndexOfIsIndex
  <1>. DEFINE c == IndexOf(map, id)
  <1>4. c = Len(map) /\ c \in DOMAIN map
    BY <1>3
  <1>5. Without(map, id) = RemoveAt(map, c)
    BY DEF Without
  <1>. HIDE DEF c
  <1>6. /\ RemoveAt(map, c) \in Seq(Requests)
        /\ Len(RemoveAt(map, c)) = Len(map) - 1
        /\ \A i \in DOMAIN RemoveAt(map, c) :
             RemoveAt(map, c)[i] = IF i < c THEN map[i] ELSE map[i + 1]
    BY SMTT(30), <1>4, RemoveAtIs
  <1>7. DOMAIN RemoveAt(map, c) = 1..(Len(map) - 1)
    BY <1>6
  <1>8. \A i \in 1..(Len(map) - 1) : i < c
    BY <1>1, <1>4
  <1>9. \A i \in 1..(Len(map) - 1) : RemoveAt(map, c)[i] = map[i]
    BY <1>6, <1>7, <1>8
  <1>. QED  BY <1>5, <1>6, <1>9

\* A SynAck: nothing is resent before the agent has accepted anything, and
\* from then on all that it has not accepted.
LEMMA ChainSynAck ==
  ASSUME TypeOK, MapInv, StartInv, AgentVersion = "2.1+",
         Validates, ValidateSynAck(Head(a2d)),
         NEW n \in Nat, NEW k \in Nat, NEW j \in Nat, Chain(n, k, j)
  PROVE  Chain(0, 0, 0)' \/ Chain(n, 0, 0)'
  <1>1. /\ UNCHANGED <<lastData, expected, delivered, aState>> /\ Piped' = Piped
        /\ a2d # <<>> /\ a2d' = Tail(a2d)
    BY DEF Validates, agentVars
  <1>. DEFINE head == Head(a2d)
              L    == Len(pipelineMap)
              left == Without(pipelineMap, head.of)
              ack  == AckHash(head.of, head.resp)
              data == Rebuilt(ToResend(left, head.nonce), ack)
  <1>2. /\ 1 \in DOMAIN a2d /\ head = a2d[1] /\ head \in Replies
        /\ \A i \in DOMAIN a2d' : i + 1 \in DOMAIN a2d /\ a2d'[i] = a2d[i + 1]
        /\ \A i \in DOMAIN a2d : i # 1 => 1 < i
        /\ \A i \in DOMAIN a2d : a2d[i].of \in Nat /\ a2d[i].of < nextId
    <2>1. a2d \in Seq(Replies) /\ \A r \in Replies : r.of \in Nat
      BY Wires
    <2>2. \A i \in DOMAIN a2d : a2d[i].of < nextId
      BY DEF MapInv, SentInv, Sent
    <2>. QED  BY <1>1, <2>1, <2>2
  <1>3. /\ Newest(head.of) /\ head.type = "SynAck" /\ head.of = nextId - 1
        /\ pipelineMap # <<>> /\ pipelineMap[L].id = head.of
             /\ pipelineMap[L].type = "Syn"
    BY <1>2 DEF MapInv, SynInv, Newest, ValidateSynAck
  <1>4. pipelineMap' = data /\ lastAckedData' = lastAckedData
    BY DEF ValidateSynAck
  <1>5. /\ pipelineMap \in Seq(Requests) /\ L \in Nat \ {0} /\ DOMAIN pipelineMap = 1..L
        /\ L \in DOMAIN pipelineMap
        /\ \A i \in DOMAIN pipelineMap : pipelineMap[i].id \in Nat
             /\ 0 < pipelineMap[i].id
        /\ \A i, o \in DOMAIN pipelineMap : i < o => pipelineMap[i].id < pipelineMap[o].id
    <2>1. pipelineMap \in Seq(Requests) /\ \A m \in Requests : m.id \in Nat
      BY Wires
    <2>2. L \in Nat \ {0} /\ DOMAIN pipelineMap = 1..L /\ L \in DOMAIN pipelineMap
      BY <1>3, <2>1
    <2>. QED  BY <2>1, <2>2 DEF MapInv, QueueInv, Ascends
  <1>6. j = k /\ head.nonce = lastData /\ k <= n /\ n <= L
    BY <1>2, <1>3 DEF Chain, Acks
  <1>7. left \in Seq(Requests) /\ Len(left) = L - 1
          /\ \A i \in 1..(L - 1) : left[i] = pipelineMap[i]
    <2>1. \A i \in DOMAIN pipelineMap : pipelineMap[i].id = head.of => i = L
      BY <1>3, <1>5
    <2>. QED  BY <1>3, <1>5, <2>1, WithoutLast
  <1>8. /\ ack \in AckHashes /\ ack.of = head.of /\ MrtapTypeOK /\ nextId \in Nat
        /\ lastData \in Nat /\ expected.of \in Nat /\ lastData < nextId
             /\ expected.of < nextId
    <2>1. head.of \in Nat /\ head.resp \in BOOLEAN
      BY <1>2, Fields
    <2>2. ack \in AckHashes /\ ack.of = head.of
      BY <2>1 DEF AckHash, AckHashes
    <2>. QED  BY <2>2, Fields DEF TypeOK, StartInv
  <1>. HIDE DEF head, L, left, ack, data
  <1>9. n < L
    BY <1>3, <1>5, <1>6 DEF Chain, Carries
  <1>10. k = 0 /\ j = 0
    <2>1. SUFFICES ASSUME j > 0 PROVE FALSE
      BY <1>6
    <2>2. 1 \in 1..j /\ 1 \in DOMAIN pipelineMap /\ 1 < L
      BY <1>5, <1>6, <1>9, <2>1
    <2>3. PICK i \in DOMAIN a2d : a2d[i].type = "DataAck" /\ a2d[i].of = pipelineMap[1].id
      BY <2>2 DEF Chain, Acks
    <2>4. 0 < a2d[i].of /\ a2d[i].of < head.of /\ a2d[i].of \in Nat
      BY <1>3, <1>5, <2>2, <2>3
    <2>5. i # 1
      BY <1>2, <1>3, <2>3
    <2>6. a2d[i].of = 0 \/ a2d[1].of < a2d[i].of
      BY <1>2, <2>5 DEF MapInv, RisingInv
    <2>. QED  BY <1>2, <2>4, <2>6
  <1>11. lastData \notin Ids(left)
    <2>1. \A i \in DOMAIN left : i \in 1..(L - 1) /\ i \in DOMAIN pipelineMap
      BY <1>5, <1>7
    <2>2. \A i \in DOMAIN pipelineMap : ~(pipelineMap[i].id <= lastData)
      BY <1>5, <1>10 DEF Chain, Links
    <2>3. \A i \in DOMAIN left : left[i].id # lastData
      BY <1>5, <1>7, <1>8, <2>1, <2>2
    <2>. QED  BY <2>3 DEF Ids
  <1>12. ASSUME \A i \in DOMAIN pipelineMap' : pipelineMap'[i].id >= nextId,
                \A i \in DOMAIN pipelineMap' : pipelineMap'[i].id \in Nat
         PROVE  Acks(0, 0)'
    <2>1. ASSUME NEW i \in DOMAIN a2d', a2d'[i].of \in Ids(pipelineMap')
          PROVE  FALSE
      <3>1. a2d'[i].of < nextId /\ a2d'[i].of \in Nat
        BY <1>2
      <3>. QED  BY <1>8, <1>12, <2>1, <3>1 DEF Ids
    <2>2. \A i \in DOMAIN a2d' : a2d'[i].type = "SynAck" => a2d'[i].nonce = lastData'
      BY <1>1, <1>2 DEF Chain, Acks
    <2>3. \A o \in 1..0 : FALSE
      OBVIOUS
    <2>. QED  BY <2>1, <2>2, <2>3 DEF Acks
  <1>13. CASE delivered = <<>>
    <2>1. lastAckedData = NoHash
      BY <1>13 DEF Chain, Delivers
    <2>2. ToResend(left, head.nonce) = <<>>
      BY <1>6, <1>11, <2>1 DEF ToResend, NonceChecked
    <2>3. pipelineMap' = <<>>
      <3>1. ASSUME NEW none \in Seq(Requests), none = <<>>
            PROVE  Rebuilt(none, ack) = <<>>
        <4>1. Len(Rebuilt(none, ack)) = Len(none) /\ Rebuilt(none, ack) \in Seq(Requests)
          BY <1>8, RebuiltIsData
        <4>. QED  BY <3>1, <4>1
      <3>2. <<>> \in Seq(Requests)
        OBVIOUS
      <3>. QED  BY <1>4, <2>2, <3>1, <3>2 DEF data
    <2>4. Acks(0, 0)'
      BY <1>12, <2>3
    <2>5. Carries(0)' /\ Links(0, 0)'
      <3>1. Piped \in Int /\ n <= Piped
        BY DEF Chain, Carries, TypeOK, ChannelTypeOK, Piped
      <3>2. 0 <= Piped'
        BY <1>1, <3>1
      <3>. QED  BY <2>3, <3>2 DEF Carries, Links
    <2>6. Delivers(0, 0)'
      BY <1>1, <1>4, <1>13, <2>1 DEF Delivers
    <2>7. Len(pipelineMap') = 0
      BY <2>3
    <2>8. Chain(0, 0, 0)'
      BY <2>4, <2>5, <2>6, <2>7 DEF Chain
    <2>. QED  BY <2>8
  <1>14. CASE delivered # <<>>
    <2>1. /\ lastData > 0 /\ delivered[Len(delivered)] + n = Piped + k
          /\ lastAckedData = lastData /\ L <= n + 1
      BY <1>10, <1>14 DEF Chain, Delivers, L
    <2>2. L - 1 = n
      BY <1>5, <1>9, <2>1
    <2>3. ToResend(left, head.nonce) = left
      BY <1>6, <1>8, <1>11, <2>1 DEF ToResend, NoHash
    <2>4. /\ Len(pipelineMap') = n /\ pipelineMap' \in Seq(Requests)
          /\ \A i \in DOMAIN pipelineMap' :
              /\ pipelineMap'[i].type = "Data"
              /\ pipelineMap'[i].id = nextId + i - 1
              /\ pipelineMap'[i].payload = left[i].payload
              /\ pipelineMap'[i].hp.of = IF i = 1 THEN head.of ELSE nextId + i - 2
      <3>1. pipelineMap' = Rebuilt(left, ack)
        BY <1>4, <2>3 DEF data
      <3>2. /\ Rebuilt(left, ack) \in Seq(Requests) /\ Len(Rebuilt(left, ack)) = Len(left)
        BY <1>7, <1>8, RebuiltIsData
      <3>3. \A i \in DOMAIN Rebuilt(left, ack) :
              /\ Rebuilt(left, ack)[i].type = "Data"
              /\ Rebuilt(left, ack)[i].id = nextId + i - 1
              /\ Rebuilt(left, ack)[i].payload = left[i].payload
              /\ Rebuilt(left, ack)[i].hp.of = IF i = 1 THEN ack.of ELSE nextId + i - 2
        BY <1>7, <1>8, RebuiltIs
      <3>. QED  BY <1>7, <1>8, <2>2, <3>1, <3>2, <3>3
    <2>5. DOMAIN pipelineMap' = 1..n
      BY <2>4
    <2>6. \A i \in 1..n : i \in Nat /\ i >= 1 /\ pipelineMap'[i].id \in Nat
            /\ pipelineMap'[i].id >= nextId
      BY <1>8, <2>4, <2>5
    <2>7. Acks(0, 0)'
      BY <1>12, <2>5, <2>6
    <2>8. Carries(n)'
      <3>1. \A i \in 1..n : left[i] = pipelineMap[i]
        BY <1>7, <2>2
      <3>2. \A i \in 1..n : pipelineMap[i].payload + n = Piped + i
        BY DEF Chain, Carries
      <3>3. \A i \in 1..n : pipelineMap'[i].payload + n = Piped' + i
        BY <1>1, <2>4, <2>5, <3>1, <3>2
      <3>4. n <= Piped'
        BY <1>1 DEF Chain, Carries
      <3>. QED  BY <2>4, <2>5, <2>6, <3>3, <3>4 DEF Carries
    <2>9. Links(n, 0)'
      <3>1. ASSUME NEW i \in 1..n
            PROVE  /\ pipelineMap'[i].hp.of < pipelineMap'[i].id
                   /\ i > 1 => pipelineMap'[i].hp.of = pipelineMap'[i - 1].id
                   /\ pipelineMap'[i].hp.of = expected'.of => i = 0 + 1
                   /\ pipelineMap'[i].id = expected'.of => i = 0
                   /\ pipelineMap'[i].id <= lastData' <=> i <= 0
        <4>1. i > 1 => i - 1 \in DOMAIN pipelineMap'
          BY <2>5
        <4>2. /\ pipelineMap'[i].id = nextId + i - 1
              /\ pipelineMap'[i].hp.of = IF i = 1 THEN nextId - 1 ELSE nextId + i - 2
              /\ i > 1 => pipelineMap'[i - 1].id = nextId + (i - 1) - 1
          BY <1>3, <2>4, <2>5, <4>1
        <4>. QED  BY <1>1, <1>8, <4>2
      <3>. QED  BY <2>5, <3>1 DEF Links
    <2>10. Delivers(n, 0)'
      BY <1>1, <1>4, <1>10, <1>14, <2>1, <2>4 DEF Delivers
    <2>11. Chain(n, 0, 0)'
      BY <2>4, <2>7, <2>8, <2>9, <2>10 DEF Chain
    <2>. QED  BY <2>11
  <1>. QED  BY <1>13, <1>14

\* A reply that is no DataAck joins the replies.
LEMMA AcksAppend ==
  ASSUME TypeOK, NEW r \in Replies, a2d' = Append(a2d, r)
  PROVE  /\ \A i \in DOMAIN a2d : i \in DOMAIN a2d' /\ a2d'[i] = a2d[i]
         /\ Len(a2d) + 1 \in DOMAIN a2d' /\ a2d'[Len(a2d) + 1] = r
         /\ \A i \in DOMAIN a2d' : (i \in DOMAIN a2d /\ a2d'[i] = a2d[i]) \/ a2d'[i] = r
  <1>1. a2d \in Seq(Replies)
    BY Wires
  <1>2. ASSUME NEW S, NEW s \in Seq(S), NEW m \in S
        PROVE  Len(s) + 1 \in DOMAIN Append(s, m) /\ Append(s, m)[Len(s) + 1] = m
    OBVIOUS
  <1>. QED  BY <1>1, <1>2, AppendKeeps, AppendIs

\* The agent opens a channel,
LEMMA ChainOpened ==
  ASSUME TypeOK, MapInv, StartInv, Opened,
         NEW n \in Nat, NEW k \in Nat, NEW j \in Nat, Chain(n, k, j)
  PROVE  Chain(0, 0, 0)'
  <1>. DEFINE head == Head(d2a)
  <1>1. /\ UNCHANGED <<pipelineMap, lastAckedData, delivered>>
        /\ d2a # <<>> /\ head.type = "Open" /\ lastData' = 0 /\ expected'.of = head.id
        /\ a2d' = Append(a2d, SynAckMsg(head.id, 0))
    BY DEF Opened, daemonSide
  <1>2. 1 \in DOMAIN d2a /\ head = d2a[1] /\ head \in Requests /\ head.id \in Nat
    <2>1. d2a \in Seq(Requests) /\ \A m \in Requests : m.id \in Nat
      BY Wires
    <2>. QED  BY <1>1, <2>1
  <1>. HIDE DEF head
  <1>3. Opening
    BY <1>1, <1>2 DEF StartInv
  <1>4. n = 0 /\ k = 0 /\ j = 0 /\ delivered = <<>>
    BY <1>3, OpeningChain
  <1>5. /\ \A i \in DOMAIN pipelineMap : pipelineMap[i].id \in Nat
             /\ 0 < pipelineMap[i].id
        /\ Len(pipelineMap) \in Nat /\ DOMAIN pipelineMap = 1..Len(pipelineMap)
        /\ nextId \in Nat
    BY Wires DEF MapInv, QueueInv, Ascends
  <1>6. Newest(head.id) /\ head.id = nextId - 1 /\ head.id > 0
    <2>1. Newest(head.id)
      BY <1>1, <1>2 DEF MapInv, SynInv, IsSyn
    <2>2. head.id = nextId - 1 /\ pipelineMap # <<>>
            /\ pipelineMap[Len(pipelineMap)].id = head.id
      BY <2>1 DEF Newest
    <2>3. Len(pipelineMap) \in DOMAIN pipelineMap
      BY <2>2, Wires
    <2>. QED  BY <1>5, <2>1, <2>2, <2>3
  <1>7. \A i \in DOMAIN a2d : a2d[i].type # "SynAck"
    <2>1. ASSUME NEW i \in DOMAIN a2d, a2d[i].type = "SynAck"  PROVE FALSE
      <3>1. a2d[i].of = nextId - 1
        BY <2>1 DEF MapInv, SynInv, Newest
      <3>2. d2a[1].id = 0 \/ a2d[i].of < d2a[1].id
        BY <1>2 DEF MapInv, RisingInv
      <3>. QED  BY <1>2, <1>5, <1>6, <3>1, <3>2
    <2>. QED  BY <2>1
  <1>. DEFINE r == SynAckMsg(head.id, 0)
  <1>8. r \in Replies /\ r.type = "SynAck" /\ r.nonce = 0
    BY <1>2 DEF SynAckMsg, Replies, NoHash
  <1>. HIDE DEF r
  <1>9. \A i \in DOMAIN a2d' : (i \in DOMAIN a2d /\ a2d'[i] = a2d[i]) \/ a2d'[i] = r
    BY <1>1, <1>8, AcksAppend DEF r
  <1>10. Acks(0, 0)'
    <2>1. ASSUME NEW i \in DOMAIN a2d', a2d'[i].type = "DataAck",
                 a2d'[i].of \in Ids(pipelineMap')
          PROVE  \E c \in 1..0 : a2d'[i].of = pipelineMap'[c].id
      BY <1>1, <1>4, <1>8, <1>9, <2>1 DEF Chain, Acks
    <2>2. \A i \in DOMAIN a2d' : a2d'[i].type = "SynAck" => a2d'[i].nonce = lastData'
      BY <1>1, <1>7, <1>8, <1>9
    <2>3. \A c \in 1..0 : FALSE
      OBVIOUS
    <2>. QED  BY <2>1, <2>2, <2>3 DEF Acks
  <1>11. Carries(0)'
    <2>1. \A i \in DOMAIN pipelineMap : pipelineMap[i].type = "Data" <=> i <= 0
      BY <1>4 DEF Chain, Carries
    <2>2. \A c \in 1..0 : FALSE
      OBVIOUS
    <2>3. 0 <= Piped'
      <3>1. Piped' = Piped
        BY AgentTakes
      <3>. QED  BY <1>4, <3>1 DEF Chain, Carries
    <2>. QED  BY <1>1, <2>1, <2>2, <2>3 DEF Carries
  <1>12. Links(0, 0)'
    <2>1. \A i \in DOMAIN pipelineMap : pipelineMap[i].id <= 0 <=> i <= 0
      BY <1>5
    <2>2. \A c \in 1..0 : FALSE
      OBVIOUS
    <2>. QED  BY <1>1, <2>1, <2>2 DEF Links
  <1>13. Delivers(0, 0)'
    BY <1>1, <1>4 DEF Chain, Delivers
  <1>14. 0 <= Len(pipelineMap')
    BY <1>1, <1>5
  <1>. QED  BY <1>10, <1>11, <1>12, <1>13, <1>14 DEF Chain

\* accepts a Syn,
LEMMA ChainSynced ==
  ASSUME TypeOK, MapInv, StartInv, Synced,
         NEW n \in Nat, NEW k \in Nat, NEW j \in Nat, Chain(n, k, j)
  PROVE  Chain(n, k, j)'
  <1>. DEFINE head == Head(d2a)
  <1>1. /\ UNCHANGED <<pipelineMap, lastAckedData, delivered, lastData, aState>>
        /\ d2a # <<>> /\ head.type = "Syn" /\ expected'.of = head.id
        /\ \/ aState = "open" /\ a2d' = Append(a2d, SynAckMsg(head.id, lastData))
           \/ aState # "open" /\ a2d' = a2d
    BY DEF Synced, daemonSide
  <1>2. 1 \in DOMAIN d2a /\ head = d2a[1] /\ head \in Requests /\ head.id \in Nat
    <2>1. d2a \in Seq(Requests) /\ \A m \in Requests : m.id \in Nat
      BY Wires
    <2>. QED  BY <1>1, <2>1
  <1>3. Piped' = Piped
    BY AgentTakes
  <1>. HIDE DEF head
  <1>4. Newest(head.id)
    BY <1>1, <1>2 DEF MapInv, SynInv, IsSyn
  <1>5. /\ pipelineMap[Len(pipelineMap)].id = head.id
             /\ pipelineMap[Len(pipelineMap)].type = "Syn"
        /\ pipelineMap # <<>>
    BY <1>4 DEF Newest
  <1>6. /\ Len(pipelineMap) \in Nat /\ DOMAIN pipelineMap = 1..Len(pipelineMap)
        /\ Len(pipelineMap) \in DOMAIN pipelineMap
        /\ \A i \in DOMAIN pipelineMap : pipelineMap[i].id \in Nat
             /\ pipelineMap[i].hp.of \in Nat
        /\ \A i, o \in DOMAIN pipelineMap : i < o => pipelineMap[i].id < pipelineMap[o].id
    <2>1. pipelineMap \in Seq(Requests)
      BY Wires
    <2>2. \A i \in DOMAIN pipelineMap : pipelineMap[i].id \in Nat
            /\ pipelineMap[i].hp.of \in Nat
      BY <2>1, Fields
    <2>. QED  BY <1>5, <2>1, <2>2 DEF MapInv, QueueInv, Ascends
  <1>7. j <= k /\ k <= n /\ n <= Len(pipelineMap)
    BY DEF Chain
  <1>8. \A i \in 1..n : i \in DOMAIN pipelineMap /\ i < Len(pipelineMap)
    <2>1. ~(Len(pipelineMap) <= n)
      BY <1>5, <1>6 DEF Chain, Carries
    <2>. QED  BY <1>6, <1>7, <2>1
  <1>9. \A i \in 1..n : /\ pipelineMap[i].id # head.id
                        /\ pipelineMap[i].hp.of # head.id
    <2>1. ASSUME NEW i \in 1..n
          PROVE  pipelineMap[i].id # head.id /\ pipelineMap[i].hp.of # head.id
      <3>1. pipelineMap[i].id < head.id /\ pipelineMap[i].id \in Nat
              /\ pipelineMap[i].hp.of \in Nat
        BY <1>5, <1>6, <1>8
      <3>2. pipelineMap[i].hp.of < pipelineMap[i].id
        BY DEF Chain, Links
      <3>. QED  BY <1>2, <3>1, <3>2
    <2>. QED  BY <2>1
  <1>10. Links(n, k)'
    <2>1. \A i \in 1..n : /\ pipelineMap[i].hp.of < pipelineMap[i].id
                          /\ i > 1 => pipelineMap[i].hp.of = pipelineMap[i - 1].id
      BY DEF Chain, Links
    <2>2. \A i \in DOMAIN pipelineMap : pipelineMap[i].id <= lastData <=> i <= k
      BY DEF Chain, Links
    <2>. QED  BY <1>1, <1>9, <2>1, <2>2 DEF Links
  <1>11. Carries(n)' /\ Delivers(n, k)'
    BY <1>1, <1>3 DEF Chain, Carries, Delivers
  <1>12. Acks(k, j)'
    <2>1. CASE aState # "open" /\ a2d' = a2d
      BY <1>1, <2>1 DEF Chain, Acks
    <2>2. CASE aState = "open" /\ a2d' = Append(a2d, SynAckMsg(head.id, lastData))
      <3>. DEFINE r == SynAckMsg(head.id, lastData)
      <3>1. r \in Replies /\ r.type = "SynAck" /\ r.nonce = lastData
        BY <1>2, Fields DEF SynAckMsg, Replies
      <3>. HIDE DEF r
      <3>2. /\ \A i \in DOMAIN a2d' : (i \in DOMAIN a2d /\ a2d'[i] = a2d[i])
                 \/ a2d'[i] = r
            /\ \A i \in DOMAIN a2d : i \in DOMAIN a2d' /\ a2d'[i] = a2d[i]
        BY <2>2, <3>1, AcksAppend DEF r
      <3>3. j = k
        BY <2>2 DEF Chain, Acks
      <3>4. \A c \in 1..j : \E i \in DOMAIN a2d' :
              a2d'[i].type = "DataAck" /\ a2d'[i].of = pipelineMap'[c].id
        BY <1>1, <3>2 DEF Chain, Acks
      <3>5. \A i \in DOMAIN a2d' : a2d'[i].type = "DataAck"
              /\ a2d'[i].of \in Ids(pipelineMap') =>
              \E c \in 1..j : a2d'[i].of = pipelineMap'[c].id
        BY <1>1, <3>1, <3>2 DEF Chain, Acks
      <3>6. \A i \in DOMAIN a2d' : a2d'[i].type = "SynAck" => j = k
              /\ a2d'[i].nonce = lastData'
        BY <1>1, <3>1, <3>2, <3>3 DEF Chain, Acks
      <3>. QED  BY <3>3, <3>4, <3>5, <3>6 DEF Acks
    <2>. QED  BY <1>1, <2>1, <2>2
  <1>. QED  BY <1>1, <1>7, <1>10, <1>11, <1>12 DEF Chain

\* The agent can accept no other Data than the next of the pipeline.
LEMMA AcceptsNext ==
  ASSUME TypeOK, MapInv, Tracked, Accepts,
         NEW n \in Nat, NEW k \in Nat, NEW j \in Nat, Chain(n, k, j)
  PROVE  k + 1 \in 1..n /\ k + 1 \in DOMAIN pipelineMap /\ Head(d2a) = pipelineMap[k + 1]
         /\ 1 \in DOMAIN d2a /\ d2a[1] = Head(d2a)
  <1>1. d2a # <<>> /\ Head(d2a).type = "Data" /\ Head(d2a).hp = expected
    BY DEF Accepts
  <1>2. 1 \in DOMAIN d2a /\ Head(d2a) = d2a[1]
    BY <1>1, Wires, TailIs
  <1>3. PICK c \in DOMAIN pipelineMap : pipelineMap[c] = Head(d2a)
    BY <1>1, <1>2 DEF Tracked
  <1>4. c <= n /\ c \in 1..n
    <2>1. c <= n
      BY <1>1, <1>3 DEF Chain, Carries
    <2>2. c \in Nat \ {0}
      BY Wires
    <2>. QED  BY <2>1, <2>2
  <1>5. pipelineMap[c].hp.of = expected.of
    BY <1>1, <1>3
  <1>6. c = k + 1
    BY <1>4, <1>5 DEF Chain, Links
  <1>. QED  BY <1>2, <1>3, <1>4, <1>6

\* or accepts a Data, and acks it if it still answers.
LEMMA ChainAccepts ==
  ASSUME TypeOK, TypeOK', MapInv, Tracked, Accepts,
         NEW n \in Nat, NEW k \in Nat, NEW j \in Nat, Chain(n, k, j)
  PROVE  Chain(n, k + 1, j)' \/ Chain(n, k + 1, j + 1)'
  <1>. DEFINE head == Head(d2a)
              m == k + 1
  <1>1. /\ UNCHANGED <<pipelineMap, lastAckedData, aState>>
        /\ lastData' = head.id /\ expected'.of = head.id
        /\ delivered' = Append(delivered, head.payload)
        /\ \/ /\ aState = "open"
              /\ \E resp \in BOOLEAN : a2d' = Append(a2d, DataAckMsg(head.id, resp))
           \/ aState # "open" /\ a2d' = a2d
    BY DEF Accepts, daemonSide
  <1>2. /\ m \in 1..n /\ m \in DOMAIN pipelineMap /\ head = pipelineMap[m] /\ m \in Nat
        /\ 1 \in DOMAIN d2a /\ d2a[1] = head /\ k < m
    BY AcceptsNext
  <1>3. Piped' = Piped
    BY AgentTakes
  <1>4. head \in Requests /\ head.id \in Nat /\ head.payload \in Nat
    <2>1. pipelineMap \in Seq(Requests)
      BY Wires
    <2>2. head \in Requests
      BY <1>2, <2>1
    <2>. QED  BY <2>2, Fields
  <1>5. /\ Len(pipelineMap) \in Nat /\ DOMAIN pipelineMap = 1..Len(pipelineMap)
        /\ \A i \in DOMAIN pipelineMap : /\ pipelineMap[i].id \in Nat
                                              /\ pipelineMap[i].hp.of \in Nat
                                         /\ 0 < pipelineMap[i].id
                                              /\ pipelineMap[i].id < nextId
        /\ \A i, o \in DOMAIN pipelineMap : i < o => pipelineMap[i].id < pipelineMap[o].id
        /\ nextId \in Nat
    <2>1. pipelineMap \in Seq(Requests) /\ nextId \in Nat
      BY Wires
    <2>2. \A i \in DOMAIN pipelineMap : pipelineMap[i].id \in Nat
            /\ pipelineMap[i].hp.of \in Nat
      BY <2>1, Fields
    <2>3. Len(pipelineMap) \in Nat /\ DOMAIN pipelineMap = 1..Len(pipelineMap)
      BY <2>1
    <2>. QED  BY <2>1, <2>2, <2>3 DEF MapInv, QueueInv, Ascends
  <1>6. j <= k /\ k <= n /\ n <= Len(pipelineMap)
    BY DEF Chain
  <1>. HIDE DEF head
  <1>7. Carries(n)'
    BY <1>1, <1>3 DEF Chain, Carries
  <1>8. Links(n, m)'
    <2>1. ASSUME NEW i \in 1..n
          PROVE  /\ pipelineMap[i].hp.of = head.id => i = m + 1
                 /\ pipelineMap[i].id = head.id => i = m
      <3>1. i \in DOMAIN pipelineMap
        BY <1>5, <1>6
      <3>2. pipelineMap[i].id = head.id => i = m
        BY <1>2, <1>5, <3>1
      <3>3. CASE i > 1
        <4>1. i - 1 \in DOMAIN pipelineMap /\ (i - 1 = m => i = m + 1)
          BY <1>5, <1>6, <3>3
        <4>2. pipelineMap[i].hp.of = pipelineMap[i - 1].id
          BY <3>3 DEF Chain, Links
        <4>3. pipelineMap[i - 1].id = head.id => i - 1 = m
          BY <1>2, <1>5, <4>1
        <4>. QED  BY <3>2, <4>1, <4>2, <4>3
      <3>4. CASE i = 1
        <4>1. pipelineMap[i].hp.of < pipelineMap[i].id
          BY DEF Chain, Links
        <4>2. pipelineMap[i].id <= pipelineMap[m].id
          BY <1>2, <1>5, <3>1, <3>4
        <4>3. pipelineMap[i].hp.of # head.id
          BY <1>2, <1>5, <3>1, <4>1, <4>2
        <4>. QED  BY <3>2, <4>3
      <3>. QED  BY <3>3, <3>4
    <2>2. ASSUME NEW i \in DOMAIN pipelineMap
          PROVE  pipelineMap[i].id <= head.id <=> i <= m
      BY <1>2, <1>5
    <2>3. \A i \in 1..n : /\ pipelineMap[i].hp.of < pipelineMap[i].id
                          /\ i > 1 => pipelineMap[i].hp.of = pipelineMap[i - 1].id
      BY DEF Chain, Links
    <2>. QED  BY <1>1, <2>1, <2>2, <2>3 DEF Links
  <1>9. Delivers(n, m)'
    <2>1. /\ delivered' # <<>> /\ delivered'[Len(delivered')] = head.payload
      <3>1. delivered \in Seq(Nat)
        BY Fields
      <3>. QED  BY <1>1, <1>4, <3>1
    <2>2. head.payload + n = Piped + m
      BY <1>2 DEF Chain, Carries
    <2>3. Len(pipelineMap) <= n + 1
      BY <1>2 DEF Chain, Delivers
    <2>4. lastData' > 0 /\ pipelineMap'[m].id = lastData'
      BY <1>1, <1>2, <1>5
    <2>5. m # 0
      BY <1>2
    <2>. QED  BY <1>1, <1>3, <2>1, <2>2, <2>3, <2>4, <2>5 DEF Delivers
  <1>10. \A i \in DOMAIN a2d : a2d[i].type # "SynAck"
    <2>1. ASSUME NEW i \in DOMAIN a2d, a2d[i].type = "SynAck"  PROVE FALSE
      <3>1. a2d[i].of = nextId - 1
        BY <2>1 DEF MapInv, SynInv, Newest
      <3>2. d2a[1].id = 0 \/ a2d[i].of < d2a[1].id
        BY <1>2 DEF MapInv, RisingInv
      <3>. QED  BY <1>2, <1>5, <3>1, <3>2
    <2>. QED  BY <2>1
  <1>11. CASE aState # "open" /\ a2d' = a2d
    <2>1. Acks(m, j)'
      BY <1>1, <1>10, <1>11 DEF Chain, Acks
    <2>2. j <= m /\ m <= n /\ n <= Len(pipelineMap')
      BY <1>1, <1>2, <1>6
    <2>3. Chain(n, m, j)'
      BY <1>7, <1>8, <1>9, <2>1, <2>2 DEF Chain
    <2>. QED  BY <2>3
  <1>12. ASSUME aState = "open", NEW resp \in BOOLEAN, a2d' = Append(a2d,
                DataAckMsg(head.id, resp))
         PROVE  Chain(n, m, j + 1)'
    <2>. DEFINE r == DataAckMsg(head.id, resp)
    <2>1. r \in Replies /\ r.type = "DataAck" /\ r.of = head.id
      BY <1>4 DEF DataAckMsg, Replies, NoHash
    <2>. HIDE DEF r
    <2>2. /\ \A i \in DOMAIN a2d' : (i \in DOMAIN a2d /\ a2d'[i] = a2d[i]) \/ a2d'[i] = r
          /\ \A i \in DOMAIN a2d : i \in DOMAIN a2d' /\ a2d'[i] = a2d[i]
          /\ Len(a2d) + 1 \in DOMAIN a2d' /\ a2d'[Len(a2d) + 1] = r
      BY <1>12, <2>1, AcksAppend DEF r
    <2>3. j = k /\ j + 1 = m
      BY <1>12 DEF Chain, Acks
    <2>4. ASSUME NEW c \in 1..m
          PROVE  \E i \in DOMAIN a2d' : a2d'[i].type = "DataAck"
                   /\ a2d'[i].of = pipelineMap'[c].id
      <3>1. CASE c = m
        BY <1>1, <1>2, <2>1, <2>2, <3>1
      <3>2. CASE c \in 1..j
        BY <1>1, <2>2, <3>2 DEF Chain, Acks
      <3>3. c = m \/ c \in 1..j
        BY <2>3
      <3>. QED  BY <3>1, <3>2, <3>3
    <2>5. ASSUME NEW i \in DOMAIN a2d', a2d'[i].type = "DataAck",
                 a2d'[i].of \in Ids(pipelineMap')
          PROVE  \E c \in 1..m : a2d'[i].of = pipelineMap'[c].id
      <3>1. CASE a2d'[i] = r
        <4>1. m \in 1..m
          BY <1>2
        <4>. QED  BY <1>1, <1>2, <2>1, <3>1, <4>1
      <3>2. CASE i \in DOMAIN a2d /\ a2d'[i] = a2d[i]
        <4>1. \E c \in 1..j : a2d[i].of = pipelineMap[c].id
          BY <1>1, <2>5, <3>2 DEF Chain, Acks
        <4>2. \A c \in 1..j : c \in 1..m
          BY <2>3
        <4>. QED  BY <1>1, <3>2, <4>1, <4>2
      <3>. QED  BY <2>2, <3>1, <3>2
    <2>6. \A i \in DOMAIN a2d' : a2d'[i].type # "SynAck"
      BY <1>10, <2>1, <2>2
    <2>7. Acks(m, m)'
      BY <2>4, <2>5, <2>6 DEF Acks
    <2>8. m <= m /\ m <= n /\ n <= Len(pipelineMap')
      BY <1>1, <1>2, <1>6
    <2>9. Chain(n, m, m)'
      BY <1>7, <1>8, <1>9, <2>7, <2>8 DEF Chain
    <2>. QED  BY <2>3, <2>9
  <1>. QED  BY <1>1, <1>11, <1>12

\* Every move keeps the chain, unless a reply is lost.
LEMMA ChainStep ==
  ASSUME TypeOK, TypeOK', MapInv, MapInv', HandshakeInv, StartInv, Tracked,
         AgentVersion = "2.1+", replyLost' = FALSE,
         NEW n \in Nat, NEW k \in Nat, NEW j \in Nat, Chain(n, k, j),
         \/ Idles \/ Opens \/ Recovers \/ Validates \/ Pipes \/ Takes \/ Sends
         \/ Opened \/ Synced \/ Accepts \/ Passes
  PROVE  \E nn, kk, jj \in Nat : Chain(nn, kk, jj)'
  <1>1. CASE Idles \/ Takes \/ Sends \/ Passes \/ Synced
    <2>1. Chain(n, k, j)'
      BY <1>1, ChainIdles, ChainSends, ChainPasses, ChainSynced
    <2>. QED  BY <2>1
  <1>2. CASE Opens \/ Recovers
    <2>1. Chain(n, k, j)'
      BY <1>2, ChainSyn
    <2>. QED  BY <2>1
  <1>3. CASE Validates
    <2>1. CASE ValidateDataAck(Head(a2d))
      <3>1. n > 0 /\ k > 0 /\ j > 0 /\ Chain(n - 1, k - 1, j - 1)'
        BY <1>3, <2>1, ChainDataAck
      <3>2. n - 1 \in Nat /\ k - 1 \in Nat /\ j - 1 \in Nat
        BY <3>1
      <3>. QED  BY <3>1, <3>2
    <2>2. CASE ValidateSynAck(Head(a2d))
      <3>1. Chain(0, 0, 0)' \/ Chain(n, 0, 0)'
        BY <1>3, <2>2, ChainSynAck
      <3>2. 0 \in Nat
        OBVIOUS
      <3>. QED  BY <3>1, <3>2
    <2>. QED  BY <1>3, <2>1, <2>2 DEF Validates
  <1>4. CASE Pipes
    <2>1. Chain(n + 1, k, j)' /\ n + 1 \in Nat
      BY <1>4, ChainPipes
    <2>. QED  BY <2>1
  <1>5. CASE Opened
    <2>1. Chain(0, 0, 0)' /\ 0 \in Nat
      BY <1>5, ChainOpened
    <2>. QED  BY <2>1
  <1>6. CASE Accepts
    <2>1. Chain(n, k + 1, j)' \/ Chain(n, k + 1, j + 1)'
      BY <1>6, ChainAccepts
    <2>2. k + 1 \in Nat /\ j + 1 \in Nat
      OBVIOUS
    <2>. QED  BY <2>1, <2>2
  <1>. QED  BY <1>1, <1>2, <1>3, <1>4, <1>5, <1>6

\* What is delivered next follows what was delivered last.
LEMMA NextIsNext ==
  ASSUME TypeOK, MapInv, Tracked, Accepts, delivered # <<>>,
         NEW n \in Nat, NEW k \in Nat, NEW j \in Nat, Chain(n, k, j)
  PROVE  Head(d2a).payload = delivered[Len(delivered)] + 1
  <1>1. k + 1 \in 1..n /\ k + 1 \in DOMAIN pipelineMap /\ Head(d2a) = pipelineMap[k + 1]
    BY AcceptsNext
  <1>2. pipelineMap[k + 1].payload + n = Piped + (k + 1)
    BY <1>1 DEF Chain, Carries
  <1>3. delivered[Len(delivered)] + n = Piped + k
    BY DEF Chain, Delivers
  <1>4. /\ pipelineMap[k + 1].payload \in Nat /\ delivered[Len(delivered)] \in Nat
        /\ Piped \in Int
    <2>1. pipelineMap[k + 1] \in Requests
      BY <1>1, Wires
    <2>2. delivered \in Seq(Nat)
      BY Fields
    <2>3. delivered[Len(delivered)] \in Nat
      BY <2>2
    <2>4. Piped \in Int
      BY DEF TypeOK, ChannelTypeOK, Piped
    <2>. QED  BY <2>1, <2>3, <2>4, Fields
  <1>. QED  BY <1>1, <1>2, <1>3, <1>4

\* Every move keeps Consecutive.
LEMMA ConsecutiveStep ==
  ASSUME TypeOK, MapInv, Tracked, Consecutive,
         NEW n \in Nat, NEW k \in Nat, NEW j \in Nat, Chain(n, k, j),
         \/ Idles \/ Opens \/ Recovers \/ Validates \/ Pipes \/ Takes \/ Sends
         \/ Opened \/ Synced \/ Accepts \/ Passes
  PROVE  Consecutive'
  <1>1. CASE Accepts
    <2>. DEFINE p == Head(d2a).payload
    <2>1. delivered' = Append(delivered, p)
      BY <1>1 DEF Accepts
    <2>2. delivered \in Seq(Nat) /\ p \in Nat
      <3>1. Head(d2a) \in Requests
        BY <1>1, Wires, HeadAndTail DEF Accepts
      <3>. QED  BY <3>1, Fields
    <2>3. delivered # <<>> => p = delivered[Len(delivered)] + 1
      BY <1>1, NextIsNext
    <2>. HIDE DEF p
    <2>4. CASE delivered = <<>>
      <3>1. Len(delivered') = 1 /\ DOMAIN delivered' = 1..1
        BY <2>1, <2>2, <2>4
      <3>2. delivered'[1] \in Nat
        BY <2>1, <2>2, <2>4
      <3>3. \A i \in 1..1 : i = 1
        OBVIOUS
      <3>. QED  BY <3>1, <3>2, <3>3 DEF Consecutive
    <2>5. CASE delivered # <<>>
      <3>. DEFINE l == Len(delivered)
      <3>1. /\ l \in Nat \ {0} /\ DOMAIN delivered = 1..l
                 /\ DOMAIN delivered' = 1..(l + 1)
            /\ \A i \in 1..l : delivered'[i] = delivered[i] /\ delivered[i] \in Nat
            /\ delivered'[l + 1] = p
        BY <2>1, <2>2, <2>5
      <3>. HIDE DEF l
      <3>2. p = delivered[1] + (l - 1) + 1 /\ l \in 1..l /\ 1 \in 1..l
        BY SMTT(30), <2>3, <2>5, <3>1 DEF Consecutive, l
      <3>3. ASSUME NEW i \in 1..(l + 1)
            PROVE  delivered'[i] = delivered'[1] + (i - 1)
        <4>1. CASE i \in 1..l
          BY <3>1, <3>2, <4>1 DEF Consecutive
        <4>2. CASE i = l + 1
          BY <3>1, <3>2, <4>2
        <4>3. i \in 1..l \/ i = l + 1
          BY <3>1
        <4>. QED  BY <4>1, <4>2, <4>3
      <3>. QED  BY <3>1, <3>3 DEF Consecutive
    <2>. QED  BY <2>4, <2>5
  <1>2. CASE ~Accepts
    <2>1. delivered' = delivered
      BY <1>2 DEF Idles, Opens, Recovers, Validates, Pipes, Takes, Sends, Opened, Synced,
         Passes, agentVars
    <2>. QED  BY <2>1 DEF Consecutive
  <1>. QED  BY <1>1, <1>2

\* The chain at the start: empty, whether the daemon opens a channel or attaches to one.
LEMMA FlowInit ==
  ASSUME Init  PROVE FlowInv
  <1>1. /\ pipelineMap = <<>> /\ d2a = <<>> /\ hand = <<>> /\ delivered = <<>>
        /\ ~handshakeDone /\ ~recovering /\ nextId = 2 /\ lastAckedData = NoHash
        /\ taken = 0 /\ zapHolds = FALSE /\ lastAck = NoAck
        /\ expected = AckHash(lastData, FALSE)
        /\ lastData \in {1, NoHash}
        /\ a2d = <<>> \/ a2d = <<DataAckMsg(1, FALSE)>>
    BY ChannelAssumption DEF Init, MrtapInit, ChannelInit, AgentInit
  <1>2. DOMAIN pipelineMap = {} /\ DOMAIN d2a = {} /\ DOMAIN hand = {}
          /\ DOMAIN delivered = {}
        /\ Len(pipelineMap) = 0
    BY <1>1
  <1>3. StartInv /\ Tracked /\ Consecutive
    <2>1. lastData < nextId /\ expected.of < nextId /\ lastAck.of < nextId
      BY <1>1 DEF AckHash, NoAck, NoHash
    <2>. QED  BY <1>1, <1>2, <2>1 DEF StartInv, Tracked, Consecutive
  <1>4. Ids(pipelineMap) = {}
    BY <1>2 DEF Ids
  <1>5. \A i \in DOMAIN a2d : a2d[i].type # "SynAck"
    <2>1. CASE a2d = <<>>
      BY <2>1
    <2>2. CASE a2d = <<DataAckMsg(1, FALSE)>>
      <3>1. DataAckMsg(1, FALSE).type = "DataAck"
        BY DEF DataAckMsg
      <3>2. ASSUME NEW r  PROVE \A i \in DOMAIN <<r>> : <<r>>[i] = r
        OBVIOUS
      <3>. QED  BY <2>2, <3>1, <3>2
    <2>. QED  BY <1>1, <2>1, <2>2
  <1>6. \A c \in 1..0 : FALSE
    OBVIOUS
  <1>7. Carries(0) /\ Links(0, 0)
    <2>1. 0 <= Piped
      BY <1>1 DEF Piped
    <2>. QED  BY <1>2, <1>6, <2>1 DEF Carries, Links
  <1>8. Acks(0, 0)
    BY <1>4, <1>5, <1>6 DEF Acks
  <1>9. Delivers(0, 0)
    BY <1>1 DEF Delivers
  <1>10. Chain(0, 0, 0)
    BY <1>2, <1>7, <1>8, <1>9 DEF Chain
  <1>11. 0 \in Nat
    OBVIOUS
  <1>. QED  BY <1>3, <1>10, <1>11 DEF FlowInv

\* Every step keeps FlowInv.
LEMMA FlowStep ==
  ASSUME TypeOK, TypeOK', MapInv, MapInv', HandshakeInv, FlowInv, [Next]_vars,
         AgentVersion = "2.1+", "pluginFails" \notin Env
  PROVE  FlowInv'
  <1>1. StartInv /\ Tracked /\ OpeningInv
    BY DEF FlowInv, MapInv
  <1>2. \/ Idles \/ Opens \/ Recovers \/ Validates \/ Pipes \/ Takes \/ Sends
        \/ Opened \/ Synced \/ Accepts \/ Passes
    BY <1>1, DaemonMoves, AgentDoes
  <1>3. StartInv' /\ Tracked'
    BY <1>1, <1>2, StartStep, TrackedStep
  <1>4. ASSUME ~replyLost'
        PROVE  Consecutive' /\ \E n, k, j \in Nat : Chain(n, k, j)'
    <2>1. ~replyLost
      <3>1. replyLost' = replyLost \/ replyLost' = TRUE
        BY <1>2 DEF Idles, Opens, Recovers, Validates, Pipes, Takes, Sends, Opened,
           Synced,
           Accepts, Passes, daemonSide
      <3>. QED  BY Zenon, <1>4, <3>1
    <2>2. replyLost' = FALSE
      BY Zenon, <1>4 DEF TypeOK, LossTypeOK
    <2>3. Consecutive /\ \E n, k, j \in Nat : Chain(n, k, j)
      BY Zenon, <2>1 DEF FlowInv
    <2>4. PICK n \in Nat, k \in Nat, j \in Nat : Chain(n, k, j)
      BY <2>3
    <2>5. Consecutive'
      BY <1>1, <1>2, <2>3, <2>4, ConsecutiveStep
    <2>6. \E nn, kk, jj \in Nat : Chain(nn, kk, jj)'
      BY <1>1, <1>2, <2>2, <2>4, ChainStep
    <2>. QED  BY <2>5, <2>6
  <1>. QED  BY Zenon, <1>3, <1>4 DEF FlowInv

\* The inductive invariant of the three theorems that follow.
PipeInv == MapInv /\ HandshakeInv /\ FlowInv

\* PipeInv holds at the start,
LEMMA PipeInit ==
  ASSUME Init  PROVE PipeInv
  <1>1. HandshakeInv
    <2>1. ~handshakeDone
      BY Zenon DEF Init, MrtapInit
    <2>. QED  BY <2>1 DEF Init, MrtapInit, HandshakeInv
  <1>. QED  BY <1>1, MapInit, FlowInit DEF PipeInv

\* and every step keeps it.
LEMMA PipeStep ==
  ASSUME TypeOK, TypeOK', PipeInv, [Next]_vars,
         AgentVersion = "2.1+", "pluginFails" \notin Env
  PROVE  PipeInv'
  <1>1. AgentVersion # "1"
    OBVIOUS
  <1>2. MapInv /\ HandshakeInv /\ FlowInv
    BY DEF PipeInv
  <1>3. MapInv'
    BY <1>1, <1>2, MapStep
  <1>4. HandshakeInv'
    BY <1>2, HandshakeStep
  <1>5. FlowInv'
    BY <1>2, <1>3, FlowStep
  <1>. QED  BY <1>3, <1>4, <1>5 DEF PipeInv

\* Whatever is lost on its way to the agent, refused, resent or rebuilt, the
\* agent's plugin receives the payloads in order, each once, and misses none
\* after the first, for as long as no reply of the agent is lost.
THEOREM DeliversContiguously ==
  ASSUME AgentVersion = "2.1+", "pluginFails" \notin Env
  PROVE  Spec => []DeliveredContiguous
  <1>1. Init => PipeInv
    BY PipeInit
  <1>2. TypeOK /\ TypeOK' /\ PipeInv /\ [Next]_vars => PipeInv'
    BY PipeStep
  <1>3. TypeOK /\ PipeInv => DeliveredContiguous
    <2>. SUFFICES ASSUME TypeOK, PipeInv, ~replyLost, NEW i \in 1..(Len(delivered) - 1)
                  PROVE  delivered[i + 1] = delivered[i] + 1
      BY DEF DeliveredContiguous
    <2>1. delivered \in Seq(Nat)
      BY Fields
    <2>2. /\ i \in DOMAIN delivered /\ i + 1 \in DOMAIN delivered
               /\ 1 \in DOMAIN delivered
          /\ i \in Nat
      BY <2>1
    <2>3. delivered[1] \in Nat
      BY <2>1, <2>2
    <2>4. Consecutive
      BY Zenon DEF PipeInv, FlowInv
    <2>5. /\ delivered[i] = delivered[1] + (i - 1)
          /\ delivered[i + 1] = delivered[1] + ((i + 1) - 1)
      BY <2>2, <2>4 DEF Consecutive
    <2>. QED  BY <2>2, <2>3, <2>5
  <1>. QED  BY <1>1, <1>2, <1>3, TypeCorrect, PTL DEF Spec

\* Once the agent's plugin has received a payload, each later one that
\* zapPluginOutput put into Inbox is delivered or still in the pipeline.
THEOREM NothingIsForgotten ==
  ASSUME AgentVersion = "2.1+", "pluginFails" \notin Env
  PROVE  Spec => []NothingForgotten
  <1>1. Init => PipeInv
    BY PipeInit
  <1>2. TypeOK /\ TypeOK' /\ PipeInv /\ [Next]_vars => PipeInv'
    BY PipeStep
  <1>3. TypeOK /\ PipeInv => NothingForgotten
    <2>. SUFFICES ASSUME TypeOK, PipeInv, ~replyLost, delivered # <<>>,
                         NEW p \in Head(delivered)..Piped
                  PROVE  \/ \E i \in DOMAIN delivered : delivered[i] = p
                         \/ \E i \in DOMAIN pipelineMap : pipelineMap[i].payload = p
      BY DEF NothingForgotten, Piped
    <2>1. Consecutive /\ \E n, k, j \in Nat : Chain(n, k, j)
      BY Zenon DEF PipeInv, FlowInv
    <2>2. PICK n \in Nat, k \in Nat, j \in Nat : Chain(n, k, j)
      BY <2>1
    <2>. DEFINE l == Len(delivered)
    <2>3. /\ l \in Nat \ {0} /\ DOMAIN delivered = 1..l /\ Head(delivered) = delivered[1]
          /\ l \in DOMAIN delivered /\ delivered[1] \in Nat /\ delivered[l] \in Nat
      <3>1. delivered \in Seq(Nat)
        BY Fields
      <3>. QED  BY <3>1
    <2>4. delivered[l] + n = Piped + k /\ n <= Len(pipelineMap)
      BY <2>2 DEF Chain, Delivers
    <2>. HIDE DEF l
    <2>5. delivered[l] = delivered[1] + (l - 1)
      BY <2>1, <2>3 DEF Consecutive
    <2>6. Piped \in Int
      BY DEF TypeOK, ChannelTypeOK, Piped
    <2>7. p \in Int /\ delivered[1] <= p /\ p <= Piped
      BY <2>3, <2>6
    <2>8. CASE p <= delivered[l]
      <3>. DEFINE i == p - delivered[1] + 1
      <3>1. i \in 1..l /\ delivered[1] + (i - 1) = p
        BY <2>3, <2>5, <2>7, <2>8
      <3>. HIDE DEF i
      <3>2. delivered[i] = p
        BY <2>1, <2>3, <3>1 DEF Consecutive
      <3>. QED  BY <2>3, <3>1, <3>2
    <2>9. CASE p > delivered[l]
      <3>. DEFINE i == p - Piped + n
      <3>1. i \in 1..n /\ Piped + i = p + n
        BY <2>3, <2>4, <2>6, <2>7, <2>9
      <3>. HIDE DEF i
      <3>2. pipelineMap[i].payload + n = Piped + i
        BY <2>2, <3>1 DEF Chain, Carries
      <3>3. i \in DOMAIN pipelineMap /\ pipelineMap[i] \in Requests
        BY <2>4, <3>1, Wires
      <3>4. pipelineMap[i].payload \in Nat
        BY <3>3, Fields
      <3>5. pipelineMap[i].payload = p
        BY <2>6, <2>7, <3>1, <3>2, <3>4
      <3>. QED  BY <3>3, <3>5
    <2>. QED  BY <2>3, <2>7, <2>8, <2>9
  <1>. QED  BY <1>1, <1>2, <1>3, TypeCorrect, PTL DEF Spec

-----------------------------------------------------------------------------
(* The ordered pipe.                                                       *)

\* What the plugin produced and what zapPluginOutput took of it.
LEMMA ProducedStep ==
  ASSUME TypeOK, [Next]_vars
  PROVE  \/ produced' = produced + 1 /\ UNCHANGED <<taken, delivered>>
         \/ produced' = produced /\ taken' = taken
         \/ produced' = produced /\ taken < produced /\ taken' = taken + 1
  <1>1. CASE DaemonStep(MainStep)
    BY <1>1 DEF DaemonStep, MainStep, Start, HandshakeError, HandshakeAck,
       HandshakeBadMessage,
       HandshakeDying, ReceiveAck, ReceiveError, ReceiveFatal, ReceiveStream, Die,
       DrainCheck,
       DrainTimeout, channelVars, daemonVars
  <1>2. CASE DaemonStep(TimerStep) \/ DaemonStep(SenderStep)
    BY <1>2 DEF DaemonStep, TimerStep, SenderStep, HandshakeTimeout, IdleTimeout,
       TakeOutbox,
       SendOrDrop
  <1>3. CASE DaemonStep(ZapStep) \/ DaemonStep(PluginOutput) \/ DaemonStep(PluginDone)
             \/ DaemonStep(PluginReturns)
    BY <1>3 DEF DaemonStep, ZapStep, TakeOutput, PipeOutput, PluginOutput, PluginDone,
       PluginReturns, ReceiveReturns, KillReturns, agentVars
  <1>4. CASE DaemonStep(Close) \/ DaemonStep(SharedRefresh) \/ LoseRequest
          \/ LoseReply \/ Expire
    BY <1>4 DEF DaemonStep, Close, SharedRefresh, LoseRequest, LoseReply, Expire,
       channelVars,
       daemonVars
  <1>5. CASE AgentStep(AgentMessage) \/ AgentStep(AgentEvent) \/ UNCHANGED vars
    BY <1>5 DEF AgentStep, daemonVars, channelVars, vars
  <1>. QED  BY <1>1, <1>2, <1>3, <1>4, <1>5 DEF Next

\* With no reply lost, every step is a step of the ordered pipe.
CountInv == taken <= produced /\ replyLost = FALSE

\* Every step keeps CountInv.
LEMMA CountStep ==
  ASSUME TypeOK, CountInv, [Next]_vars, "loseReply" \notin Env
  PROVE  CountInv'
  <1>1. taken \in Nat /\ produced \in Nat
    BY DEF TypeOK, ChannelTypeOK
  <1>2. taken' <= produced'
    BY <1>1, ProducedStep DEF CountInv
  <1>3. replyLost' = replyLost
    BY DEF Next, DaemonStep, AgentStep, LoseRequest, LoseReply, Expire, vars, lossVars
  <1>. QED  BY <1>2, <1>3 DEF CountInv

\* Every step is a step of the ordered pipe or leaves it alone.
LEMMA PipeMoves ==
  ASSUME TypeOK, PipeInv, CountInv, [Next]_vars,
         AgentVersion = "2.1+", "pluginFails" \notin Env
  PROVE  [Pipe!PipeNext]_<<produced, delivered>>
  <1>1. StartInv /\ Tracked /\ OpeningInv /\ MapInv
    BY DEF PipeInv, FlowInv, MapInv
  <1>2. \/ Idles \/ Opens \/ Recovers \/ Validates \/ Pipes \/ Takes \/ Sends
        \/ Opened \/ Synced \/ Accepts \/ Passes
    BY <1>1, DaemonMoves, AgentDoes
  <1>3. CASE produced' = produced + 1 /\ UNCHANGED <<taken, delivered>>
    BY <1>3 DEF Pipe!PipeNext, Pipe!Submit
  <1>4. CASE produced' = produced
    <2>1. CASE ~Accepts
      <3>1. delivered' = delivered
        BY <1>2, <2>1 DEF Idles, Opens, Recovers, Validates, Pipes, Takes, Sends,
           Opened, Synced,
           Passes, agentVars
      <3>. QED  BY <1>4, <3>1
    <2>2. CASE Accepts
      <3>1. \E n, k, j \in Nat : Chain(n, k, j)
        BY Zenon DEF PipeInv, FlowInv, CountInv
      <3>2. PICK n \in Nat, k \in Nat, j \in Nat : Chain(n, k, j)
        BY <3>1
      <3>. DEFINE p == Head(d2a).payload
      <3>3. delivered' = Append(delivered, p)
        BY <2>2 DEF Accepts
      <3>4. delivered # <<>> => p = delivered[Len(delivered)] + 1
        BY <1>1, <2>2, <3>2, NextIsNext
      <3>5. p \in 1..produced
        <4>1. k + 1 \in 1..n /\ k + 1 \in DOMAIN pipelineMap
                /\ Head(d2a) = pipelineMap[k + 1]
          BY <1>1, <2>2, <3>2, AcceptsNext
        <4>2. p + n = Piped + (k + 1) /\ n <= Piped
          BY <3>2, <4>1 DEF Chain, Carries
        <4>3. p \in Nat
          BY SMTT(30), <4>1, Wires, Fields
        <4>4. Piped \in Int /\ Piped <= produced /\ produced \in Nat
          BY DEF TypeOK, ChannelTypeOK, Piped, CountInv
        <4>. HIDE DEF p
        <4>. QED  BY <4>1, <4>2, <4>3, <4>4
      <3>. HIDE DEF p
      <3>. QED  BY <1>4, <3>3, <3>4, <3>5 DEF Pipe!PipeNext, Pipe!HandOver
    <2>. QED  BY <2>1, <2>2
  <1>. QED  BY <1>3, <1>4, ProducedStep

\* The channel implements the ordered pipe, as long as no reply of the agent is
\* lost and its plugin does not fail: the plugin at the far end receives what
\* the near one produced, in order, nothing twice, nothing else and nothing
\* skipped after the first.
THEOREM ChannelIsPipe ==
  ASSUME AgentVersion = "2.1+", "pluginFails" \notin Env, "loseReply" \notin Env
  PROVE  Spec => ImplementsPipe
  <1>1. Init => PipeInv /\ CountInv /\ Pipe!PipeInit
    <2>. SUFFICES ASSUME Init  PROVE PipeInv /\ CountInv /\ Pipe!PipeInit
      OBVIOUS
    <2>1. taken = 0 /\ produced = 0 /\ delivered = <<>>
      BY DEF Init, ChannelInit, AgentInit
    <2>2. replyLost = FALSE
      BY Zenon DEF Init
    <2>3. CountInv
      BY <2>1, <2>2 DEF CountInv
    <2>. QED  BY <2>1, <2>3, PipeInit DEF Pipe!PipeInit
  <1>2. TypeOK /\ TypeOK' /\ PipeInv /\ CountInv /\ [Next]_vars => PipeInv' /\ CountInv'
    BY PipeStep, CountStep
  <1>3. TypeOK /\ PipeInv /\ CountInv /\ [Next]_vars =>
          [Pipe!PipeNext]_<<produced, delivered>>
    BY PipeMoves
  <1>. QED  BY <1>1, <1>2, <1>3, TypeCorrect, PTL
            DEF Spec, ImplementsPipe, Pipe!PipeSpec

-----------------------------------------------------------------------------
(* A mute channel: how much it answers into an outputChan nobody reads.    *)

\* The requests a mute agent has answered are at most those of the pipeline from
\* place c + 1 to place c + queued: what is still under way was built later, and
\* what the agent answered aloud, before, was built earlier.
Behind(c) ==
  /\ c + queued <= Len(pipelineMap)
  /\ Sent(pipelineMap[c + queued].id)
  /\ \A i \in DOMAIN hand : pipelineMap[c + queued].id < hand[i].id
  /\ \A i \in DOMAIN d2a : d2a[i].id = 0 \/ pipelineMap[c + queued].id < d2a[i].id
  /\ \A i \in DOMAIN a2d : a2d[i].of < pipelineMap[c + 1].id

MuteInv ==
  /\ aState = "open" => queued = 0
  /\ aState = "mute" /\ queued > 0 => \E c \in Nat : Behind(c)

\* The agent opens a channel,
Reopens == aState' = "open" /\ queued' = 0

\* answers into the outputChan of a mute one,
Queues ==
  /\ aState = "mute" /\ aState' = "mute" /\ queued' = queued + 1
  /\ d2a # <<>> /\ d2a' = Tail(d2a) /\ a2d' = a2d
  /\ Head(d2a).type \in {"Syn", "Data"}

\* or does neither.
Leaves ==
  /\ queued' = queued
  /\ \/ aState' = aState
     \/ aState = "open" /\ aState' = "mute"
     \/ aState' \notin {"open", "mute"}
  /\ aState = "mute" /\ aState' = "mute" => a2d' = a2d
  /\ \A i \in DOMAIN d2a' : \E c \in DOMAIN d2a : d2a'[i] = d2a[c]

\* The agent's steps, as far as a mute channel goes.
LEMMA AgentQueues ==
  ASSUME TypeOK, AgentStep(AgentMessage) \/ AgentStep(AgentEvent) \/ LoseRequest
  PROVE  /\ UNCHANGED daemonSide /\ NoOlder
         /\ Reopens \/ Queues \/ Leaves
  <1>a. UNCHANGED daemonSide
    BY DEF AgentStep, LoseRequest, daemonVars, mrtapVars, channelVars, lossVars,
       daemonSide
  <1>b. NoOlder
    <2>1. nextId' = nextId /\ outbox' = outbox
      BY <1>a DEF daemonSide
    <2>. QED  BY <2>1, Wires DEF NoOlder
  <1>c. ASSUME d2a' = d2a \/ (d2a # <<>> /\ d2a' = Tail(d2a))
               \/ \E c \in DOMAIN d2a : d2a' = SubSeq(d2a, c + 1, Len(d2a))
        PROVE  \A i \in DOMAIN d2a' : \E c \in DOMAIN d2a : d2a'[i] = d2a[c]
    <2>1. d2a \in Seq(Requests)
      BY Wires
    <2>2. CASE d2a' = d2a
      BY <2>2
    <2>3. CASE d2a # <<>> /\ d2a' = Tail(d2a)
      BY <2>1, <2>3, TailIs
    <2>4. CASE \E c \in DOMAIN d2a : d2a' = SubSeq(d2a, c + 1, Len(d2a))
      <3>1. PICK c \in DOMAIN d2a : d2a' = SubSeq(d2a, c + 1, Len(d2a))
        BY <2>4
      <3>2. c \in 0..Len(d2a)
        BY <2>1
      <3>3. \A i \in DOMAIN d2a' : i + c \in DOMAIN d2a /\ d2a'[i] = d2a[i + c]
        BY <2>1, <3>1, <3>2, EndIs
      <3>. QED  BY <3>3
    <2>. QED  BY <1>c, <2>2, <2>3, <2>4
  <1>. SUFFICES Reopens \/ Queues \/ Leaves
    BY <1>a, <1>b
  <1>1. CASE AgentStep(AgentMessage)
    <2>1. CASE OpenAccepted(expired)
      BY <2>1 DEF OpenAccepted, Reopens
    <2>2. CASE OpenRefused(expired)
      <3>1. aState' = "none" /\ queued' = queued /\ d2a # <<>> /\ d2a' = Tail(d2a)
        BY <2>2 DEF OpenRefused, OpenReceived
      <3>. QED  BY <1>c, <3>1 DEF Leaves
    <2>3. CASE SynAccepted(expired, NonceChecked) \/ SynRefused(expired)
               \/ DataFailed(expired) \/ DataRefused(expired)
               \/ \E resp \in BOOLEAN : DataAccepted(expired, resp)
      <3>1. /\ d2a # <<>> /\ d2a' = Tail(d2a) /\ aState' = aState
            /\ Head(d2a).type \in {"Syn", "Data"}
            /\ \/ aState = "mute" /\ queued' = queued + 1 /\ a2d' = a2d
               \/ aState # "mute" /\ queued' = queued
        BY <2>3 DEF SynAccepted, SynRefused, DataFailed, DataRefused, DataAccepted,
           SynReceived, DataReceived, Reply
      <3>. QED  BY <1>c, <3>1 DEF Queues, Leaves
    <2>4. CASE Unread
      <3>1. /\ d2a # <<>> /\ d2a' = Tail(d2a) /\ aState' = aState /\ queued' = queued
            /\ a2d' = a2d
        BY <2>4 DEF Unread, agentVars
      <3>. QED  BY <1>c, <3>1 DEF Leaves
    <2>. QED  BY <1>1, <2>1, <2>2, <2>3, <2>4 DEF AgentStep, AgentMessage
  <1>2. CASE AgentStep(AgentEvent) \/ LoseRequest
    <2>1. /\ queued' = queued
          /\ d2a' = d2a \/ (d2a # <<>> /\ d2a' = Tail(d2a))
             \/ \E c \in DOMAIN d2a : d2a' = SubSeq(d2a, c + 1, Len(d2a))
          /\ \/ aState' = aState
             \/ aState = "open" /\ aState' = "mute"
             \/ aState' \notin {"open", "mute"}
          /\ aState = "mute" /\ aState' = "mute" => a2d' = a2d
      BY <1>2 DEF AgentStep, AgentEvent, LoseRequest, AgentStream, AgentPluginDone,
         CloseReceived, AgentOrphaned, agentVars, wireVars
    <2>. QED  BY <1>c, <2>1 DEF Leaves
  <1>. QED  BY <1>1, <1>2

\* Behind is kept by what leaves the places up to c + queued alone and sends what
\* was built later.
LEMMA BehindKept ==
  ASSUME TypeOK, NoOlder, NEW c \in Nat, Behind(c), queued > 0, queued' = queued,
         NEW o \in Nat, c + queued <= Len(pipelineMap) /\ o + queued <= Len(pipelineMap'),
         pipelineMap'[o + queued] = pipelineMap[c + queued],
         pipelineMap'[o + 1] = pipelineMap[c + 1],
         \A i \in DOMAIN hand' : \/ \E b \in DOMAIN hand : hand'[i] = hand[b]
                                 \/ \E b \in DOMAIN outbox : hand'[i] = outbox[b],
         \A i \in DOMAIN d2a' : \/ \E b \in DOMAIN d2a : d2a'[i] = d2a[b]
                                \/ \E b \in DOMAIN hand : d2a'[i] = hand[b]
                                \/ d2a'[i].id = 0 \/ d2a'[i].id = nextId,
         \A i \in DOMAIN a2d' : \E b \in DOMAIN a2d : a2d'[i] = a2d[b]
  PROVE  Behind(o)'
  <1>. DEFINE id == pipelineMap[c + queued].id
  <1>1. id \in Nat /\ Sent(id)
    <2>1. queued \in Nat
      BY DEF TypeOK, AgentTypeOK
    <2>2. c + queued \in DOMAIN pipelineMap
      BY <2>1, Wires
    <2>. QED  BY <2>2, Wires DEF Behind
  <1>2. StaysSent(id)
    BY <1>1, SentKept
  <1>3. pipelineMap'[o + queued'].id = id /\ pipelineMap'[o + 1].id = pipelineMap[c + 1].id
    OBVIOUS
  <1>. HIDE DEF id
  <1>4. Sent(pipelineMap[o + queued].id)'
    BY <1>2, <1>3 DEF Sent, StaysSent
  <1>5. \A i \in DOMAIN hand' : pipelineMap'[o + queued'].id < hand'[i].id
    <2>1. \A b \in DOMAIN outbox : id < outbox[b].id
      BY <1>1 DEF Sent
    <2>2. \A b \in DOMAIN hand : id < hand[b].id
      BY DEF Behind, id
    <2>. QED  BY <1>3, <2>1, <2>2
  <1>6. \A i \in DOMAIN d2a' :
          d2a'[i].id = 0 \/ pipelineMap'[o + queued'].id < d2a'[i].id
    <2>1. \A b \in DOMAIN d2a : d2a[b].id = 0 \/ id < d2a[b].id
      BY DEF Behind, id
    <2>2. \A b \in DOMAIN hand : id < hand[b].id
      BY DEF Behind, id
    <2>3. id < nextId
      BY <1>1 DEF Sent
    <2>. QED  BY <1>3, <2>1, <2>2, <2>3
  <1>7. \A i \in DOMAIN a2d' : a2d'[i].of < pipelineMap'[o + 1].id
    BY <1>3 DEF Behind
  <1>. QED  BY <1>4, <1>5, <1>6, <1>7 DEF Behind

\* The requests under way are tracked after a step of the agent too.
LEMMA TrackedAgent ==
  ASSUME Tracked, UNCHANGED daemonSide,
         \A i \in DOMAIN d2a' : \E c \in DOMAIN d2a : d2a'[i] = d2a[c]
  PROVE  Tracked'
  BY DEF Tracked, daemonSide

\* What a mute agent answers is in the pipeline.
LEMMA HeadIsPlaced ==
  ASSUME TypeOK, MapInv, Tracked, d2a # <<>>, Head(d2a).type \in {"Syn", "Data"}
  PROVE  \E p \in DOMAIN pipelineMap : pipelineMap[p].id = Head(d2a).id
  <1>1. 1 \in DOMAIN d2a /\ Head(d2a) = d2a[1]
    BY Wires, TailIs
  <1>2. CASE Head(d2a).type = "Data"
    BY <1>1, <1>2 DEF Tracked
  <1>3. CASE Head(d2a).type = "Syn"
    <2>1. Newest(Head(d2a).id)
      BY <1>1, <1>3 DEF MapInv, SynInv, IsSyn
    <2>2. Len(pipelineMap) \in DOMAIN pipelineMap
      BY <2>1, Wires DEF Newest
    <2>. QED  BY <2>1, <2>2 DEF Newest
  <1>. QED  BY <1>2, <1>3

\* The pipeline holds a window of Data and a Syn at most.
LEMMA PipelineBound ==
  ASSUME TypeOK, LengthInv, MaxSynRetries < PipelineLimit
  PROVE  Len(pipelineMap) <= PipelineLimit + 1
  <1>1. /\ PipelineLimit \in Nat \ {0} /\ MaxSynRetries \in Nat /\ retries \in Nat
        /\ Len(pipelineMap) \in Nat
    BY MrtapAssumption, ChannelAssumption, Wires
  <1>2. \/ Len(pipelineMap) <= PipelineLimit \/ Len(pipelineMap) <= retries + 1
        \/ Len(pipelineMap) <= PipelineLimit + 1
    BY Zenon DEF LengthInv, Opening
  <1>3. retries <= MaxSynRetries
    BY DEF LengthInv
  <1>. QED  BY <1>1, <1>2, <1>3

\* A mute agent answers one more request.
LEMMA MuteQueues ==
  ASSUME TypeOK, MapInv, Tracked, LengthInv, MaxSynRetries < PipelineLimit, MuteInv,
         Queues, UNCHANGED daemonSide
  PROVE  MuteInv'
  <1>a. /\ pipelineMap \in Seq(Requests) /\ d2a \in Seq(Requests) /\ a2d \in Seq(Replies)
        /\ hand \in Seq(Requests) /\ \A m \in Requests : m.id \in Nat
        /\ \A r \in Replies : r.of \in Nat
    BY Wires
  <1>b. queued \in Nat /\ PipelineLimit \in Nat /\ Len(pipelineMap) \in Nat
        /\ DOMAIN pipelineMap = 1..Len(pipelineMap)
    BY <1>a, MrtapAssumption DEF TypeOK, AgentTypeOK
  <1>c. /\ aState = "mute" /\ aState' = "mute" /\ queued' = queued + 1
        /\ d2a # <<>> /\ d2a' = Tail(d2a) /\ a2d' = a2d
        /\ Head(d2a).type \in {"Syn", "Data"}
    BY DEF Queues
  <1>d. UNCHANGED <<pipelineMap, outbox, nextId, hand>>
    BY DEF daemonSide
  <1>e. 1 \in DOMAIN d2a /\ Head(d2a) = d2a[1]
        /\ \A i \in DOMAIN d2a' : i + 1 \in DOMAIN d2a /\ d2a'[i] = d2a[i + 1] /\ i \in Nat \ {0}
    BY <1>a, <1>c, TailIs
  <1>1. PICK p \in DOMAIN pipelineMap : pipelineMap[p].id = Head(d2a).id
    BY <1>c, HeadIsPlaced
  <1>2. pipelineMap[p].id \in Nat /\ 0 < pipelineMap[p].id /\ p \in 1..Len(pipelineMap)
    BY <1>a, <1>b DEF MapInv, QueueInv, Ascends
  <1>3. /\ Sent(pipelineMap[p].id)
        /\ \A i \in DOMAIN hand : pipelineMap[p].id < hand[i].id
        /\ \A i \in DOMAIN d2a' : d2a'[i].id = 0 \/ pipelineMap[p].id < d2a'[i].id
        /\ \A i \in DOMAIN a2d : a2d[i].of < pipelineMap[p].id
    <2>1. Sent(pipelineMap[p].id)
      BY <1>1, <1>e DEF MapInv, SentInv
    <2>2. \A i \in DOMAIN hand : pipelineMap[p].id < hand[i].id
      BY <1>1, <1>e DEF MapInv, RisingInv
    <2>3. \A i \in DOMAIN d2a' : d2a'[i].id = 0 \/ pipelineMap[p].id < d2a'[i].id
      <3>1. \A i \in DOMAIN d2a' : i + 1 \in DOMAIN d2a /\ 1 < i + 1
        BY <1>e
      <3>. QED  BY <1>1, <1>e, <3>1 DEF MapInv, RisingInv
    <2>4. \A i \in DOMAIN a2d : a2d[i].of < pipelineMap[p].id
      <3>1. Head(d2a).id # 0
        BY <1>1, <1>2
      <3>. QED  BY <1>1, <1>e, <3>1 DEF MapInv, RisingInv
    <2>. QED  BY <2>1, <2>2, <2>3, <2>4
  \* what it answered before is before this one
  <1>4. \E c \in Nat : /\ c + (queued + 1) = p
                       /\ \A i \in DOMAIN a2d : a2d[i].of < pipelineMap[c + 1].id
    <2>1. CASE queued = 0
      <3>1. (p - 1) \in Nat /\ (p - 1) + (queued + 1) = p /\ (p - 1) + 1 = p
        BY <1>2, <2>1
      <3>. QED  BY <1>3, <3>1
    <2>2. CASE queued > 0
      <3>1. PICK c \in Nat : Behind(c)
        BY <1>c, <2>2 DEF MuteInv
      <3>2. /\ c + queued <= Len(pipelineMap)
            /\ \A i \in DOMAIN d2a :
                 d2a[i].id = 0 \/ pipelineMap[c + queued].id < d2a[i].id
            /\ \A i \in DOMAIN a2d : a2d[i].of < pipelineMap[c + 1].id
        BY <3>1 DEF Behind
      <3>3. c + queued \in DOMAIN pipelineMap /\ c + 1 \in DOMAIN pipelineMap
            /\ c + 1 <= c + queued
        BY <1>b, <2>2, <3>2
      <3>4. pipelineMap[c + queued].id < pipelineMap[p].id
        BY <1>1, <1>2, <1>e, <3>2
      <3>5. c + queued < p
        <4>1. ASSUME p < c + queued PROVE pipelineMap[p].id < pipelineMap[c + queued].id
          BY <3>3, <4>1 DEF MapInv, QueueInv, Ascends
        <4>2. pipelineMap[c + queued].id \in Nat
          BY <1>a, <3>3
        <4>. QED  BY <1>2, <1>b, <3>4, <4>1, <4>2
      <3>. DEFINE o == p - (queued + 1)
      <3>6. o \in Nat /\ o + (queued + 1) = p /\ c + 1 <= o + 1 /\ o + 1 \in DOMAIN pipelineMap
        BY <1>2, <1>b, <3>5
      <3>. HIDE DEF o
      <3>7. \A i \in DOMAIN a2d : a2d[i].of < pipelineMap[o + 1].id
        <4>1. c + 1 < o + 1 => pipelineMap[c + 1].id < pipelineMap[o + 1].id
          BY <3>3, <3>6 DEF MapInv, QueueInv, Ascends
        <4>2. c + 1 = o + 1 \/ c + 1 < o + 1
          BY <3>6
        <4>3. pipelineMap[c + 1].id \in Nat /\ pipelineMap[o + 1].id \in Nat
              /\ \A i \in DOMAIN a2d : a2d[i].of \in Nat
          BY <1>a, <3>3, <3>6
        <4>. QED  BY <3>2, <4>1, <4>2, <4>3
      <3>. QED  BY <3>6, <3>7
    <2>. QED  BY <1>b, <2>1, <2>2
  <1>5. PICK c \in Nat : /\ c + (queued + 1) = p
                         /\ \A i \in DOMAIN a2d : a2d[i].of < pipelineMap[c + 1].id
    BY <1>4
  <1>6. c + queued' = p /\ p <= Len(pipelineMap)
    BY <1>2, <1>5, <1>c
  <1>7. Behind(c)'
    <2>1. (c + queued <= Len(pipelineMap))' /\ pipelineMap'[c + queued'] = pipelineMap[p]
      BY <1>6, <1>d
    <2>2. Sent(pipelineMap[c + queued].id)'
      BY <1>3, <1>d, <2>1 DEF Sent
    <2>3. /\ \A i \in DOMAIN hand' : pipelineMap'[c + queued'].id < hand'[i].id
          /\ \A i \in DOMAIN d2a' :
               d2a'[i].id = 0 \/ pipelineMap'[c + queued'].id < d2a'[i].id
          /\ \A i \in DOMAIN a2d' : a2d'[i].of < pipelineMap'[c + 1].id
      BY <1>3, <1>5, <1>c, <1>d, <2>1
    <2>. QED  BY <2>1, <2>2, <2>3 DEF Behind
  <1>. QED  BY <1>7, <1>c DEF MuteInv

\* A step of the daemon that leaves the front of the pipeline in place.
LEMMA MuteAppends ==
  ASSUME TypeOK, NoOlder, MuteInv, UNCHANGED agentVars,
         Len(pipelineMap') \in Nat, Len(pipelineMap) <= Len(pipelineMap'),
         \A i \in DOMAIN pipelineMap : pipelineMap'[i] = pipelineMap[i],
         \A i \in DOMAIN hand' : \/ \E b \in DOMAIN hand : hand'[i] = hand[b]
                                 \/ \E b \in DOMAIN outbox : hand'[i] = outbox[b],
         \A i \in DOMAIN d2a' : \/ \E b \in DOMAIN d2a : d2a'[i] = d2a[b]
                                \/ \E b \in DOMAIN hand : d2a'[i] = hand[b]
                                \/ d2a'[i].id = 0 \/ d2a'[i].id = nextId,
         \A i \in DOMAIN a2d' : \E b \in DOMAIN a2d : a2d'[i] = a2d[b]
  PROVE  MuteInv'
  <1>a. /\ queued' = queued /\ aState' = aState /\ queued \in Nat
        /\ pipelineMap \in Seq(Requests) /\ Len(pipelineMap) \in Nat
        /\ DOMAIN pipelineMap = 1..Len(pipelineMap)
    BY Wires DEF agentVars, TypeOK, AgentTypeOK
  <1>1. ASSUME aState = "mute", queued > 0  PROVE \E c \in Nat : Behind(c)'
    <2>1. PICK c \in Nat : Behind(c)
      BY <1>1 DEF MuteInv
    <2>2. c + queued <= Len(pipelineMap) /\ c + queued <= Len(pipelineMap')
      BY <1>a, <2>1 DEF Behind
    <2>3. c + queued \in DOMAIN pipelineMap /\ c + 1 \in DOMAIN pipelineMap
      BY <1>1, <1>a, <2>2
    <2>4. Behind(c)'
      BY <1>1, <1>a, <2>1, <2>2, <2>3, BehindKept
    <2>. QED  BY <2>4
  <1>. QED  BY <1>1, <1>a DEF MuteInv

\* An ack of a message the agent answered aloud: it is before the place.
LEMMA MuteAcked ==
  ASSUME TypeOK, MapInv, MuteInv, NoOlder, Validates
  PROVE  MuteInv'
  <1>a. /\ pipelineMap \in Seq(Requests) /\ a2d \in Seq(Replies)
        /\ \A m \in Requests : m.id \in Nat
        /\ \A r \in Replies : r.of \in Nat
    BY Wires
  <1>b. /\ a2d # <<>> /\ a2d' = Tail(a2d) /\ UNCHANGED <<d2a, hand, agentVars>>
        /\ ValidateSynAck(Head(a2d)) \/ ValidateDataAck(Head(a2d))
    BY DEF Validates
  <1>c. /\ queued' = queued /\ aState' = aState /\ queued \in Nat
        /\ Len(pipelineMap) \in Nat /\ DOMAIN pipelineMap = 1..Len(pipelineMap)
    BY <1>a, <1>b DEF agentVars, TypeOK, AgentTypeOK
  <1>d. /\ 1 \in DOMAIN a2d /\ Head(a2d) = a2d[1]
        /\ \A i \in DOMAIN a2d' : i + 1 \in DOMAIN a2d /\ a2d'[i] = a2d[i + 1]
    BY <1>a, <1>b, TailIs
  <1>2. ASSUME aState = "mute", queued > 0  PROVE \E c \in Nat : Behind(c)'
    <2>1. PICK c \in Nat : Behind(c)
      BY <1>2 DEF MuteInv
    <2>2. /\ c + queued <= Len(pipelineMap) /\ Sent(pipelineMap[c + queued].id)
          /\ Head(a2d).of < pipelineMap[c + 1].id
      BY <1>d, <2>1 DEF Behind
    <2>3. /\ c + queued \in DOMAIN pipelineMap /\ c + 1 \in DOMAIN pipelineMap
          /\ pipelineMap[c + queued].id \in Nat /\ pipelineMap[c + 1].id \in Nat
          /\ c + 1 = c + queued \/ c + 1 < c + queued
      BY <1>2, <1>a, <1>c, <2>2
    <2>4. Head(a2d) \in Replies /\ Sent(Head(a2d).of) /\ Head(a2d).of \in Nat
          /\ (Head(a2d).type = "SynAck" => Newest(Head(a2d).of))
      BY <1>b, HeadIsSent
    <2>5. CASE ValidateSynAck(Head(a2d))
      <3>1. Head(a2d).of = nextId - 1
        BY <2>4, <2>5 DEF ValidateSynAck, Newest
      <3>2. pipelineMap[c + 1].id < nextId /\ nextId \in Nat
        BY <2>3, Wires DEF MapInv, QueueInv, Ascends
      <3>. QED  BY <2>2, <2>3, <2>4, <3>1, <3>2
    <2>6. CASE ValidateDataAck(Head(a2d))
      <3>1. PICK p \in DOMAIN pipelineMap : /\ pipelineMap[p].id = Head(a2d).of
                                            /\ pipelineMap' = RemoveAt(pipelineMap, p)
        BY <1>a, <2>6, IndexOfIsIndex DEF ValidateDataAck, Without
      <3>2. p < c + 1
        <4>1. ASSUME c + 1 < p  PROVE pipelineMap[c + 1].id < pipelineMap[p].id
          BY <2>3, <4>1 DEF MapInv, QueueInv, Ascends
        <4>2. p \in Nat /\ (p < c + 1 \/ p = c + 1 \/ c + 1 < p)
          BY <1>c
        <4>. QED  BY <2>2, <2>3, <2>4, <3>1, <4>1, <4>2
      <3>3. /\ pipelineMap' \in Seq(Requests) /\ Len(pipelineMap') = Len(pipelineMap) - 1
            /\ \A i \in DOMAIN pipelineMap' :
                 pipelineMap'[i] = IF i < p THEN pipelineMap[i] ELSE pipelineMap[i + 1]
        BY <1>a, <3>1, RemoveAtIs
      <3>. DEFINE o == c - 1
      <3>4. /\ o \in Nat /\ o + queued <= Len(pipelineMap') /\ c + queued <= Len(pipelineMap)
            /\ p \in Nat /\ (o + queued) + 1 = c + queued /\ (o + 1) + 1 = c + 1
            /\ ~(o + queued < p) /\ ~(o + 1 < p)
        BY <1>2, <1>c, <2>2, <3>2, <3>3
      <3>. HIDE DEF o
      <3>5. o + queued \in DOMAIN pipelineMap' /\ o + 1 \in DOMAIN pipelineMap'
        <4>1. DOMAIN pipelineMap' = 1..Len(pipelineMap') /\ Len(pipelineMap') \in Nat
          BY <3>3
        <4>2. o + queued \in 1..Len(pipelineMap') /\ o + 1 \in 1..Len(pipelineMap')
          BY <1>2, <1>c, <3>4, <4>1
        <4>. QED  BY <4>1, <4>2
      <3>6. /\ pipelineMap'[o + queued] = pipelineMap[c + queued]
            /\ pipelineMap'[o + 1] = pipelineMap[c + 1]
        <4>1. pipelineMap'[o + queued] = pipelineMap[(o + queued) + 1]
          BY <3>3, <3>4, <3>5
        <4>2. pipelineMap'[o + 1] = pipelineMap[(o + 1) + 1]
          BY <3>3, <3>4, <3>5
        <4>. QED  BY <3>4, <4>1, <4>2
      <3>7. \A i \in DOMAIN a2d' : \E b \in DOMAIN a2d : a2d'[i] = a2d[b]
        BY <1>d
      <3>8. Behind(o)'
        BY <1>2, <1>b, <1>c, <2>1, <3>4, <3>6, <3>7, BehindKept
      <3>. QED  BY <3>4, <3>8
    <2>. QED  BY <1>b, <2>5, <2>6
  <1>. QED  BY <1>2, <1>c DEF MuteInv

\* Every step keeps MuteInv.
LEMMA MuteStep ==
  ASSUME TypeOK, TypeOK', MapInv, MapInv', LengthInv, Tracked, MuteInv, [Next]_vars,
         AgentVersion # "1", MaxSynRetries < PipelineLimit
  PROVE  MuteInv' /\ Tracked'
  <1>a. /\ pipelineMap \in Seq(Requests) /\ outbox \in Seq(Requests) /\ nextId \in Nat
        /\ hand \in Seq(Requests) /\ d2a \in Seq(Requests) /\ a2d \in Seq(Replies)
        /\ pipelineMap' \in Seq(Requests) /\ Len(pipelineMap') \in Nat
        /\ Len(pipelineMap) \in Nat
    BY Wires DEF TypeOK, MrtapTypeOK
  <1>b. queued \in Nat
    BY DEF TypeOK, AgentTypeOK
  <1>c. a2d # <<>> /\ a2d' = Tail(a2d) =>
          \A i \in DOMAIN a2d' : \E b \in DOMAIN a2d : a2d'[i] = a2d[b]
    BY <1>a, TailIs
  <1>1. CASE AgentStep(AgentMessage) \/ AgentStep(AgentEvent) \/ LoseRequest
    <2>1. UNCHANGED daemonSide /\ NoOlder /\ (Reopens \/ Queues \/ Leaves)
      BY <1>1, AgentQueues
    <2>2. Tracked'
      <3>1. Answers \/ Skips
        BY <1>1, AgentMovesOn
      <3>2. \A i \in DOMAIN d2a' : \E c \in DOMAIN d2a : d2a'[i] = d2a[c]
        <4>1. CASE Answers
          BY <1>a, <4>1, TailIs DEF Answers
        <4>2. CASE Skips
          <5>1. PICK c \in 0..Len(d2a) : d2a' = SubSeq(d2a, c + 1, Len(d2a))
            BY <4>2 DEF Skips
          <5>2. \A i \in DOMAIN d2a' : i + c \in DOMAIN d2a /\ d2a'[i] = d2a[i + c]
            BY <1>a, <5>1, EndIs
          <5>. QED  BY <5>2
        <4>. QED  BY <3>1, <4>1, <4>2
      <3>. QED  BY <2>1, <3>2, TrackedAgent
    <2>3. CASE Reopens
      BY <2>2, <2>3 DEF Reopens, MuteInv
    <2>4. CASE Queues
      BY <2>1, <2>2, <2>4, MuteQueues
    <2>5. CASE Leaves
      <3>1. /\ queued' = queued
            /\ \/ aState' = aState
               \/ aState = "open" /\ aState' = "mute"
               \/ aState' \notin {"open", "mute"}
            /\ aState = "mute" /\ aState' = "mute" => a2d' = a2d
            /\ \A i \in DOMAIN d2a' : \E c \in DOMAIN d2a : d2a'[i] = d2a[c]
            /\ UNCHANGED <<pipelineMap, outbox, nextId, hand>>
        BY <2>1, <2>5 DEF Leaves, daemonSide
      <3>3. aState' = "open" => queued' = 0
        BY <3>1 DEF MuteInv
      <3>4. ASSUME aState' = "mute", queued' > 0  PROVE \E c \in Nat : Behind(c)'
        <4>1. aState = "mute" /\ queued > 0
          BY <1>b, <3>1, <3>4 DEF MuteInv
        <4>2. PICK c \in Nat : Behind(c)
          BY <4>1 DEF MuteInv
        <4>3. c + queued <= Len(pipelineMap) /\ c + queued <= Len(pipelineMap')
          BY <3>1, <4>2 DEF Behind
        <4>4. Behind(c)'
          BY <2>1, <3>1, <3>4, <4>1, <4>2, <4>3, BehindKept
        <4>. QED  BY <4>4
      <3>. QED  BY <2>2, <3>3, <3>4 DEF MuteInv
    <2>. QED  BY <2>1, <2>3, <2>4, <2>5
  <1>2. CASE Idles \/ Opens \/ Recovers \/ Validates \/ Pipes \/ Takes \/ Sends
    <2>1. NoOlder
      BY <1>2, QueueStep
    <2>2. Tracked'
      BY <1>2, TrackedStep
    <2>3. CASE Idles
      <3>1. /\ UNCHANGED <<pipelineMap, hand, agentVars>>
            /\ d2a' = d2a \/ d2a' = Append(d2a, CloseMsg)
            /\ a2d' = a2d \/ (a2d # <<>> /\ a2d' = Tail(a2d))
        BY <2>3 DEF Idles
      <3>2. CloseMsg \in Requests /\ CloseMsg.id = 0
        BY DEF CloseMsg, NoAck, NoHash, AckHash, AckHashes, Requests
      <3>3. \A i \in DOMAIN d2a' : (i \in DOMAIN d2a /\ d2a'[i] = d2a[i]) \/ d2a'[i].id = 0
        BY <1>a, <3>1, <3>2, AppendIs
      <3>4. \A i \in DOMAIN a2d' : \E b \in DOMAIN a2d : a2d'[i] = a2d[b]
        BY <1>c, <3>1
      <3>. QED  BY <1>a, <2>1, <2>2, <3>1, <3>3, <3>4, MuteAppends
    <2>4. CASE Opens \/ Recovers
      <3>1. /\ UNCHANGED <<hand, agentVars>> /\ \E send \in BOOLEAN : BuildSyn(send)
            /\ d2a' = d2a \/ d2a' = Append(d2a, OpenMsg(SynMsg(nextId, RefreshedCert)))
            /\ a2d' = a2d \/ (a2d # <<>> /\ a2d' = Tail(a2d))
        BY <2>4, ChannelAssumption DEF Opens, Recovers
      <3>2. PICK syn \in Requests : pipelineMap' = Append(pipelineMap, syn)
        BY <3>1, BuildSynDoes
      <3>3. \A i \in DOMAIN pipelineMap : pipelineMap'[i] = pipelineMap[i]
        BY <1>a, <3>2, AppendKeeps
      <3>4. Len(pipelineMap) <= Len(pipelineMap')
        BY <1>a, <3>2
      <3>5. OpenMsg(SynMsg(nextId, RefreshedCert)) \in Requests
            /\ OpenMsg(SynMsg(nextId, RefreshedCert)).id = nextId
        <4>1. nextId \in Nat /\ RefreshedCert \in Nat
          BY DEF TypeOK, MrtapTypeOK, RefreshedCert
        <4>. QED  BY <4>1, BuiltMessages DEF OpenMsg, SynMsg, NoAck, NoHash, AckHash,
           AckHashes, Requests
      <3>6. \A i \in DOMAIN d2a' : (i \in DOMAIN d2a /\ d2a'[i] = d2a[i])
                                   \/ d2a'[i].id = nextId
        BY <1>a, <3>1, <3>5, AppendIs
      <3>7. \A i \in DOMAIN a2d' : \E b \in DOMAIN a2d : a2d'[i] = a2d[b]
        BY <1>c, <3>1
      <3>. QED  BY <1>a, <2>1, <2>2, <3>1, <3>3, <3>4, <3>6, <3>7, MuteAppends
    <2>5. CASE Validates
      BY <2>1, <2>2, <2>5, MuteAcked
    <2>6. CASE Pipes
      <3>1. UNCHANGED <<d2a, a2d, hand, agentVars>>
        BY <2>6 DEF Pipes, PipeOutput, wireVars
      <3>2. \/ pipelineMap' = pipelineMap
            \/ \E data \in Requests : pipelineMap' = Append(pipelineMap, data)
        BY <2>6, PipesDoes
      <3>3. ASSUME NEW data \in Requests, pipelineMap' = Append(pipelineMap, data)
            PROVE  /\ \A i \in DOMAIN pipelineMap : pipelineMap'[i] = pipelineMap[i]
                   /\ Len(pipelineMap) <= Len(pipelineMap')
        <4>1. \A i \in DOMAIN pipelineMap : pipelineMap'[i] = pipelineMap[i]
          BY <1>a, <3>3, AppendKeeps
        <4>. QED  BY <1>a, <3>3, <4>1
      <3>4. /\ \A i \in DOMAIN pipelineMap : pipelineMap'[i] = pipelineMap[i]
            /\ Len(pipelineMap) <= Len(pipelineMap')
        BY <1>a, <3>2, <3>3
      <3>. QED  BY <1>a, <2>1, <2>2, <3>1, <3>4, MuteAppends
    <2>7. CASE Takes
      <3>1. /\ UNCHANGED <<d2a, a2d, pipelineMap, agentVars>>
            /\ outbox # <<>> /\ hand' = <<Head(outbox)>>
        BY <2>7 DEF Takes
      <3>2. 1 \in DOMAIN outbox /\ Head(outbox) = outbox[1]
        BY <1>a, <3>1, TailIs
      <3>3. \A i \in DOMAIN hand' : hand'[i] = outbox[1]
        BY <3>1, <3>2
      <3>. QED  BY <1>a, <2>1, <2>2, <3>1, <3>2, <3>3, MuteAppends
    <2>8. CASE Sends
      <3>1. /\ UNCHANGED <<a2d, pipelineMap, agentVars>>
            /\ hand # <<>> /\ hand' = <<>>
            /\ d2a' = d2a \/ d2a' = Append(d2a, Head(hand))
        BY <2>8 DEF Sends
      <3>2. 1 \in DOMAIN hand /\ Head(hand) = hand[1] /\ Head(hand) \in Requests
        BY <1>a, <3>1, TailIs, HeadAndTail
      <3>3. \A i \in DOMAIN d2a' : (i \in DOMAIN d2a /\ d2a'[i] = d2a[i])
                                   \/ d2a'[i] = hand[1]
        BY <1>a, <3>1, <3>2, AppendIs
      <3>4. DOMAIN hand' = {}
        BY <3>1
      <3>. QED  BY <1>a, <2>1, <2>2, <3>1, <3>2, <3>3, <3>4, MuteAppends
    <2>. QED  BY <1>2, <2>3, <2>4, <2>5, <2>6, <2>7, <2>8
  <1>. QED  BY <1>1, <1>2, DaemonMoves DEF MapInv

\* What a mute channel has answered is behind the request that waits for it, which
\* is in the pipeline itself: the answers leave room for one more.
LEMMA MuteHasRoom ==
  ASSUME TypeOK, MapInv, LengthInv, Tracked, MuteInv, MaxSynRetries < PipelineLimit
  PROVE  MuteFits
  <1>. SUFFICES ASSUME aState = "mute", d2a # <<>>, Head(d2a).type \in {"Syn", "Data"},
                       late + PipelineLimit < OutputCap
                PROVE  OutputRoom
    BY DEF MuteFits
  <1>a. /\ pipelineMap \in Seq(Requests) /\ d2a \in Seq(Requests)
        /\ \A m \in Requests : m.id \in Nat
    BY Wires
  <1>b. /\ queued \in Nat /\ late \in Nat /\ PipelineLimit \in Nat /\ OutputCap \in Nat
        /\ Len(pipelineMap) \in Nat /\ DOMAIN pipelineMap = 1..Len(pipelineMap)
    BY <1>a, MrtapAssumption, OutputAssumption DEF TypeOK, AgentTypeOK
  <1>1. 1 \in DOMAIN d2a /\ Head(d2a) = d2a[1]
    BY <1>a, TailIs
  <1>2. PICK p \in DOMAIN pipelineMap : pipelineMap[p].id = Head(d2a).id
    BY HeadIsPlaced
  <1>3. pipelineMap[p].id \in Nat /\ 0 < pipelineMap[p].id /\ p \in 1..Len(pipelineMap)
    BY <1>a, <1>b DEF MapInv, QueueInv, Ascends
  <1>4. queued < p
    <2>1. CASE queued = 0
      BY <1>3, <2>1
    <2>2. CASE queued > 0
      <3>1. PICK c \in Nat : Behind(c)
        BY <2>2 DEF MuteInv
      <3>2. c + queued <= Len(pipelineMap) /\ pipelineMap[c + queued].id < pipelineMap[p].id
        BY <1>1, <1>2, <1>3, <3>1 DEF Behind
      <3>3. c + queued \in DOMAIN pipelineMap
        BY <1>b, <2>2, <3>2
      <3>4. pipelineMap[c + queued].id \in Nat
        BY <1>a, <3>3
      <3>5. ASSUME p < c + queued  PROVE pipelineMap[p].id < pipelineMap[c + queued].id
        BY <3>3, <3>5 DEF MapInv, QueueInv, Ascends
      <3>. QED  BY <1>b, <1>3, <3>2, <3>4, <3>5
    <2>. QED  BY <1>b, <2>1, <2>2
  <1>5. Len(pipelineMap) <= PipelineLimit + 1
    BY PipelineBound
  <1>6. queued + late < OutputCap
    BY <1>b, <1>3, <1>4, <1>5
  <1>. QED  BY <1>6 DEF OutputRoom

\* A mute channel, whose outputChan nobody empties, has room for the answer to every
\* request that reaches it, unless its forwarder left more stream messages there than
\* outputChan is longer than the pipeline: its input goroutine does not block, and
\* with it the connection.
THEOREM MuteNeverFills ==
  ASSUME AgentVersion # "1", MaxSynRetries < PipelineLimit
  PROVE  Spec => []MuteFits
  <1>1. Init => MapInv /\ LengthInv /\ Tracked /\ MuteInv
    <2>. SUFFICES ASSUME Init  PROVE MapInv /\ LengthInv /\ Tracked /\ MuteInv
      OBVIOUS
    <2>1. d2a = <<>> /\ hand = <<>> /\ queued = 0
      BY DEF Init, ChannelInit, AgentInit
    <2>2. MuteInv
      <3>1. ~(0 > 0)
        OBVIOUS
      <3>. QED  BY <2>1, <3>1 DEF MuteInv
    <2>. QED  BY <2>1, <2>2, MapInit DEF Tracked
  <1>2. /\ TypeOK /\ TypeOK' /\ MapInv /\ LengthInv /\ Tracked /\ MuteInv /\ [Next]_vars
        => MapInv' /\ LengthInv' /\ Tracked' /\ MuteInv'
    <2>. SUFFICES ASSUME TypeOK, TypeOK', MapInv, LengthInv, Tracked, MuteInv,
                         [Next]_vars
                  PROVE  MapInv' /\ LengthInv' /\ Tracked' /\ MuteInv'
      OBVIOUS
    <2>1. MapInv'
      BY MapStep
    <2>2. \/ Idles \/ Opens \/ Recovers \/ Validates \/ Pipes \/ Takes \/ Sends
          \/ Answers \/ Skips
      BY Moves DEF MapInv
    <2>3. LengthInv'
      BY <2>1, <2>2, LengthStep DEF MapInv
    <2>4. Tracked' /\ MuteInv'
      BY <2>1, MuteStep
    <2>. QED  BY <2>1, <2>3, <2>4
  <1>3. TypeOK /\ MapInv /\ LengthInv /\ Tracked /\ MuteInv => MuteFits
    BY MuteHasRoom
  <1>. QED  BY <1>1, <1>2, <1>3, TypeCorrect, PTL DEF Spec
=============================================================================
