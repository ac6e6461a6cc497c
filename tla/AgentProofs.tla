----------------------------- MODULE AgentProofs -----------------------------
(***************************************************************************)
(* Proofs about Agent, for every set of ids, capacity, bound and scene.    *)
(***************************************************************************)
EXTENDS Agent, TLAPS

\* A goroutine that waits for its connection made one, a connection that is
\* not done with has its goroutine, and what has not arrived is idle.
JobInv ==
  /\ \A n \in Numbers :
       /\ job[n].pc = "waiting" => conns[n] # "none" /\ job[n].kind = "open"
       /\ conns[n] # "none" => /\ job[n].kind = "open"
                               /\ job[n].pc \in {"waiting", "done"}
       /\ conns[n] \in {"up", "dying"} => job[n].pc = "waiting"
       /\ job[n].pc = "none" => job[n].kind = "job"
       /\ n > arrived => job[n].pc = "none"
  /\ \A id \in Ids :
       connections[id] # NoConn =>
         /\ job[connections[id]].pc = "waiting"
         /\ job[connections[id]].id = id

\* The node has used the id of message n for another OpenWebsocket.
Reused(n) ==
  \E m \in Numbers \ {n} : job[m].kind = "open" /\ job[m].id = job[n].id

\* What the range over connections still has to visit: it began with ids of
\* connections that had been made, and one that is still up under such an id
\* is in the table and not visited.
RangeInv ==
  /\ ccMain = "loop" => ranged = {} /\ rangeFrom = {}
  /\ \A id \in rangeFrom :
       \E m \in Numbers : conns[m] # "none" /\ job[m].id = id
  /\ \A n \in Numbers :
       conns[n] = "up" /\ job[n].id \in rangeFrom =>
         \/ Reused(n)
         \/ /\ ccMain = "closing" /\ connections[job[n].id] = n
            /\ job[n].id \notin ranged

\* Where the agent's error comes from: as long as no signal has come, the
\* monitor ended because it had closed the channel or had found it dead, and
\* Run returns the monitor's error.
ReasonInv ==
  /\ aTomb = "dead" => monitor = "returned"
  /\ ~signalled =>
       /\ aTomb # "dying" /\ run # "waitMonitor"
       /\ monitor = "closing" => ccTomb # "alive" /\ verdict = "pongs"
       /\ aTomb = "dead" =>
            ccTomb # "alive" /\ (ccErr = "restart" => aErr \in Qualified)
       /\ run \in {"closeConn", "save", "saved"} =>
            aTomb = "dead" /\ reason = aErr

\* A heartbeat that found the connection down is remembered until the monitor
\* has decided.
PongInv == skipped /\ monitor \in {"select", "checking"} => ~isSendingPongs

-----------------------------------------------------------------------------
(* Types.                                                                  *)

JobType == [kind : Kinds, id : Ids,
            pc : {"none", "queued", "started", "waiting", "error", "done"}]

Flags ==
  /\ asked \in BOOLEAN /\ isSendingPongs \in BOOLEAN
  /\ sawReady \in BOOLEAN /\ skipped \in BOOLEAN
  /\ signalled \in BOOLEAN /\ silent \in BOOLEAN

\* A flag is assigned a condition or another flag.
LEMMA FlagsStep ==
  ASSUME TypeOK, Next
  PROVE  Flags'
  <1>0. Flags
    BY Zenon DEF TypeOK, CCTypeOK, Flags
  <1>. USE <1>0 DEF Flags
  <1>1. CASE Boot
    BY <1>1, Zenon DEF Boot, CCStart
  <1>2. CASE RunStep
    <2>1. CASE CloseConn
      BY <2>1, <1>2, Zenon DEF RunStep, CloseConn, LinkTo, RunTo, monitorVars, envVars
    <2>2. CASE \E n \in Numbers : RunError(n)
      BY <2>2, <1>2, Zenon
      DEF RunStep, RunError, RunTo, tombVars, pongVars, monitorVars, envVars
    <2>3. CASE \/ RunFails \/ RunStarts \/ RunDead \/ RunSignal \/ RunReported
               \/ RunWaited \/ SetShutdownInfo \/ Exit
      BY <2>3, <1>2, Zenon
      DEF RunStep, RunFails, RunStarts, RunDead, RunSignal, RunReported,
          RunWaited, SetShutdownInfo, Exit, RunTo, ccVars, pongVars,
          monitorVars, envVars
    <2>. QED  BY <1>2, <2>1, <2>2, <2>3 DEF RunStep
  <1>3. CASE ReportQualifiedShutdown \/ Signal \/ Crash \/ MapRace \/ Falls
    BY <1>3, Zenon
    DEF ReportQualifiedShutdown, Signal, Crash, MapRace, Falls, ccVars, pongVars,
        monitorVars, envVars, runVars
  <1>4. CASE MonitorStep
    BY <1>4, Zenon
    DEF MonitorStep, MonitorPong, MonitorTimeout, MonitorWaits, MonitorGivesUp,
        MonitorDying, MonitorClosed, MonitorDone, Return, TimerRestarts, ccVars,
        pongVars, runVars, envVars
  <1>5. CASE CCStep
    BY <1>5, ZenonT(40)
    DEF CCStep, TombDies, CloseBegins, CloseEnds, ConnectionDone, CloseNext,
        TakeMessage, ProcessRestart, ProcessJob, OpenFails, OpenSucceeds,
        Forget, ProcessClose, pongVars, monitorVars, runVars, envVars
  <1>6. CASE Minute
    BY <1>6, Zenon DEF Minute, Heartbeat, ccVars, pongVars, runVars, envVars
  <1>7. CASE Answer \/ NodeSends \/ Network
    BY <1>7, Zenon
    DEF Answer, HealthAnswered, NodeSends, Receive, Network, LinkBreaks,
        LinkReady, LinkGivesUp, LinkTo, ConnEnds, pongVars, monitorVars,
        runVars, envVars
  <1>. QED  BY <1>1, <1>2, <1>3, <1>4, <1>5, <1>6, <1>7 DEF Next

\* Nothing is known of the id of a message that has not come, except that it is
\* one.
LEMMA IdleType == Idle \in JobType
  <1>1. (CHOOSE i \in Ids : TRUE) \in Ids
    BY ControlAssumption
  <1>. QED  BY <1>1 DEF Idle, JobType, Kinds

\* A goroutine that moves on is still one.
LEMMA SetJobType ==
  ASSUME CCTypeOK, NEW n \in Numbers,
         NEW pc \in {"none", "queued", "started", "waiting", "error", "done"},
         SetJob(n, pc)
  PROVE  job' \in [Numbers -> JobType]
  BY DEF CCTypeOK, SetJob, JobType

\* The channel's own steps keep the types.
LEMMA CCTypes ==
  ASSUME CCTypeOK, CCStep
  PROVE  CCTypeOK'
  <1>1. CASE TombDies \/ CloseBegins \/ CloseEnds \/ ConnectionDone
    BY <1>1
    DEF CCTypeOK, TombDies, CloseBegins, CloseEnds, ConnectionDone, Kill,
        InTable, jobVars, pongVars
  <1>2. ASSUME NEW id \in Ids, CloseNext(id)
        PROVE  CCTypeOK'
    BY <1>2 DEF CCTypeOK, CloseNext, KillConn, InTable, pongVars
  <1>3. ASSUME NEW n \in Numbers,
               \/ TakeMessage(n) \/ ProcessRestart(n) \/ ProcessJob(n)
               \/ OpenFails(n) \/ OpenSucceeds(n) \/ Forget(n)
               \/ ProcessClose(n)
        PROVE  CCTypeOK'
    <2>1. job' \in [Numbers -> JobType]
      BY <1>3, SetJobType
      DEF TakeMessage, ProcessRestart, ProcessJob, OpenFails, OpenSucceeds,
          Forget, ProcessClose
    <2>2. job[n].id \in Ids
      BY DEF CCTypeOK
    <2>3. CASE TakeMessage(n) \/ ProcessRestart(n) \/ ProcessJob(n) \/ OpenFails(n)
      BY <2>1, <2>3
      DEF CCTypeOK, TakeMessage, ProcessRestart, ProcessJob, OpenFails, Kill,
          JobType, tombVars, pongVars
    <2>4. CASE OpenSucceeds(n) \/ Forget(n) \/ ProcessClose(n)
      BY SMTT(30), <2>1, <2>2, <2>4
      DEF CCTypeOK, OpenSucceeds, Forget, ProcessClose, KillConn, JobType,
          tombVars, pongVars
    <2>. QED  BY <1>3, <2>3, <2>4
  <1>. QED  BY <1>1, <1>2, <1>3 DEF CCStep

\* The monitor's steps keep the types; it counts the missed sets only as long
\* as there may be more.
LEMMA MonitorTypes ==
  ASSUME TypeOK, MonitorStep, Flags'
  PROVE  TypeOK'
  <1>. USE DEF TypeOK, CCTypeOK, Flags, MonitorStep, tombVars, jobVars, pongVars,
               ccVars, runVars, envVars
  <1>1. CASE MonitorPong
    <2>1. missed' \in 0..MaximumMissedPongSets /\ pongs' \in Nat
      BY <1>1, AgentAssumption DEF MonitorPong
    <2>. QED  BY <1>1, <2>1 DEF MonitorPong, TimerRestarts, HeartbeatsDue
  <1>2. CASE MonitorTimeout
    BY <1>2 DEF MonitorTimeout
  <1>3. CASE MonitorWaits
    <2>1. missed' \in 0..MaximumMissedPongSets
      BY <1>3, AgentAssumption DEF MonitorWaits
    <2>. QED  BY <1>3, <2>1 DEF MonitorWaits, TimerRestarts, HeartbeatsDue
  <1>4. CASE MonitorGivesUp
    BY <1>4 DEF MonitorGivesUp, Kill
  <1>5. CASE MonitorDying
    BY <1>5 DEF MonitorDying, Kill
  <1>6. CASE MonitorClosed \/ MonitorDone
    BY <1>6 DEF MonitorClosed, MonitorDone, Return
  <1>. QED  BY <1>1, <1>2, <1>3, <1>4, <1>5, <1>6

\* Run's steps keep the types.
LEMMA RunTypes ==
  ASSUME TypeOK, RunStep
  PROVE  TypeOK'
  <1>. USE DEF TypeOK, RunStep, RunTo, monitorVars, envVars
  <1>1. CASE RunFails \/ RunStarts \/ RunReported \/ RunWaited \/ Exit
    BY <1>1
    DEF RunFails, RunStarts, RunReported, RunWaited, Exit, CCTypeOK, ccVars,
        tombVars, jobVars, pongVars
  <1>2. CASE RunDead \/ RunSignal \/ SetShutdownInfo
    BY <1>2
    DEF RunDead, RunSignal, SetShutdownInfo, CCTypeOK, ccVars, tombVars,
        jobVars, pongVars
  <1>3. CASE CloseConn
    BY <1>3 DEF CloseConn, LinkTo, CCTypeOK, tombVars, jobVars
  <1>4. ASSUME NEW n \in Numbers, RunError(n)
        PROVE  TypeOK'
    <2>1. job' \in [Numbers -> JobType]
      BY <1>4, SetJobType DEF RunError
    <2>. QED  BY <1>4, <2>1 DEF RunError, CCTypeOK, JobType, tombVars, pongVars
  <1>. QED  BY <1>1, <1>2, <1>3, <1>4

\* The surroundings keep the types.
LEMMA EnvTypes ==
  ASSUME TypeOK, Flags',
         \/ ReportQualifiedShutdown \/ Signal \/ Crash \/ MapRace \/ Minute \/ Answer
         \/ NodeSends \/ Network \/ Falls
  PROVE  TypeOK'
  <1>. USE DEF TypeOK, CCTypeOK, Flags, tombVars, jobVars, pongVars, monitorVars,
               runVars, envVars
  <1>1. CASE ReportQualifiedShutdown \/ Signal \/ Crash \/ MapRace \/ Falls
    BY <1>1 DEF ReportQualifiedShutdown, Signal, Crash, MapRace, Falls, ccVars
  <1>2. CASE Minute
    BY <1>2 DEF Minute, Heartbeat, HeartbeatsDue, ccVars
  <1>3. CASE Answer
    BY <1>3 DEF Answer, HealthAnswered
  <1>4. CASE NodeSends
    <2>1. PICK kind \in Kinds, id \in Ids : Receive(kind, id)
      BY <1>4 DEF NodeSends
    <2>2. arrived + 1 \in Numbers
      BY <2>1, ControlAssumption DEF Receive, Numbers
    <2>3. [kind |-> kind, id |-> id, pc |-> "queued"] \in JobType
      BY DEF JobType
    <2>4. job' \in [Numbers -> JobType]
      BY <2>1, <2>2, <2>3 DEF Receive, JobType
    <2>5. arrived' \in 0..MaxMessages
      BY <2>1, <2>2 DEF Receive, Numbers
    <2>. QED  BY <1>4, <2>1, <2>4, <2>5 DEF NodeSends, Receive, JobType
  <1>5. CASE Network
    BY <1>5
    DEF Network, LinkBreaks, LinkReady, LinkGivesUp, LinkTo, ConnEnds
  <1>. QED  BY <1>1, <1>2, <1>3, <1>4, <1>5

\* The initial states have the right types.
LEMMA TypeInit == Init => TypeOK
  <1>. SUFFICES ASSUME Init PROVE TypeOK
    OBVIOUS
  <1>0. Flags
    BY Zenon DEF Init, CCInit, Flags
  <1>1. CCTypeOK
    BY <1>0, IdleType, ControlAssumption
    DEF Init, CCInit, CCTypeOK, Flags, JobType, NoConn
  <1>. QED
    BY <1>0, <1>1, AgentAssumption DEF Init, TypeOK, Flags, HeartbeatsDue

\* Every step of the agent keeps the types.
LEMMA TypeStep == TypeOK /\ [Next]_vars => TypeOK'
  <1>. SUFFICES ASSUME TypeOK, [Next]_vars PROVE TypeOK'
    OBVIOUS
  <1>1. CASE Boot
    <2>0. Flags'
      BY <1>1, FlagsStep DEF Next
    <2>1. CCTypeOK'
      BY <1>1, <2>0, IdleType
      DEF Boot, CCStart, TypeOK, CCTypeOK, Flags, JobType, NoConn
    <2>. QED
      BY <1>1, <2>0, <2>1, AgentAssumption
      DEF Boot, TypeOK, Flags, HeartbeatsDue
  <1>2. CASE CCStep
    BY <1>2, CCTypes DEF CCStep, TypeOK, monitorVars, runVars, envVars
  <1>3. CASE UNCHANGED vars
    BY <1>3
    DEF TypeOK, CCTypeOK, vars, ccVars, tombVars, jobVars, pongVars,
        monitorVars, runVars, envVars
  <1>. QED  BY <1>1, <1>2, <1>3, FlagsStep, MonitorTypes, RunTypes, EnvTypes DEF Next

\* The agent's variables, those of its control channel included, keep their
\* types: the missed sets are never counted past their maximum and every
\* message has a goroutine of its own.
THEOREM TypesHold == Spec => []TypeOK
  BY TypeInit, TypeStep, PTL DEF Spec

-----------------------------------------------------------------------------
(* The monitor and Run.                                                    *)

\* Kill keeps the first reason.
LEMMA KillKeepsReason ==
  ASSUME NEW why, Kill(why)
  PROVE  /\ ccTomb' # "alive"
         /\ ccTomb # "alive" => ccErr' = ccErr /\ ccTomb' = ccTomb
  BY DEF Kill

\* Once the channel is no longer alive its error is settled: a dead channel is
\* never alive again in this process.
LEMMA TombSettles ==
  ASSUME CCStep \/ MonitorStep \/ Minute \/ Answer \/ NodeSends \/ Network
         \/ RunStep \/ ReportQualifiedShutdown \/ Signal \/ Crash \/ MapRace \/ Falls
  PROVE  ccTomb # "alive" => ccTomb' # "alive" /\ ccErr' = ccErr
  <1>. SUFFICES ASSUME ccTomb # "alive"
                PROVE  ccTomb' # "alive" /\ ccErr' = ccErr
    OBVIOUS
  <1>1. CASE CCStep
    BY <1>1, KillKeepsReason
    DEF CCStep, TombDies, CloseBegins, CloseEnds, ConnectionDone, CloseNext,
        TakeMessage, ProcessRestart, ProcessJob, OpenFails, OpenSucceeds,
        Forget, ProcessClose, tombVars
  <1>2. CASE MonitorStep
    BY <1>2, KillKeepsReason
    DEF MonitorStep, MonitorPong, MonitorTimeout, MonitorWaits, MonitorGivesUp,
        MonitorDying, MonitorClosed, MonitorDone, Return, ccVars, tombVars
  <1>3. CASE Minute \/ Answer \/ NodeSends \/ Network
    BY <1>3
    DEF Minute, Heartbeat, Answer, HealthAnswered, NodeSends, Receive, Network,
        LinkBreaks, LinkReady, LinkGivesUp, LinkTo, ConnEnds, ccVars, tombVars
  <1>4. CASE RunStep
    BY <1>4
    DEF RunStep, RunFails, RunStarts, RunDead, RunSignal, RunReported,
        RunWaited, CloseConn, LinkTo, SetShutdownInfo, Exit, RunError, ccVars,
        tombVars
  <1>5. CASE ReportQualifiedShutdown \/ Signal \/ Crash \/ MapRace \/ Falls
    BY <1>5 DEF ReportQualifiedShutdown, Signal, Crash, MapRace, Falls, ccVars, tombVars
  <1>. QED  BY <1>1, <1>2, <1>3, <1>4, <1>5

\* Every step keeps ReasonInv.
LEMMA ReasonStep == TypeOK /\ ReasonInv /\ [Next]_vars => ReasonInv'
  <1>. SUFFICES ASSUME TypeOK, ReasonInv, [Next]_vars PROVE ReasonInv'
    OBVIOUS
  <1>1. CASE Boot
    BY <1>1 DEF Boot, ReasonInv
  <1>2. CASE MonitorStep
    <2>. /\ UNCHANGED <<run, reason, signalled>>
         /\ ccTomb # "alive" => ccTomb' # "alive" /\ ccErr' = ccErr
      BY <1>2, TombSettles DEF MonitorStep, runVars
    <2>1. CASE MonitorPong \/ MonitorTimeout \/ MonitorWaits
      BY <2>1 DEF MonitorPong, MonitorTimeout, MonitorWaits, ReasonInv
    <2>2. CASE MonitorGivesUp \/ MonitorDying
      BY <2>2, KillKeepsReason DEF MonitorGivesUp, MonitorDying, ReasonInv
    <2>3. CASE MonitorClosed \/ MonitorDone
      BY <2>3
      DEF MonitorClosed, MonitorDone, Return, ReasonInv, Qualified, TypeOK,
          CCTypeOK, ccVars, tombVars
    <2>. QED  BY <1>2, <2>1, <2>2, <2>3 DEF MonitorStep
  <1>3. CASE RunStep
    <2>. ccTomb # "alive" => ccTomb' # "alive" /\ ccErr' = ccErr
      BY <1>3, TombSettles
    <2>1. CASE RunDead \/ RunSignal
      BY <2>1
      DEF RunDead, RunSignal, RunTo, ReasonInv, TypeOK, monitorVars
    <2>2. CASE \/ RunFails \/ RunStarts \/ RunReported \/ RunWaited \/ CloseConn
               \/ SetShutdownInfo \/ Exit \/ \E n \in Numbers : RunError(n)
      BY <2>2
      DEF RunFails, RunStarts, RunReported, RunWaited, CloseConn,
          SetShutdownInfo, Exit, RunError, RunTo, ReasonInv, monitorVars
    <2>. QED  BY <1>3, <2>1, <2>2 DEF RunStep
  <1>4. CASE CCStep \/ Minute \/ Answer \/ NodeSends \/ Network \/ Falls
    <2>. /\ UNCHANGED <<aTomb, aErr, monitor, verdict, run, reason, signalled>>
         /\ ccTomb # "alive" => ccTomb' # "alive" /\ ccErr' = ccErr
      BY <1>4, TombSettles
      DEF CCStep, Minute, Answer, NodeSends, Network, Falls, monitorVars, runVars
    <2>. QED  BY DEF ReasonInv
  <1>5. CASE ReportQualifiedShutdown \/ Signal \/ Crash \/ MapRace
    BY <1>5, TombSettles
    DEF ReportQualifiedShutdown, Signal, Crash, MapRace, ReasonInv, monitorVars
  <1>6. CASE UNCHANGED vars
    BY <1>6
    DEF ReasonInv, vars, ccVars, tombVars, monitorVars, runVars
  <1>. QED  BY <1>1, <1>2, <1>3, <1>4, <1>5, <1>6 DEF Next

\* A restart that was asked for through the control channel is written down as
\* one, whatever the monitor and the connection do in the meantime, unless the
\* process was told to stop as well.
THEOREM RestartsAreQualified == Spec => []RestartIsQualified
  <1>. DEFINE IInv == TypeOK /\ ReasonInv
  <1>1. Init => IInv
    BY TypeInit DEF Init, CCInit, ReasonInv
  <1>2. IInv /\ [Next]_vars => IInv'
    BY TypeStep, ReasonStep
  <1>3. IInv => RestartIsQualified
    BY DEF ReasonInv, RestartIsQualified
  <1>. QED  BY <1>1, <1>2, <1>3, PTL DEF Spec

\* Every step keeps PongInv.
LEMMA PongStep == TypeOK /\ PongInv /\ [Next]_vars => PongInv'
  <1>. SUFFICES ASSUME TypeOK, PongInv, [Next]_vars PROVE PongInv'
    OBVIOUS
  <1>. USE DEF PongInv
  <1>1. CASE Boot
    BY <1>1, Zenon DEF Boot
  <1>2. CASE MonitorStep
    BY <1>2, Zenon
    DEF MonitorStep, MonitorPong, MonitorTimeout, MonitorWaits, MonitorGivesUp,
        MonitorDying, MonitorClosed, MonitorDone, Return, TimerRestarts, ccVars,
        pongVars
  <1>3. CASE Minute
    BY <1>3, Zenon DEF Minute, Heartbeat, ccVars, pongVars
  <1>4. CASE \/ CCStep \/ Answer \/ NodeSends \/ Network \/ Falls \/ RunStep
             \/ ReportQualifiedShutdown \/ Signal \/ Crash \/ MapRace
    <2>. UNCHANGED <<monitor, skipped, isSendingPongs>>
      BY <1>4
      DEF CCStep, TombDies, CloseBegins, CloseEnds, ConnectionDone, CloseNext,
          TakeMessage, ProcessRestart, ProcessJob, OpenFails, OpenSucceeds,
          Forget, ProcessClose, Answer, HealthAnswered, NodeSends, Receive,
          Network, LinkBreaks, LinkReady, LinkGivesUp, LinkTo, ConnEnds, Falls,
          RunStep, RunFails, RunStarts, RunDead, RunSignal, RunReported,
          RunWaited, CloseConn, SetShutdownInfo, Exit, RunError,
          ReportQualifiedShutdown, Signal, Crash, MapRace, ccVars, pongVars, monitorVars
    <2>. QED  BY Zenon
  <1>5. CASE UNCHANGED vars
    BY <1>5, Zenon DEF vars, ccVars, pongVars, monitorVars
  <1>. QED  BY <1>1, <1>2, <1>3, <1>4, <1>5 DEF Next

\* As long as sets of pongs may be missed, the monitor does not close the
\* channel over an interval in which a heartbeat found the connection down.
THEOREM RestartsAreNotHasty == Spec => NoHastyRestart
  <1>1. Init => TypeOK /\ PongInv
    BY TypeInit, Zenon DEF Init, PongInv
  <1>2. TypeOK /\ PongInv /\ [Next]_vars => (TypeOK /\ PongInv)'
    BY TypeStep, PongStep
  <1>3. TypeOK /\ PongInv /\ [Next]_vars =>
          [monitor = "checking" /\ monitor' = "closing"
             /\ missed < MaximumMissedPongSets => ~skipped]_vars
    <2>. SUFFICES ASSUME TypeOK, PongInv, Next,
                         monitor = "checking", monitor' = "closing",
                         missed < MaximumMissedPongSets, skipped
                  PROVE  FALSE
      BY Zenon
    <2>1. MonitorGivesUp
      BY DEF Next, Boot, MonitorStep, MonitorPong, MonitorTimeout, MonitorWaits,
             MonitorDying, MonitorClosed, MonitorDone, Return, RunStep, RunFails,
             RunStarts, RunDead, RunSignal, RunReported, RunWaited, CloseConn,
             SetShutdownInfo, Exit, RunError, ReportQualifiedShutdown, Signal,
             Crash, MapRace, CCStep, Minute, Answer, NodeSends, Network, Falls,
             monitorVars
    <2>2. isSendingPongs
      <3>1. ~(missed >= MaximumMissedPongSets)
        BY AgentAssumption DEF TypeOK
      <3>. QED  BY <2>1, <3>1, Zenon DEF MonitorGivesUp, ShouldBeSendingPongs
    <2>. QED  BY <2>2, Zenon DEF PongInv
  <1>. QED  BY <1>1, <1>2, <1>3, PTL DEF Spec, NoHastyRestart

-----------------------------------------------------------------------------
(* The table of data connections and its range.                            *)

tableVars == <<ccMain, ranged, rangeFrom, jobVars>>

TableInv == JobInv /\ OpenIsNamed /\ RangeInv

\* Steps that leave the table, its goroutines and the range alone.
LEMMA TableAlone ==
  ASSUME \/ MonitorStep \/ Minute \/ Answer \/ Falls \/ Signal \/ Crash \/ MapRace
         \/ ReportQualifiedShutdown \/ TombDies
         \/ Network /\ ~\E n \in Numbers : ConnEnds(n)
         \/ RunStep /\ ~\E n \in Numbers : RunError(n)
  PROVE  UNCHANGED tableVars
  <1>1. CASE MonitorStep
    BY <1>1
    DEF MonitorStep, MonitorPong, MonitorTimeout, MonitorWaits, MonitorGivesUp,
        MonitorDying, MonitorClosed, MonitorDone, Return, ccVars, tombVars,
        jobVars, tableVars
  <1>2. CASE \/ Minute \/ Answer \/ Falls \/ Signal \/ Crash \/ MapRace
             \/ ReportQualifiedShutdown \/ TombDies
    BY <1>2
    DEF Minute, Heartbeat, Answer, HealthAnswered, Falls, Signal, Crash, MapRace,
        ReportQualifiedShutdown, TombDies, ccVars, tombVars, jobVars, tableVars
  <1>3. CASE Network /\ ~\E n \in Numbers : ConnEnds(n)
    BY <1>3
    DEF Network, LinkBreaks, LinkReady, LinkGivesUp, LinkTo, tombVars, jobVars,
        tableVars
  <1>4. CASE RunStep /\ ~\E n \in Numbers : RunError(n)
    BY <1>4
    DEF RunStep, RunFails, RunStarts, RunDead, RunSignal, RunReported,
        RunWaited, CloseConn, LinkTo, SetShutdownInfo, Exit, ccVars, tombVars,
        jobVars, tableVars
  <1>. QED  BY <1>1, <1>2, <1>3, <1>4

\* Connections only ever go on: from up to dying.
Told == \A m \in Numbers : \/ conns'[m] = conns[m]
                           \/ conns[m] = "up" /\ conns'[m] = "dying"

\* A connection that is told to close is up no longer.
LEMMA KillTells ==
  ASSUME TypeOK, NEW n \in Numbers, KillConn(n)
  PROVE  Told /\ conns'[n] # "up"
  BY DEF TypeOK, CCTypeOK, KillConn, Told

\* A goroutine that has made no connection moves on without one; it may tell a
\* connection to close.
LEMMA JobMoves ==
  ASSUME TypeOK, TableInv, NEW n \in Numbers,
         NEW pc \in {"started", "error", "done"},
         SetJob(n, pc), job[n].pc \in {"queued", "started", "error"}, Told,
         UNCHANGED <<ccMain, ranged, rangeFrom, arrived, connections>>
  PROVE  TableInv'
  <1>1. /\ job'[n].pc = pc /\ job'[n].kind = job[n].kind /\ job'[n].id = job[n].id
        /\ \A m \in Numbers \ {n} : job'[m] = job[m]
    BY DEF TypeOK, CCTypeOK, SetJob
  <1>2. \A m \in Numbers : job'[m].kind = job[m].kind /\ job'[m].id = job[m].id
    BY <1>1
  <1>3. conns[n] = "none" /\ conns'[n] = "none"
    BY DEF TableInv, JobInv, Told
  <1>4. JobInv'
    BY <1>1, <1>2, <1>3 DEF TableInv, JobInv, Told, TypeOK, CCTypeOK
  <1>5. OpenIsNamed'
    BY <1>1, <1>2 DEF TableInv, OpenIsNamed
  <1>6. RangeInv'
    BY <1>1, <1>2, <1>3 DEF TableInv, RangeInv, Reused, Told
  <1>. QED  BY <1>4, <1>5, <1>6 DEF TableInv

\* The steps of a goroutine that neither enters into the table nor deletes.
LEMMA JobSteps ==
  ASSUME TypeOK, TableInv, NEW n \in Numbers,
         \/ TakeMessage(n) \/ ProcessRestart(n) \/ ProcessJob(n)
         \/ OpenFails(n) \/ ProcessClose(n) \/ RunError(n)
  PROVE  TableInv'
  <1>1. CASE \/ TakeMessage(n) \/ ProcessRestart(n) \/ ProcessJob(n)
             \/ OpenFails(n) \/ RunError(n)
    <2>1. /\ job[n].pc \in {"queued", "started", "error"}
          /\ UNCHANGED <<ccMain, ranged, rangeFrom, arrived, conns, connections>>
          /\ SetJob(n, "started") \/ SetJob(n, "error") \/ SetJob(n, "done")
      BY <1>1
      DEF TakeMessage, ProcessRestart, ProcessJob, OpenFails, RunError, Started,
          Queued, tombVars
    <2>. QED  BY <2>1, JobMoves DEF Told
  <1>2. CASE ProcessClose(n)
    <2>1. Told
      BY <1>2, KillTells
      DEF ProcessClose, Told, TypeOK, CCTypeOK, NoConn
    <2>2. /\ job[n].pc \in {"queued", "started", "error"}
          /\ UNCHANGED <<ccMain, ranged, rangeFrom, arrived, connections>>
          /\ SetJob(n, "error") \/ SetJob(n, "done")
      BY <1>2 DEF ProcessClose, Started, tombVars
    <2>. QED  BY <2>1, <2>2, JobMoves
  <1>. QED  BY <1>1, <1>2

\* A connection that ends does not leave the table by itself.
LEMMA ConnEndsStep ==
  ASSUME TypeOK, TableInv, NEW n \in Numbers, ConnEnds(n)
  PROVE  TableInv'
  <1>1. /\ conns'[n] = "dead" /\ conns[n] \in {"up", "dying"}
        /\ \A m \in Numbers \ {n} : conns'[m] = conns[m]
        /\ UNCHANGED <<ccMain, ranged, rangeFrom, arrived, connections, job>>
    BY DEF TypeOK, CCTypeOK, ConnEnds, tombVars
  <1>2. JobInv'
    BY <1>1 DEF TableInv, JobInv, TypeOK, CCTypeOK
  <1>3. OpenIsNamed'
    BY <1>1 DEF TableInv, OpenIsNamed
  <1>4. RangeInv'
    BY <1>1 DEF TableInv, RangeInv, Reused
  <1>. QED  BY <1>2, <1>3, <1>4 DEF TableInv

\* A message takes the place of one that had not come.
LEMMA ReceiveStep ==
  ASSUME TypeOK, TableInv, NEW kind \in Kinds, NEW id \in Ids, Receive(kind, id)
  PROVE  TableInv'
  <1>. DEFINE n == arrived + 1
  <1>1. n \in Numbers /\ arrived \in Nat
    BY ControlAssumption DEF Receive, TypeOK, CCTypeOK, Numbers
  <1>2. /\ job'[n].pc = "queued" /\ job'[n].kind = kind /\ job'[n].id = id
        /\ \A m \in Numbers \ {n} : job'[m] = job[m]
        /\ UNCHANGED <<ccMain, ranged, rangeFrom, conns, connections>>
        /\ arrived' = n
    BY <1>1 DEF TypeOK, CCTypeOK, Receive, tombVars
  <1>3. job[n].pc = "none" /\ job[n].kind = "job" /\ conns[n] = "none"
    BY <1>1 DEF TableInv, JobInv
  <1>. HIDE DEF n
  <1>4. JobInv'
    <2>1. ASSUME NEW m \in Numbers, m > arrived' PROVE job'[m].pc = "none"
      BY <1>1, <1>2, <2>1 DEF n, TableInv, JobInv, Numbers
    <2>. QED  BY <1>1, <1>2, <1>3, <2>1 DEF TableInv, JobInv, TypeOK, CCTypeOK
  <1>5. OpenIsNamed'
    BY <1>1, <1>2, <1>3 DEF TableInv, OpenIsNamed
  <1>6. RangeInv'
    BY <1>1, <1>2, <1>3 DEF TableInv, RangeInv, Reused
  <1>. QED  BY <1>4, <1>5, <1>6 DEF TableInv

\* The connection of message n is entered.  If its id was in the table when the
\* range began, another connection had it.
LEMMA OpenStep ==
  ASSUME TypeOK, TableInv, NEW n \in Numbers, OpenSucceeds(n)
  PROVE  TableInv'
  <1>1. /\ job'[n].pc = "waiting" /\ job'[n].kind = "open" /\ job'[n].id = job[n].id
        /\ \A m \in Numbers \ {n} : job'[m] = job[m]
        /\ conns'[n] = "up" /\ \A m \in Numbers \ {n} : conns'[m] = conns[m]
        /\ connections'[job[n].id] = n
        /\ \A id \in Ids \ {job[n].id} : connections'[id] = connections[id]
        /\ UNCHANGED <<ccMain, ranged, rangeFrom, arrived>>
        /\ job[n].pc = "started" /\ job[n].kind = "open" /\ job[n].id \in Ids
    BY DEF TypeOK, CCTypeOK, OpenSucceeds, Started, SetJob, tombVars
  <1>2. conns[n] = "none"
    BY <1>1 DEF TableInv, JobInv
  <1>3. \A m \in Numbers : job'[m].kind = job[m].kind /\ job'[m].id = job[m].id
    BY <1>1
  <1>4. JobInv'
    BY <1>1, <1>2, <1>3 DEF TableInv, JobInv, TypeOK, CCTypeOK
  <1>5. OpenIsNamed'
    BY <1>1, <1>3 DEF TableInv, OpenIsNamed, TypeOK, CCTypeOK
  <1>6. RangeInv'
    <2>1. ASSUME NEW id \in rangeFrom
          PROVE  \E m \in Numbers : conns'[m] # "none" /\ job'[m].id = id
      BY <1>1, <1>3 DEF TableInv, RangeInv
    <2>2. ASSUME job[n].id \in rangeFrom PROVE Reused(n)'
      <3>1. PICK m \in Numbers : conns[m] # "none" /\ job[m].id = job[n].id
        BY <2>2 DEF TableInv, RangeInv
      <3>2. m # n /\ job[m].kind = "open"
        BY <1>2, <3>1 DEF TableInv, JobInv
      <3>. QED  BY <1>3, <3>1, <3>2 DEF Reused
    <2>3. ASSUME NEW m \in Numbers \ {n}, job[m].id = job[n].id PROVE Reused(m)'
      BY <1>1, <1>3, <2>3 DEF Reused
    <2>4. ASSUME NEW m \in Numbers, Reused(m) PROVE Reused(m)'
      BY <1>3, <2>4 DEF Reused
    <2>. QED
      BY <1>1, <1>3, <2>1, <2>2, <2>3, <2>4
      DEF TableInv, RangeInv, TypeOK, CCTypeOK
  <1>. QED  BY <1>4, <1>5, <1>6 DEF TableInv

\* The connection of message n is done with; only one with the same id can have
\* been deleted with it.
LEMMA ForgetStep ==
  ASSUME TypeOK, TableInv, NEW n \in Numbers, Forget(n)
  PROVE  TableInv'
  <1>1. /\ job'[n].pc = "done" /\ job'[n].kind = job[n].kind /\ job'[n].id = job[n].id
        /\ \A m \in Numbers \ {n} : job'[m] = job[m]
        /\ connections'[job[n].id] = NoConn
        /\ \A id \in Ids \ {job[n].id} : connections'[id] = connections[id]
        /\ UNCHANGED <<ccMain, ranged, rangeFrom, arrived, conns>>
        /\ job[n].pc = "waiting" /\ job[n].id \in Ids /\ conns[n] = "dead"
    BY DEF TypeOK, CCTypeOK, Forget, SetJob, tombVars
  <1>2. job[n].kind = "open"
    BY <1>1 DEF TableInv, JobInv
  <1>3. \A m \in Numbers : job'[m].kind = job[m].kind /\ job'[m].id = job[m].id
    BY <1>1
  <1>4. JobInv'
    BY <1>1, <1>2, <1>3 DEF TableInv, JobInv, TypeOK, CCTypeOK
  <1>5. OpenIsNamed'
    BY <1>1, <1>2, <1>3 DEF TableInv, OpenIsNamed, TypeOK, CCTypeOK
  <1>6. RangeInv'
    <2>1. ASSUME NEW m \in Numbers \ {n}, job[m].id = job[n].id PROVE Reused(m)'
      BY <1>2, <1>3, <2>1 DEF Reused
    <2>2. ASSUME NEW m \in Numbers, Reused(m) PROVE Reused(m)'
      BY <1>3, <2>2 DEF Reused
    <2>. QED
      BY <1>1, <1>3, <2>1, <2>2 DEF TableInv, RangeInv, TypeOK, CCTypeOK
  <1>. QED  BY <1>4, <1>5, <1>6 DEF TableInv

\* The range: it begins with what is in the table, tells the connection it
\* finds, and ends when it has passed over no id of those.
LEMMA RangeSteps ==
  ASSUME TypeOK, TableInv,
         \/ CloseBegins \/ CloseEnds \/ ConnectionDone
         \/ \E id \in Ids : CloseNext(id)
  PROVE  TableInv'
  <1>1. CASE CloseBegins \/ CloseEnds \/ ConnectionDone
    <2>0. UNCHANGED <<arrived, job, conns, connections, ranged>>
      BY <1>1 DEF CloseBegins, CloseEnds, ConnectionDone, jobVars
    <2>1. JobInv' /\ OpenIsNamed'
      BY <2>0 DEF TableInv, JobInv, OpenIsNamed
    <2>2. CASE CloseBegins
      <3>1. /\ ranged' = {} /\ ccMain' = "closing"
            /\ rangeFrom' = {id \in Ids : connections[id] # NoConn}
        BY <2>0, <2>2 DEF CloseBegins, TableInv, RangeInv, InTable
      <3>2. ASSUME NEW id \in rangeFrom'
            PROVE  \E m \in Numbers : conns'[m] # "none" /\ job'[m].id = id
        <4>1. connections[id] \in Numbers /\ id \in Ids
          BY <3>1 DEF TypeOK, CCTypeOK
        <4>2. conns[connections[id]] # "none" /\ job[connections[id]].id = id
          BY <3>1, <4>1 DEF TableInv, JobInv
        <4>. QED  BY <2>0, <4>1, <4>2
      <3>3. ASSUME NEW n \in Numbers, conns[n] = "up"
            PROVE  Reused(n) \/ connections[job[n].id] = n
        BY <3>3 DEF TableInv, JobInv, OpenIsNamed, Reused
      <3>. QED
        BY <2>0, <2>1, <3>1, <3>2, <3>3 DEF TableInv, RangeInv, Reused
    <2>3. CASE CloseEnds
      <3>1. ASSUME NEW n \in Numbers, connections[job[n].id] = n,
                   job[n].id \in rangeFrom
            PROVE  job[n].id \in ranged
        BY <2>3, <3>1
        DEF CloseEnds, InTable, NoConn, Numbers, TypeOK, CCTypeOK
      <3>. QED
        BY <2>0, <2>1, <2>3, <3>1 DEF CloseEnds, TableInv, RangeInv, Reused
    <2>4. CASE ConnectionDone
      BY <2>0, <2>1, <2>4 DEF ConnectionDone, TableInv, RangeInv, Reused
    <2>. QED  BY <1>1, <2>2, <2>3, <2>4
  <1>2. ASSUME NEW id \in Ids, CloseNext(id)
        PROVE  TableInv'
    <2>. DEFINE c == connections[id]
    <2>1. /\ ccMain = "closing" /\ c \in Numbers /\ KillConn(c)
          /\ ranged' = ranged \union {id}
          /\ UNCHANGED <<ccMain, rangeFrom, arrived, job, connections>>
      BY <1>2 DEF CloseNext, InTable, TypeOK, CCTypeOK
    <2>2. Told /\ conns'[c] # "up"
      BY <2>1, KillTells
    <2>3. JobInv'
      BY <2>1, <2>2 DEF TableInv, JobInv, Told, TypeOK, CCTypeOK
    <2>4. OpenIsNamed'
      BY <2>1 DEF TableInv, OpenIsNamed
    <2>5. RangeInv'
      BY <2>1, <2>2 DEF TableInv, RangeInv, Reused, Told
    <2>. QED  BY <2>3, <2>4, <2>5 DEF TableInv
  <1>. QED  BY <1>1, <1>2

\* TableInv holds when the agent starts.
LEMMA TableInit == Init => TableInv
  <1>. SUFFICES ASSUME Init PROVE TableInv
    OBVIOUS
  <1>1. \A n \in Numbers : job[n].pc = "none" /\ job[n].kind = "job"
    BY DEF Init, CCInit, Idle
  <1>. QED
    BY <1>1 DEF Init, CCInit, TableInv, JobInv, OpenIsNamed, RangeInv, NoConn

\* Every step keeps TableInv.
LEMMA TableStep == TypeOK /\ TableInv /\ [Next]_vars => TableInv'
  <1>. SUFFICES ASSUME TypeOK, TableInv, [Next]_vars PROVE TableInv'
    OBVIOUS
  <1>1. CASE UNCHANGED tableVars
    BY <1>1
    DEF tableVars, jobVars, TableInv, JobInv, OpenIsNamed, RangeInv, Reused
  <1>2. CASE Boot
    <2>1. \A n \in Numbers : job'[n].pc = "none" /\ job'[n].kind = "job"
      BY <1>2 DEF Boot, CCStart, Idle
    <2>. QED
      BY <1>2, <2>1
      DEF Boot, CCStart, TableInv, JobInv, OpenIsNamed, RangeInv, NoConn
  <1>3. CASE CCStep
    BY <1>1, <1>3, TableAlone, JobSteps, OpenStep, ForgetStep, RangeSteps
    DEF CCStep
  <1>4. CASE NodeSends
    BY <1>4, ReceiveStep DEF NodeSends
  <1>5. CASE Network
    BY <1>1, <1>5, TableAlone, ConnEndsStep
  <1>6. CASE RunStep
    BY <1>1, <1>6, TableAlone, JobSteps
  <1>7. CASE UNCHANGED vars
    BY <1>1, <1>7 DEF vars, ccVars, tombVars, tableVars
  <1>. QED
    BY <1>1, <1>2, <1>3, <1>4, <1>5, <1>6, <1>7, TableAlone DEF Next

\* TableInv holds in every reachable state.
LEMMA TableHolds == Spec => [](TypeOK /\ TableInv)
  BY TypeInit, TableInit, TypeStep, TableStep, PTL DEF Spec

\* Whatever order the goroutines of the messages run in, the table never names
\* a connection that has been done with.
THEOREM TableNamesTheLiving == Spec => []TableIsLive
  <1>1. TableInv => TableIsLive
    BY DEF TableInv, JobInv, TableIsLive
  <1>. QED  BY <1>1, TableHolds, PTL

\* A connection that is up is in the table, unless the node has used its id
\* again.
THEOREM OpenConnectionsAreNamed == Spec => []OpenIsNamed
  <1>1. TableInv => OpenIsNamed
    BY DEF TableInv
  <1>. QED  BY <1>1, TableHolds, PTL

\* When the channel has been closed no data connection that was in the table is
\* still up, whatever was opened, closed and forgotten during the range, unless
\* the node has used its id again.
THEOREM RangeClosesAll == Spec => []ClosesWhatWasOpen
  <1>1. TableInv => ClosesWhatWasOpen
    BY DEF TableInv, RangeInv, Reused, ClosesWhatWasOpen
  <1>. QED  BY <1>1, TableHolds, PTL
=============================================================================
