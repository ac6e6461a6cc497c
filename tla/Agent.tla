-------------------------------- MODULE Agent --------------------------------
(***************************************************************************)
(* The agent process around its control channel: Run, the monitor that     *)
(* restarts the agent when no pong has come for too long, the shutdown and *)
(* what is written down about it for the next process, which a supervisor  *)
(* (external) starts.                                                      *)
(***************************************************************************)
EXTENDS ControlChannel

CONSTANTS
  MaximumMissedPongSets,
  Scenes        \* what the surroundings may do, see scene

\* A scene without "minutes" is over before the next heartbeat is due.
Happenings == {"answer", "silent", "signal", "crash", "startFails", "giveUp",
               "connEnds", "minutes"}

\* bastionDisconnectTimeout is three heartbeats: when it has passed, at least
\* two have been due.
HeartbeatsDue == 2

ASSUME AgentAssumption ==
  /\ MaximumMissedPongSets \in Nat
  /\ \A s \in Scenes :
       /\ s.env \subseteq Happenings /\ s.messages \in 0..MaxMessages
       /\ s.sends \subseteq Kinds \X Ids
       /\ s.starts \in Nat \ {0} /\ s.breaks \in Nat

VARIABLES
  scene,         \* bounds: what may happen, how many messages, and which,
                 \* processes and breaks of the control connection; never changes
  proc,          \* "up" or "exited"
  aTomb, aErr,   \* the agent's tomb, whose only goroutine is the monitor
  monitor,       \* "select", "checking", "closing", "returned"
  sawReady,      \* what ShouldBeSendingPongs read of the connection
  verdict,       \* the monitor's error
  missed,        \* missedPongSets
  ticks,         \* heartbeats due since the monitor's timer was started
  skipped,       \* history: one of them found the connection down
  run,           \* Run: where it is
  reason,        \* the error it returns with
  signalled,     \* osSignalChan holds a signal
  silent,        \* the node no longer answers health checks
  reporter,      \* reportQualifiedShutdown: "none", "pending", "told" or
                 \* "panicked"
  shutdownInfo,  \* persisted: why the last process shut down
  starts, breaks

monitorVars == <<aTomb, aErr, monitor, sawReady, verdict, missed, ticks, skipped>>
runVars == <<proc, run, reason, signalled, reporter, shutdownInfo>>
envVars == <<scene, silent, starts, breaks>>
vars == <<ccVars, monitorVars, runVars, envVars>>

Init ==
  /\ scene \in Scenes
  /\ CCInit
  /\ proc = "up" /\ run = "start" /\ reason = "none" /\ signalled = FALSE
  /\ reporter = "none" /\ shutdownInfo = "none"
  /\ aTomb = "alive" /\ aErr = "none" /\ monitor = "select"
  /\ sawReady = FALSE /\ verdict = "none" /\ missed = 0
  /\ ticks = 0 /\ skipped = FALSE
  /\ silent = ("answer" \notin scene.env) /\ starts = 1 /\ breaks = 0

\* What the node is told about a shutdown of before.
Qualified == {"pongs", "restart"}

\* The supervisor starts the next process.
Boot ==
  /\ proc = "exited" /\ starts < scene.starts
  /\ CCStart
  /\ proc' = "up" /\ run' = "start" /\ reason' = "none" /\ signalled' = FALSE
  /\ reporter' = IF shutdownInfo \in Qualified THEN "pending" ELSE "none"
  /\ UNCHANGED shutdownInfo
  /\ aTomb' = "alive" /\ aErr' = "none" /\ monitor' = "select"
  /\ sawReady' = FALSE /\ verdict' = "none" /\ missed' = 0
  /\ ticks' = 0 /\ skipped' = FALSE
  /\ silent' = ("answer" \notin scene.env)
  /\ starts' = starts + 1 /\ UNCHANGED <<scene, breaks>>

-----------------------------------------------------------------------------
(* The monitor.                                                            *)

TimerRestarts == ticks' = 0 /\ skipped' = FALSE

MonitorPong ==
  /\ monitor = "select" /\ pongs > 0
  /\ pongs' = pongs - 1
  /\ missed' = 0 /\ TimerRestarts
  /\ UNCHANGED <<link, tombVars, jobVars, asked, isSendingPongs, aTomb, aErr,
                 monitor, sawReady, verdict>>

\* The timer fires; ShouldBeSendingPongs reads the state of the connection...
MonitorTimeout ==
  /\ monitor = "select" /\ ticks = HeartbeatsDue
  /\ monitor' = "checking" /\ sawReady' = (link = "ready")
  /\ UNCHANGED <<ccVars, aTomb, aErr, verdict, missed, ticks, skipped>>

ShouldBeSendingPongs == sawReady /\ isSendingPongs

\* Faulty variant: the missed set is not counted.
MonitorWaitsUncounted ==
  /\ monitor = "checking"
  /\ ~ShouldBeSendingPongs /\ missed < MaximumMissedPongSets
  /\ isSendingPongs' = sawReady
  /\ monitor' = "select" /\ TimerRestarts
  /\ UNCHANGED <<link, tombVars, jobVars, asked, pongs, aTomb, aErr, sawReady,
                 verdict, missed>>

\* Faulty variant: one missed set too many.
MonitorWaitsOnce ==
  /\ monitor = "checking"
  /\ ~ShouldBeSendingPongs /\ missed <= MaximumMissedPongSets
  /\ isSendingPongs' = sawReady
  /\ missed' = missed + 1
  /\ monitor' = "select" /\ TimerRestarts
  /\ UNCHANGED <<link, tombVars, jobVars, asked, pongs, aTomb, aErr, sawReady,
                 verdict>>

\* ... and then remembers it.  The monitor waits for one more set,
MonitorWaits ==
  /\ monitor = "checking"
  /\ ~ShouldBeSendingPongs /\ missed < MaximumMissedPongSets
  /\ isSendingPongs' = sawReady
  /\ missed' = missed + 1
  /\ monitor' = "select" /\ TimerRestarts
  /\ UNCHANGED <<link, tombVars, jobVars, asked, pongs, aTomb, aErr, sawReady,
                 verdict>>

\* or gives the control channel up.
MonitorGivesUp ==
  /\ monitor = "checking"
  /\ ShouldBeSendingPongs \/ missed >= MaximumMissedPongSets
  /\ isSendingPongs' = sawReady
  /\ Kill("pongs")
  /\ monitor' = "closing" /\ verdict' = "pongs"
  /\ UNCHANGED <<link, ccMain, ranged, rangeFrom, jobVars, asked,
                 pongs, aTomb, aErr, sawReady, missed, ticks, skipped>>

MonitorDying ==
  /\ monitor = "select" /\ aTomb = "dying"
  /\ Kill("agent")
  /\ monitor' = "closing"
  /\ UNCHANGED <<link, ccMain, ranged, rangeFrom, jobVars, pongVars,
                 aTomb, aErr, sawReady, verdict, missed, ticks, skipped>>

Return(err) ==
  /\ monitor' = "returned"
  /\ aTomb' = "dead"
  /\ aErr' = IF aTomb = "alive" THEN err ELSE aErr
  /\ UNCHANGED <<ccVars, sawReady, verdict, missed, ticks, skipped>>

\* Close has seen the channel dead, or its closeTimeout has passed.
MonitorClosed == monitor = "closing" /\ Return(verdict)

\* Faulty variant: the channel's own reason is not passed on.
MonitorDoneSilently ==
  monitor = "select" /\ ccTomb = "dead" /\ Return("connection")

MonitorDone == monitor = "select" /\ ccTomb = "dead" /\ Return(ccErr)

MonitorStep ==
  /\ \/ MonitorPong \/ MonitorTimeout \/ MonitorWaits \/ MonitorGivesUp
     \/ MonitorDying \/ MonitorClosed \/ MonitorDone
  /\ UNCHANGED <<runVars, envVars>>

-----------------------------------------------------------------------------
(* Run and Close.                                                          *)

RunTo(pc) ==
  run' = pc /\ UNCHANGED <<proc, signalled, reporter, shutdownInfo>>

\* Start-up errors leave before Close is deferred.
RunFails ==
  /\ run = "start" /\ "startFails" \in scene.env
  /\ run' = "failed" /\ proc' = "exited"
  /\ UNCHANGED <<ccVars, monitorVars, reason, signalled,
                 reporter, shutdownInfo>>

RunStarts ==
  run = "start" /\ RunTo("loop") /\ UNCHANGED <<ccVars, monitorVars, reason>>

RunDead ==
  /\ run = "loop" /\ aTomb = "dead"
  /\ reason' = aErr /\ RunTo("closeConn")
  /\ UNCHANGED <<ccVars, monitorVars>>

\* Faulty variant: Close waits for the monitor without telling it to end.
RunSignalNoKill ==
  /\ run = "loop" /\ signalled
  /\ reason' = "signal"
  /\ RunTo(IF aTomb = "alive" THEN "waitMonitor" ELSE "closeConn")
  /\ UNCHANGED <<ccVars, monitorVars>>

RunSignal ==
  /\ run = "loop" /\ signalled
  /\ reason' = "signal"
  /\ IF aTomb = "alive"
       THEN aTomb' = "dying" /\ aErr' = "signal" /\ RunTo("waitMonitor")
       ELSE RunTo("closeConn") /\ UNCHANGED <<aTomb, aErr>>
  /\ UNCHANGED <<ccVars, monitor, sawReady, verdict, missed, ticks, skipped>>

\* A runtime error is taken from its goroutine and reported, for 10s at most.
RunError(n) ==
  /\ run = "loop" /\ job[n].pc = "error"
  /\ SetJob(n, "done")
  /\ RunTo("reporting")
  /\ UNCHANGED <<link, tombVars, arrived, conns, connections, pongVars,
                 monitorVars, reason>>

RunReported ==
  run = "reporting" /\ RunTo("loop") /\ UNCHANGED <<ccVars, monitorVars, reason>>

RunWaited ==
  /\ run = "waitMonitor" /\ aTomb = "dead"
  /\ RunTo("closeConn") /\ UNCHANGED <<ccVars, monitorVars, reason>>

\* The control connection is closed, for 10s at most.
CloseConn ==
  /\ run = "closeConn"
  /\ LinkTo("dead")
  /\ RunTo("save") /\ UNCHANGED <<monitorVars, reason>>

\* An error of the store is ignored.
SetShutdownInfo ==
  /\ run = "save"
  /\ shutdownInfo' \in {reason, shutdownInfo}
  /\ run' = "saved"
  /\ UNCHANGED <<ccVars, monitorVars, proc, reason, signalled, reporter>>

\* The error is reported, for 10s at most, and the process ends.
Exit ==
  /\ run = "saved" /\ proc' = "exited"
  /\ UNCHANGED <<ccVars, monitorVars, run, reason, signalled,
                 reporter, shutdownInfo>>

RunStep ==
  /\ \/ RunFails \/ RunStarts \/ RunDead \/ RunSignal \/ RunReported
     \/ RunWaited \/ CloseConn \/ SetShutdownInfo \/ Exit
     \/ \E n \in Numbers : RunError(n)
  /\ UNCHANGED envVars

\* reportQualifiedShutdown, a goroutine that is started before anything else:
\* bastionClient is nil until startControlChannel has made it, and a nil client
\* ends the process.
ReportQualifiedShutdown ==
  /\ reporter = "pending"
  /\ IF run = "start"
       THEN reporter' = "panicked" /\ proc' = "exited" /\ run' = "crashed"
       ELSE reporter' = "told" /\ UNCHANGED <<proc, run>>
  /\ UNCHANGED <<ccVars, monitorVars, reason, signalled, shutdownInfo, envVars>>

-----------------------------------------------------------------------------
(* The control channel's goroutines, and the surroundings.                 *)

CCStep ==
  /\ \/ TombDies \/ CloseBegins \/ CloseEnds \/ ConnectionDone
     \/ \E id \in Ids : CloseNext(id)
     \/ \E n \in Numbers :
          \/ TakeMessage(n) \/ ProcessRestart(n) \/ ProcessJob(n)
          \/ OpenFails(n) \/ OpenSucceeds(n) \/ Forget(n)
          \/ ProcessClose(n)
  /\ UNCHANGED <<monitorVars, runVars, envVars>>

\* A minute passes: the ticker and the monitor's timer go on.
Minute ==
  /\ "minutes" \in scene.env /\ ticks < HeartbeatsDue
  /\ ticks' = ticks + 1
  /\ IF ccTomb = "alive" THEN Heartbeat /\ skipped' = (skipped \/ link # "ready")
     ELSE UNCHANGED <<ccVars, skipped>>
  /\ UNCHANGED <<aTomb, aErr, monitor, sawReady, verdict, missed, runVars, envVars>>

Answer ==
  /\ ~silent /\ HealthAnswered
  /\ UNCHANGED <<monitorVars, runVars, envVars>>

NodeSends ==
  /\ arrived < scene.messages
  /\ \E kind \in Kinds, id \in Ids : <<kind, id>> \in scene.sends /\ Receive(kind, id)
  /\ UNCHANGED <<monitorVars, runVars, envVars>>

Network ==
  /\ \/ LinkBreaks /\ breaks < scene.breaks /\ breaks' = breaks + 1
     \/ LinkReady /\ UNCHANGED breaks
     \/ "giveUp" \in scene.env /\ LinkGivesUp /\ UNCHANGED breaks
     \/ /\ \E n \in Numbers :
             (conns[n] = "dying" \/ "connEnds" \in scene.env) /\ ConnEnds(n)
        /\ UNCHANGED breaks
  /\ UNCHANGED <<monitorVars, runVars, scene, silent, starts>>

Falls ==
  /\ "silent" \in scene.env /\ ~silent /\ silent' = TRUE
  /\ UNCHANGED <<ccVars, monitorVars, runVars, scene, starts, breaks>>

Signal ==
  /\ "signal" \in scene.env /\ ~signalled /\ signalled' = TRUE
  /\ UNCHANGED <<ccVars, monitorVars, proc, run, reason, reporter,
                 shutdownInfo, envVars>>

Crash ==
  /\ "crash" \in scene.env /\ proc' = "exited" /\ run' = "crashed"
  /\ UNCHANGED <<ccVars, monitorVars, reason, signalled,
                 reporter, shutdownInfo, envVars>>

\* "concurrent map iteration and map write": a fatal error of the Go runtime.
MapRace ==
  /\ MapRaces /\ proc' = "exited" /\ run' = "crashed"
  /\ UNCHANGED <<ccVars, monitorVars, reason, signalled,
                 reporter, shutdownInfo, envVars>>

Up == proc = "up"
Serving == proc = "up" /\ run # "start"

Next ==
  \/ Boot
  \/ Up /\ (RunStep \/ ReportQualifiedShutdown \/ Signal \/ Crash)
  \/ Serving /\ (MonitorStep \/ CCStep \/ MapRace \/ Minute)
  \/ Serving /\ (Answer \/ NodeSends \/ Network \/ Falls)

Spec == Init /\ [][Next]_vars

\* Goroutines run and time passes; a select that finds several cases ready
\* picks at random, so a pong does not win over a dying tomb for ever.  The
\* node, the network, signals and crashes owe nothing; every wait of a shutdown
\* has a timeout.
FairSpec ==
  /\ Spec
  /\ WF_vars(Up /\ RunStep)
  /\ WF_vars(Serving /\ MonitorStep)
  /\ SF_vars(Serving /\ MonitorStep /\ MonitorDying)
  /\ WF_vars(Serving /\ CCStep)
  /\ WF_vars(Serving /\ Minute)

-----------------------------------------------------------------------------
(* Properties.                                                             *)

TypeOK ==
  /\ CCTypeOK
  /\ proc \in {"up", "exited"} /\ aTomb \in {"alive", "dying", "dead"}
  /\ monitor \in {"select", "checking", "closing", "returned"}
  /\ missed \in 0..MaximumMissedPongSets /\ ticks \in 0..HeartbeatsDue
  /\ {aErr, verdict, reason, shutdownInfo} \subseteq
       {"none", "signal", "pongs", "restart", "connection", "agent"}
  /\ sawReady \in BOOLEAN /\ skipped \in BOOLEAN
  /\ signalled \in BOOLEAN /\ silent \in BOOLEAN

\* The race that isSendingPongs is there for: as long as sets of pongs may be
\* missed, the agent is not restarted for a lack of them when a heartbeat of
\* the very interval found the connection down and so asked for none.
NoHastyRestart ==
  [][monitor = "checking" /\ monitor' = "closing"
       /\ missed < MaximumMissedPongSets => ~skipped]_vars

\* A restart that was asked for through the control channel is written down as
\* a shutdown to be reported, whatever the monitor and the connection do in
\* the meantime, unless the process was told to stop as well.
RestartIsQualified ==
  run = "saved" /\ ccErr = "restart" /\ ~signalled => reason \in Qualified

\* The table never names a connection that has been done with, so
\* CloseWebsocket and the final range close what is there.
TableIsLive ==
  \A id \in Ids :
    connections[id] # NoConn => job[connections[id]].pc = "waiting"

\* When the channel is closed, every data connection that was in the table is
\* told to close, although others come and go during the range, if the Go runtime
\* does not end the process for it; one whose id the node has used twice may be
\* missed.
ClosesWhatWasOpen ==
  ccMain = "returned" =>
    \A n \in Numbers :
      conns[n] = "up" /\ job[n].id \in rangeFrom =>
        \E m \in Numbers \ {n} : job[m].kind = "open" /\ job[m].id = job[n].id

\* A connection that is up can be found to be closed, as long as the node has
\* not used its id for another one.
OpenIsNamed ==
  \A n \in Numbers :
    job[n].pc = "waiting" =>
      \/ connections[job[n].id] = n
      \/ \E m \in Numbers \ {n} : job[m].kind = "open" /\ job[m].id = job[n].id

\* The watchdog: when the node no longer answers, the process ends, whatever
\* the connection seems to be doing.
Watchdog == silent ~> proc = "exited"

\* A signal ends the process, whatever is stuck.
SignalEnds == signalled ~> proc = "exited"

\* "Check whether we're restarting after a qualifying event, and thus need to
\* tell Bastion about it": the goroutine that is to tell it gets to do so.
ReportsRestart == reporter # "panicked"
=============================================================================
