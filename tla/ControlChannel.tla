--------------------------- MODULE ControlChannel ---------------------------
(***************************************************************************)
(* The agent's control channel: its main goroutine, the heartbeats, one    *)
(* goroutine for each message it is sent, and the table of data            *)
(* connections those goroutines share.  A message is numbered as it        *)
(* arrives, and the number stands for its goroutine and, for an            *)
(* OpenWebsocket, for the connection it creates.  The control connection   *)
(* below it is reduced to whether it is Ready.                             *)
(***************************************************************************)
EXTENDS Naturals, Sequences, FiniteSets

CONSTANTS
  Ids,           \* connection ids the node may name
  InputCap,      \* capacity of inputChan
  MaxMessages,   \* bound: messages other than health checks
  MaxPongs       \* bound: goroutines that wait to hand over a pong

ASSUME ControlAssumption ==
  /\ Ids # {} /\ InputCap \in Nat \ {0} /\ MaxMessages \in Nat
  /\ MaxPongs \in Nat

NoConn == 0
Numbers == 1..MaxMessages
\* RetrieveLogs, Configure and KeyShard do their work and may fail: "job".
Kinds == {"open", "close", "restart", "job"}

VARIABLES
  link,            \* the control connection: "down", "ready" or "dead"
  ccTomb,          \* "alive", "dying", "dead"
  ccErr,           \* why the tomb was killed
  ccMain,          \* the main goroutine: "loop", "closing", "returned"
  ranged,          \* the ids its range over connections has visited
  rangeFrom,       \* the ids in the table when the range began
  arrived,         \* number of messages so far, of all processes
  job,             \* job[n]: kind, id and state of message n
  conns,           \* conns[n]: the data connection made for message n
  connections,     \* the table: connections[id] is a number or NoConn
  asked,           \* a health check has been sent and not answered
  pongs,           \* goroutines waiting on agentPongChan
  isSendingPongs

tombVars == <<ccTomb, ccErr, ccMain, ranged, rangeFrom>>
jobVars == <<arrived, job, conns, connections>>
pongVars == <<asked, pongs, isSendingPongs>>
ccVars == <<link, tombVars, jobVars, pongVars>>

Idle == [kind |-> "job", id |-> CHOOSE i \in Ids : TRUE, pc |-> "none"]

\* Start.  The control connection is made in the background: not Ready yet.
CCInit ==
  /\ link = "down"
  /\ ccTomb = "alive" /\ ccErr = "none" /\ ccMain = "loop"
  /\ ranged = {} /\ rangeFrom = {}
  /\ arrived = 0 /\ job = [n \in Numbers |-> Idle]
  /\ conns = [n \in Numbers |-> "none"]
  /\ connections = [id \in Ids |-> NoConn]
  /\ asked = FALSE /\ pongs = 0 /\ isSendingPongs = FALSE

CCStart ==
  /\ link' = "down"
  /\ ccTomb' = "alive" /\ ccErr' = "none" /\ ccMain' = "loop"
  /\ ranged' = {} /\ rangeFrom' = {}
  /\ UNCHANGED arrived /\ job' = [n \in Numbers |-> Idle]
  /\ conns' = [n \in Numbers |-> "none"]
  /\ connections' = [id \in Ids |-> NoConn]
  /\ asked' = FALSE /\ pongs' = 0 /\ isSendingPongs' = FALSE

-----------------------------------------------------------------------------
(* The tomb: the first reason stays.                                       *)

Kill(reason) ==
  IF ccTomb = "alive" THEN ccTomb' = "dying" /\ ccErr' = reason
  ELSE UNCHANGED <<ccTomb, ccErr>>

\* Both goroutines of the tomb have ended; the heartbeats stop at once.
TombDies ==
  /\ ccTomb = "dying" /\ ccMain = "returned"
  /\ ccTomb' = "dead"
  /\ UNCHANGED <<link, ccErr, ccMain, ranged, rangeFrom, jobVars,
                 pongVars>>

-----------------------------------------------------------------------------
(* Health.                                                                 *)

\* Faulty variant: a heartbeat that is not sent leaves isSendingPongs alone.
HeartbeatUnaware ==
  /\ asked' = (asked \/ link = "ready")
  /\ UNCHANGED <<link, tombVars, jobVars, pongs, isSendingPongs>>

\* The ticker: ask for a health check, or own up to being disconnected.
Heartbeat ==
  /\ asked' = (asked \/ link = "ready")
  /\ isSendingPongs' = (isSendingPongs /\ link = "ready")
  /\ UNCHANGED <<link, tombVars, jobVars, pongs>>

\* The answer is handed to a goroutine that waits for the agent to take it.
HealthAnswered ==
  /\ asked /\ link = "ready" /\ ccMain = "loop"
  /\ asked' = FALSE
  /\ pongs < MaxPongs
  /\ pongs' = pongs + 1
  /\ UNCHANGED <<link, tombVars, jobVars, isSendingPongs>>

-----------------------------------------------------------------------------
(* Messages.                                                               *)

Queued == {n \in Numbers : job[n].pc = "queued"}
SetJob(n, pc) == job' = [job EXCEPT ![n].pc = pc]

\* Receive: the connection pushes a message onto inputChan.
Receive(kind, id) ==
  /\ link = "ready" /\ arrived < MaxMessages
  /\ Cardinality(Queued) < InputCap
  /\ arrived' = arrived + 1
  /\ job' = [job EXCEPT ![arrived + 1] =
                          [kind |-> kind, id |-> id, pc |-> "queued"]]
  /\ UNCHANGED <<link, tombVars, conns, connections, pongVars>>

\* The main goroutine starts a goroutine for the oldest message.
TakeMessage(n) ==
  /\ ccMain = "loop" /\ n \in Queued /\ \A m \in Queued : n <= m
  /\ SetJob(n, "started")
  /\ UNCHANGED <<link, tombVars, arrived, conns, connections, pongVars>>

Started(n, kind) == job[n].pc = "started" /\ job[n].kind = kind

\* Restart: closes the channel; waiting for it to be dead changes nothing.
ProcessRestart(n) ==
  /\ Started(n, "restart")
  /\ Kill("restart")
  /\ SetJob(n, "done")
  /\ UNCHANGED <<link, ccMain, ranged, rangeFrom, arrived, conns,
                 connections, pongVars>>

\* RetrieveLogs, Configure, KeyShard: an error is reported to the agent.
ProcessJob(n) ==
  /\ Started(n, "job")
  /\ SetJob(n, "done") \/ SetJob(n, "error")
  /\ UNCHANGED <<link, tombVars, arrived, conns, connections, pongVars>>

\* OpenWebsocket: dataconnection.New connects, which takes its time, and may
\* fail.
OpenFails(n) ==
  /\ Started(n, "open")
  /\ SetJob(n, "error")
  /\ UNCHANGED <<link, tombVars, arrived, conns, connections, pongVars>>

\* Faulty variant: the connection is not entered into the table.
OpenUntabled(n) ==
  /\ Started(n, "open")
  /\ SetJob(n, "waiting")
  /\ conns' = [conns EXCEPT ![n] = "up"]
  /\ UNCHANGED <<link, tombVars, arrived, connections, pongVars>>

\* updateConnectionsMap.
OpenSucceeds(n) ==
  /\ Started(n, "open")
  /\ SetJob(n, "waiting")
  /\ conns' = [conns EXCEPT ![n] = "up"]
  /\ connections' = [connections EXCEPT ![job[n].id] = n]
  /\ UNCHANGED <<link, tombVars, arrived, pongVars>>

\* Faulty variant: the id is not forgotten.
ForgetNothing(n) ==
  /\ job[n].pc = "waiting" /\ conns[n] = "dead"
  /\ SetJob(n, "done")
  /\ UNCHANGED <<link, tombVars, arrived, conns, connections, pongVars>>

\* The connection is done: deleteConnectionsMap.
Forget(n) ==
  /\ job[n].pc = "waiting" /\ conns[n] = "dead"
  /\ SetJob(n, "done")
  /\ connections' = [connections EXCEPT ![job[n].id] = NoConn]
  /\ UNCHANGED <<link, tombVars, arrived, conns, pongVars>>

KillConn(n) ==
  conns' = [conns EXCEPT ![n] = IF @ = "up" THEN "dying" ELSE @]

\* CloseWebsocket; it waits for the connection at most 10s.
ProcessClose(n) ==
  LET c == connections[job[n].id]
  IN
  /\ Started(n, "close")
  /\ IF c = NoConn THEN SetJob(n, "error") /\ UNCHANGED conns
     ELSE SetJob(n, "done") /\ KillConn(c)
  /\ UNCHANGED <<link, tombVars, arrived, connections, pongVars>>

-----------------------------------------------------------------------------
(* The main goroutine's other cases.                                       *)

InTable == {id \in Ids : connections[id] # NoConn}

CloseBegins ==
  /\ ccMain = "loop" /\ ccTomb = "dying"
  /\ ccMain' = "closing" /\ rangeFrom' = InTable
  /\ UNCHANGED <<link, ccTomb, ccErr, ranged, jobVars, pongVars>>

\* The range over connections: in any order, without those deleted before
\* they are reached.
CloseNext(id) ==
  /\ ccMain = "closing"
  /\ id \in InTable \ ranged
  /\ ranged' = ranged \union {id}
  /\ KillConn(connections[id])
  /\ UNCHANGED <<link, ccTomb, ccErr, ccMain, rangeFrom, arrived, job,
                 connections, pongVars>>

\* Faulty variant: the range is left after its first connection.
CloseEndsEarly ==
  /\ ccMain = "closing"
  /\ ccMain' = "returned"
  /\ UNCHANGED <<link, ccTomb, ccErr, ranged, rangeFrom, jobVars, pongVars>>

\* An id that was added during the range may be passed over.
CloseEnds ==
  /\ ccMain = "closing"
  /\ (InTable \intersect rangeFrom) \subseteq ranged
  /\ ccMain' = "returned"
  /\ UNCHANGED <<link, ccTomb, ccErr, ranged, rangeFrom, jobVars,
                 pongVars>>

\* Both ranges over connections, this one and that of reportHealth, are made without
\* connectionsLock.  Go aborts the process when one of them goes on while another
\* goroutine is writing: updateConnectionsMap or deleteConnectionsMap.
Iterates == ccMain = "closing" \/ (ccTomb = "alive" /\ link = "ready")
Writes(n) ==
  Started(n, "open") \/ (job[n].pc = "waiting" /\ conns[n] = "dead")
MapRaces == Iterates /\ \E n \in Numbers : Writes(n)

\* The control connection is done: the data connections are not closed.
ConnectionDone ==
  /\ ccMain = "loop" /\ link = "dead"
  /\ ccMain' = "returned"
  /\ Kill("connection")
  /\ UNCHANGED <<link, ranged, rangeFrom, jobVars, pongVars>>

-----------------------------------------------------------------------------
(* What the connections do.                                                *)

LinkTo(state) ==
  /\ link' = state
  /\ asked' = (asked /\ state = "ready")
  /\ UNCHANGED <<tombVars, jobVars, pongs, isSendingPongs>>

LinkBreaks == link = "ready" /\ LinkTo("down")
LinkReady == link = "down" /\ LinkTo("ready")
LinkGivesUp == link = "down" /\ LinkTo("dead")

ConnEnds(n) ==
  /\ conns[n] \in {"up", "dying"}
  /\ conns' = [conns EXCEPT ![n] = "dead"]
  /\ UNCHANGED <<link, tombVars, arrived, job, connections, pongVars>>

-----------------------------------------------------------------------------
CCTypeOK ==
  /\ link \in {"down", "ready", "dead"}
  /\ ccTomb \in {"alive", "dying", "dead"}
  /\ ccErr \in {"none", "restart", "connection", "pongs", "agent"}
  /\ ccMain \in {"loop", "closing", "returned"}
  /\ ranged \subseteq Ids /\ rangeFrom \subseteq Ids
  /\ arrived \in 0..MaxMessages
  /\ job \in [Numbers -> [kind : Kinds, id : Ids,
                          pc : {"none", "queued", "started", "waiting",
                                "error", "done"}]]
  /\ conns \in [Numbers -> {"none", "up", "dying", "dead"}]
  /\ connections \in [Ids -> Numbers \union {NoConn}]
  /\ asked \in BOOLEAN /\ pongs \in Nat /\ isSendingPongs \in BOOLEAN
=============================================================================
