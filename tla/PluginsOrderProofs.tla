-------------------------- MODULE PluginsOrderProofs --------------------------
(***************************************************************************)
(* The client of a session gets the target's chunks in order and all of    *)
(* them before the end: what the messages on their way down carry, in      *)
(* queues that keep their order and by numbers where they do not.          *)
(***************************************************************************)
EXTENDS PluginsProofs

-----------------------------------------------------------------------------
(* From the target to the client, in messages that keep their order.       *)

Fifo == {"pwdb", "opaque", "shell", "kubeexec"}
Queued == {"pwdb", "kubeexec"}

DownWay == IF Kind = "kubeexec" THEN "exec" ELSE "down"
DownRun(s, lo, hi) == Run(s, lo, hi, DownWay, {scene.downs})

\* Nothing more will be shown to the client.
DownBlocked ==
  d.lost \/ (Kind \in Queued /\ d.go["writer"] = "end")

\* What has come and what is on its way goes on after chunk k.
DownFlow(k) ==
  \E p, q \in Nat :
    /\ DownRun(d.inq, k, p)
    /\ IF d.dc = "push" THEN Carries(d.held, p, q, DownWay, {scene.downs}) ELSE q = p
    /\ d.dc \in {"none", "run", "push"} =>
         \E r \in Nat :
           /\ DownRun(down, q, r)
           /\ Forwards(a) /\ a.go["reader"] # "end" => r = LastSent

\* Before it starts the daemon's action has sent nothing and nothing comes.
FreshInv ==
  /\ d.dc = "none" => d.act = "none" /\ Kind \in {"opaque", "shell"}
  /\ d.act = "none" => outbox = <<>> /\ up = <<>> /\ down = <<>> /\ d.keys = <<>>

\* Nobody asks for what a shell has written before.
NoReplay(s) == \A i \in DOMAIN s : s[i].t # "Replay"
ReplayInv == Kind = "shell" => NoReplay(outbox) /\ NoReplay(up)

EndInv ==
  /\ Kind \in {"pwdb", "opaque"} /\ a.go["reader"] = "stop" => TargetOver
  /\ Kind = "kubeexec" /\ a.conn = "closed" => ~Forwards(a) \/ a.go["reader"] = "end"
  /\ Kind \in Queued /\ d.ended => d.go["writer"] = "end"
  /\ d.lost => client.eof \/ (Kind = "pwdb" /\ d.go["writer"] = "end")
  /\ d.ended /\ ~d.lost => Kind = "shell" \/ Complete
  /\ Kind = "pwdb" /\ d.act \in {"none", "connecting"} => d.go["writer"] = "off"

DownChunks ==
  \E k \in Nat : Segment(client.got, 0, k) /\ (DownBlocked \/ DownFlow(k))

DownInv ==
  /\ DOMAIN client = ClientFields /\ TargetShape /\ scene.downs \in Nat
  /\ IsSeq(down) /\ IsSeq(d.inq)
  /\ target.sent \in 0..scene.downs
  /\ a.go["reader"] = "put" => target.sent > 0
  /\ Kind \notin Queued => d.inq = <<>> /\ d.dc \in {"none", "run", "gone"}
  /\ EndInv /\ DownChunks

\* A step of the daemon that shows no chunk and takes none that would be shown.
QuietDown ==
  /\ UNCHANGED <<scene, a, target>>
  /\ DOMAIN client' = ClientFields /\ client'.got = client.got
  /\ client.eof => client'.eof
  /\ d'.inq = d.inq /\ (d'.lost <=> d.lost) /\ (d'.ended <=> d.ended)
  /\ d.go["writer"] = "end" => d'.go["writer"] = "end"
  /\ Kind = "pwdb" /\ d'.act \in {"none", "connecting"} =>
       d.act \in {"none", "connecting"} /\ d'.go["writer"] = d.go["writer"]
  /\ \/ down' = down /\ d'.dc = d.dc /\ d'.held = d.held
     \/ down' = down /\ d.dc = "none" /\ d'.dc = "run"
     \/ IsSeq(down') /\ d'.dc \notin {"none", "run", "push"}
          /\ (Kind \notin Queued => d'.dc = "gone")

-----------------------------------------------------------------------------
(* From the target to the client, in messages that are numbered.           *)

Numbered == {"dial", "webdial"}

\* The messages on their way to the daemon's action.
Flying ==
  Range(down) \cup Range(d.inq) \cup d.buf \cup (IF d.dc = "push" THEN {d.held} ELSE {})

\* The agent's action reads no more from the target.
SendingOver == IF Kind = "dial" THEN a.go["reader"] = "end" ELSE target.err

\* What the number of message m says.
Placed(m) ==
  /\ m.t = "Stream" =>
       \/ /\ m.seq < target.sent /\ m.ns = <<m.seq + 1>>
          /\ m.more \/ (Kind = "webdial" /\ target.sent = scene.downs
                           /\ m.seq + 1 = scene.downs)
       \/ /\ Kind = "dial" /\ ~m.more /\ m.ns = <<>>
          /\ target.sent = scene.downs /\ m.seq = scene.downs
       \/ Kind = "webdial" /\ m.more /\ m.ns = <<>> /\ SendingOver /\ m.seq >= target.sent
  /\ Kind = "dial" /\ m.t = "Error" => SendingOver /\ m.seq = target.sent
  /\ m.seq \in Nat

\* The agent's numbers.
SeqInv ==
  /\ target.sent \in 0..scene.downs /\ a.seq \in Nat
  /\ Kind = "dial" => /\ a.seq = LastSent
                      /\ a.go["reader"] = "put" => target.sent > 0
                      /\ a.go["reader"] = "stop" => TargetOver
  /\ Kind = "webdial" => a.seq >= target.sent /\ (a.seq = target.sent \/ SendingOver)

\* The client has the chunks before the one that the daemon's action waits for.
NextInv ==
  /\ d.next \in Nat
  /\ Kind = "dial" /\ d.act = "none" => d.go["writer"] = "off"
  /\ Kind = "webdial" => \A m \in d.buf : m.t = "Stream"
  /\ d.lost => client.eof
  /\ d.ended => IF Kind = "dial" THEN d.go["writer"] = "end" ELSE d.handler = "end"
  /\ d.ended /\ ~d.lost => Complete
  /\ \E k \in Nat :
       /\ Segment(client.got, 0, k)
       /\ d.lost \/ d.next = k \/ (SendingOver /\ d.next > target.sent)

NumberInv ==
  /\ DOMAIN client = ClientFields /\ TargetShape /\ scene.downs \in Nat
  /\ IsSeq(down) /\ IsSeq(d.inq)
  /\ SeqInv /\ NextInv
  /\ \A m \in Flying : Placed(m)

\* A step of the daemon that shows no chunk and gets no message.
QuietNumber ==
  /\ UNCHANGED <<scene, a, target>>
  /\ DOMAIN client' = ClientFields /\ client'.got = client.got
  /\ client.eof => client'.eof
  /\ IsSeq(down') /\ IsSeq(d'.inq) /\ Flying' \subseteq Flying
  /\ d'.next = d.next /\ (d'.lost <=> d.lost) /\ (d'.ended <=> d.ended)
  /\ Kind = "dial" /\ d.act = "none" =>
       d'.go["writer"] = d.go["writer"] \/ d'.act # "none"
  /\ Kind = "dial" /\ d.act # "none" => d'.act # "none"
  /\ Kind = "dial" /\ d.go["writer"] = "end" => d'.go["writer"] = "end"
  /\ Kind = "webdial" =>
       /\ d.handler = "end" => d'.handler = "end"
       /\ \A m \in d'.buf : m \in d.buf \/ m.t = "Stream"

-----------------------------------------------------------------------------
(* Before the daemon's action starts.                                      *)

\* Nothing moves but the start, and what started stays so.
LEMMA FreshStep ==
  ASSUME DaemonShape, AgentShape, OpenerInv, PanicInv, FreshInv, Kind \in Fifo, Next
  PROVE  FreshInv'
  <1>. USE DEF DaemonShape, DaemonFields, Goroutines, DaemonOnly, AgentOnly
  <1>1. Kind \in Careful /\ Kind # "attach" /\ Kind # "dial" /\ Kind # "webdial"
    BY DEF Fifo, Careful
  <1>2. DaemonMoves \/ AgentMoves
    BY <1>1, StepMoves
  <1>3. /\ SharedSteps \/ DbNext \/ OpaqueSteps \/ ShellNext \/ WebDialSteps \/ KubeExecSteps
        /\ ~WebDialSteps
    <2>1. ~WebDialSteps
      BY <1>1 DEF Fifo, WebDialSteps, WebKinds, WebStartRefused, WebDialStart, WebDialBody,
         WebDialCancelled, WebDialDying, WebDialTake, WebDialProcess,
         WebDialStartReceived, WebDialInputReceived, WebDialLastReceived,
         WebDialInterruptReceived, WebDialReads, WebDialResponse, WebAgentDying
    <2>. QED  BY <1>1, <2>1, CarefulSteps
  <1>4. d.act # "none" => d'.act # "none"
    BY <1>2 DEF DaemonMoves, AgentMoves
  <1>5. d'.dc = "none" => d.dc = "none"
    <2>1. CASE SharedSteps
      BY <2>1 DEF SharedSteps, ClientEnds, TargetEnds, Close, Zap, DaemonChannel,
         ReceiveError, ReceiveStream, PushStream, Undelivered, KillWaiting, KillReturns,
         PluginDone, Drain, Drained, KillTomb, AgentChannel, ReceiveRefused,
         AgentClose, AgentKilled, InputKilled, AgentPluginDone
    <2>2. CASE DbNext
      <3>1. CASE WriterDying \/ PwdbProcess
        BY <3>1 DEF WriterDying, PwdbProcess, PwdbWrite, WriterReturns, Returns
      <3>2. CASE LocalReadDying \/ PwdbCloseSent
        BY <3>2 DEF LocalReadDying, PwdbCloseSent, Returns, CloseDone
      <3>3. CASE ~(WriterDying \/ PwdbProcess \/ LocalReadDying \/ PwdbCloseSent)
        BY <1>1, <2>2, <3>3 DEF DbNext, DbStartRefused, LocalRead, LocalInput, DialStart,
           DialStopSent, DialTake, DialProcess, PwdbStart, PwdbReceiveMrtap,
           PwdbStartFails, DialStartReceived, DialInputReceived, DbCloseReceived,
           PwdbConnectReceived, PwdbInputReceived, RemoteRead, RemoteStream,
           RemoteEnd, RemoteReadDying, DbDying, AgentDying, Go
      <3>. QED  BY <3>1, <3>2, <3>3
    <2>3. CASE OpaqueSteps
      <3>1. CASE OpaqueStart
        BY <3>1 DEF OpaqueStart, SshStarts
      <3>2. CASE ~OpaqueStart
        BY <2>3, <3>2 DEF OpaqueSteps, OpaqueRead, OpaqueSend, OpaqueReceiveStream,
           OpaqueDone, OpaqueKill, OpaqueOpenReceived, OpaqueInputReceived,
           OpaqueCloseReceived, OpaqueRemoteRead, OpaqueRemoteSend, OpaqueDying,
           AgentDying, Returns, CloseDone, KillTomb
      <3>. QED  BY <3>1, <3>2
    <2>4. CASE ShellNext
      <3>1. CASE ShellStart
        BY <3>1 DEF ShellStart
      <3>2. CASE ~ShellStart
        BY <2>4, <3>2 DEF ShellNext, ShellResize, ShellKey, ShellInput, ShellDone,
           ShellReceive, ShellKill, ShellOpenReceived, ShellInputReceived,
           ShellResizeReceived, ShellReplayReceived, ShellPumpRead, ShellPumpSend,
           ShellPumpEnds, ShellDying, ShellKilled, AgentDying, Returns, CloseDone,
           KillTomb
      <3>. QED  BY <3>1, <3>2
    <2>5. CASE KubeExecSteps
      <3>1. CASE KubeExecStart \/ KubeStartRefused
        BY <3>1 DEF KubeExecStart, KubeStartRefused, Leaves, Go
      <3>2. CASE KubeExecWrite
        BY <3>2 DEF KubeExecWrite, Returns, CloseDone
      <3>3. CASE KubeExecClosed \/ KubeExecRead
        BY <3>3 DEF KubeExecClosed, KubeExecRead, Returns, CloseDone
      <3>4. CASE KubeExecSend \/ KubeExecResize
        BY <3>4 DEF KubeExecSend, KubeExecResize, Returns, CloseDone
      <3>5. CASE \/ KubeExecStartReceived \/ KubeExecInputReceived \/ KubeExecStopReceived
                 \/ KubeExecStdin \/ KubeExecStdout \/ KubeExecEnds \/ KubeExecDying
                 \/ KubeExecKilled \/ KubeExecResizeReceived
        BY <3>5 DEF KubeExecStartReceived, KubeExecInputReceived, KubeExecStopReceived,
           KubeExecStdin, KubeExecStdout, KubeExecEnds, KubeExecDying, KubeExecKilled,
           KubeExecResizeReceived, AgentDying
      <3>. QED  BY <2>5, <3>1, <3>2, <3>3, <3>4, <3>5 DEF KubeExecSteps
    <2>. QED  BY <1>3, <2>1, <2>2, <2>3, <2>4, <2>5
  <1>6. ASSUME d.act = "none"
        PROVE  \/ d'.act = d.act /\ d'.keys = d.keys /\ UNCHANGED <<outbox, up, down>>
               \/ d'.act # "none" /\ d'.dc # "none"
               \/ d'.act # "none" /\ Kind \notin {"opaque", "shell"}
    <2>1. /\ outbox = <<>> /\ up = <<>> /\ d.keys = <<>> /\ a.go["reader"] = "off"
          /\ d.handler = "off" /\ d.go[Closer] = "off"
          /\ \A m : ~Takes(m)
      <3>1. down = <<>> /\ DOMAIN <<>> = {}
        BY <1>6 DEF FreshInv
      <3>. QED  BY <1>1, <1>6, <3>1 DEF FreshInv, OpenerInv, PanicInv, Unsent, Takes
    <2>2. CASE SharedSteps
      <3>1. CASE ClientEnds \/ TargetEnds \/ Close \/ Zap
        BY <2>1, <3>1 DEF ClientEnds, TargetEnds, Close, Zap
      <3>2. CASE DaemonChannel
        BY <1>6, <2>1, <3>2 DEF DaemonChannel, ReceiveError, ReceiveStream, PushStream,
           Undelivered, KillWaiting, KillReturns, PluginDone, Drain, Drained, FreshInv
      <3>3. CASE AgentChannel
        BY <2>1, <3>3 DEF AgentChannel, ReceiveRefused, AgentClose, AgentKilled,
           InputKilled, AgentPluginDone
      <3>. QED  BY <2>2, <3>1, <3>2, <3>3 DEF SharedSteps
    <2>3. CASE DbNext
      <3>1. CASE \/ DbStartRefused \/ PwdbStart \/ PwdbReceiveMrtap \/ PwdbStartFails
        BY <1>6, <2>1, <3>1 DEF DbStartRefused, DbKinds, PwdbStart, PwdbReceiveMrtap,
           PwdbStartFails
      <3>2. CASE LocalRead \/ LocalReadDying \/ LocalInput \/ PwdbCloseSent
        BY <1>1, <2>1, <3>2 DEF LocalRead, LocalReadDying, LocalInput, PwdbCloseSent,
           Closer, DbKinds
      <3>3. CASE WriterDying \/ PwdbProcess
        <4>1. UNCHANGED <<outbox, up, down>>
          BY <3>3 DEF WriterDying, PwdbProcess
        <4>2. d'.keys = d.keys /\ d'.act = d.act
          BY <3>3 DEF WriterDying, PwdbProcess, PwdbWrite, WriterReturns, Returns
        <4>. QED  BY <4>1, <4>2
      <3>4. ~(DialStart \/ DialStopSent \/ DialTake \/ DialProcess)
        BY <1>1 DEF DialStart, DialStopSent, DialTake, DialProcess
      <3>5. CASE \/ DialStartReceived \/ DialInputReceived \/ DbCloseReceived
                 \/ PwdbConnectReceived \/ PwdbInputReceived
        BY <2>1, <3>5 DEF DialStartReceived, DialInputReceived, DbCloseReceived,
           PwdbConnectReceived, PwdbInputReceived, Receives
      <3>6. CASE RemoteRead \/ RemoteStream \/ RemoteEnd \/ RemoteReadDying \/ DbDying
        BY <2>1, <3>6 DEF RemoteRead, RemoteStream, RemoteEnd, RemoteReadDying, DbDying,
           AgentDying
      <3>. QED  BY <2>3, <3>1, <3>2, <3>3, <3>4, <3>5, <3>6 DEF DbNext
    <2>4. CASE OpaqueSteps
      <3>1. CASE OpaqueStart
        <4>1. d'.act = "started" /\ d'.dc = "run"
          BY <3>1 DEF OpaqueStart, Go, SshStarted
        <4>. QED  BY <4>1
      <3>2. CASE OpaqueRead \/ OpaqueSend \/ OpaqueDone \/ OpaqueKill \/ OpaqueReceiveStream
        BY <1>6, <2>1, <3>2 DEF OpaqueRead, OpaqueSend, OpaqueDone, OpaqueKill,
           OpaqueReceiveStream, KillTomb, Closer
      <3>3. CASE \/ OpaqueOpenReceived \/ OpaqueInputReceived \/ OpaqueCloseReceived
                 \/ OpaqueRemoteRead \/ OpaqueRemoteSend \/ OpaqueDying
        BY <2>1, <3>3 DEF OpaqueOpenReceived, OpaqueInputReceived, OpaqueCloseReceived,
           OpaqueRemoteRead, OpaqueRemoteSend, OpaqueDying, AgentDying, Receives
      <3>. QED  BY <2>4, <3>1, <3>2, <3>3 DEF OpaqueSteps
    <2>5. CASE ShellNext
      <3>1. CASE ShellStart
        <4>1. d'.act = "started" /\ d'.dc = "run"
          BY <3>1 DEF ShellStart, Go
        <4>. QED  BY <4>1
      <3>2. CASE \/ ShellResize \/ ShellKey \/ ShellInput \/ ShellDone \/ ShellReceive
                 \/ ShellKill
        BY <1>1, <1>6, <2>1, <3>2 DEF ShellResize, ShellKey, ShellInput, ShellDone,
           ShellReceive, ShellKill, KillTomb, Closer, ShellKinds
      <3>3. CASE \/ ShellOpenReceived \/ ShellInputReceived \/ ShellResizeReceived
                 \/ ShellReplayReceived \/ ShellPumpRead \/ ShellPumpSend \/ ShellPumpEnds
                 \/ ShellDying \/ ShellKilled
        BY <2>1, <3>3 DEF ShellOpenReceived, ShellInputReceived, ShellResizeReceived,
           ShellReplayReceived, ShellPumpRead, ShellPumpSend, ShellPumpEnds,
           ShellDying, ShellKilled, AgentDying, Receives
      <3>. QED  BY <2>5, <3>1, <3>2, <3>3 DEF ShellNext
    <2>6. CASE KubeExecSteps
      <3>1. CASE KubeStartRefused \/ KubeExecStart
        <4>1. d'.act # "none"
          BY <3>1 DEF KubeStartRefused, KubeExecStart, Leaves, Go
        <4>2. Kind \notin {"opaque", "shell"}
          BY <3>1 DEF KubeStartRefused, KubeExecStart, KubeKinds
        <4>. QED  BY <4>1, <4>2
      <3>2. CASE \/ KubeExecWrite \/ KubeExecClosed \/ KubeExecRead \/ KubeExecSend
                 \/ KubeExecResize
        BY <2>1, <3>2 DEF KubeExecWrite, KubeExecClosed, KubeExecRead, KubeExecSend,
           KubeExecResize, Closer
      <3>3. CASE \/ KubeExecStartReceived \/ KubeExecInputReceived \/ KubeExecStopReceived
                 \/ KubeExecStdin \/ KubeExecStdout \/ KubeExecEnds \/ KubeExecDying
                 \/ KubeExecKilled \/ KubeExecResizeReceived
        BY <2>1, <3>3 DEF KubeExecStartReceived, KubeExecInputReceived,
           KubeExecStopReceived, KubeExecStdin, KubeExecStdout, KubeExecEnds,
           KubeExecDying, KubeExecKilled, KubeExecResizeReceived, AgentDying, Receives
      <3>. QED  BY <2>6, <3>1, <3>2, <3>3 DEF KubeExecSteps
    <2>. QED  BY <1>3, <2>2, <2>3, <2>4, <2>5, <2>6
  <1>7. Kind' = Kind
    BY SceneStays DEF Kind
  <1>. QED  BY <1>4, <1>5, <1>6, <1>7 DEF FreshInv

-----------------------------------------------------------------------------
(* What a step does to the chunks on their way down.                       *)

\* The operators of one state are those of the next when the scene stays.
LEMMA DownStateStays ==
  ASSUME UNCHANGED scene
  PROVE  Kind' = Kind /\ DownWay' = DownWay
  BY DEF Kind, DownWay

\* Nothing more will be shown.
LEMMA ChunksBlocked ==
  ASSUME DownChunks, client'.got = client.got, DownBlocked'
  PROVE  DownChunks'
  BY DEF DownChunks, Segment

\* The daemon's steps that move no chunk.
LEMMA ChunksStay ==
  ASSUME DownChunks, UNCHANGED <<scene, a, target>>, client'.got = client.got,
         d'.inq = d.inq, DownBlocked => DownBlocked',
         \/ down' = down /\ d'.dc = d.dc /\ d'.held = d.held
         \/ down' = down /\ d.dc = "none" /\ d'.dc = "run"
         \/ d'.dc \notin {"none", "run", "push"}
  PROVE  DownChunks'
  <1>1. PICK k \in Nat : Segment(client.got, 0, k) /\ (DownBlocked \/ DownFlow(k))
    BY DEF DownChunks
  <1>2. Segment(client.got, 0, k)'
    BY <1>1 DEF Segment
  <1>3. LastSent' = LastSent
    BY DEF LastSent
  <1>4. ASSUME DownFlow(k) PROVE DownFlow(k)'
    <2>1. PICK p \in Nat, q \in Nat :
            /\ DownRun(d.inq, k, p)
            /\ IF d.dc = "push" THEN Carries(d.held, p, q, DownWay, {scene.downs}) ELSE q = p
            /\ d.dc \in {"none", "run", "push"} =>
                 \E r \in Nat :
                   /\ DownRun(down, q, r)
                   /\ Forwards(a) /\ a.go["reader"] # "end" => r = LastSent
      BY <1>4 DEF DownFlow
    <2>2. DownRun(d.inq, k, p)'
      <3>1. Run(d'.inq, k, p, DownWay', {scene'.downs})
        BY <2>1, DownStateStays DEF DownRun
      <3>. QED  BY <3>1, RunStays DEF DownRun
    <2>3. CASE d'.dc \notin {"none", "run", "push"}
      BY <2>2, <2>3 DEF DownFlow
    <2>4. CASE \/ down' = down /\ d'.dc = d.dc /\ d'.held = d.held
               \/ down' = down /\ d.dc = "none" /\ d'.dc = "run"
      <3>1. IF d'.dc = "push" THEN Carries(d.held, p, q, DownWay, {scene.downs})'
            ELSE q = p
        BY <2>1, <2>4, DownStateStays DEF Carries
      <3>2. ASSUME NEW r \in Nat, DownRun(down, q, r) PROVE DownRun(down, q, r)'
        <4>1. Run(down', q, r, DownWay', {scene'.downs})
          BY <2>4, <3>2, DownStateStays DEF DownRun
        <4>. QED  BY <4>1, RunStays DEF DownRun
      <3>. QED  BY <1>3, <2>1, <2>2, <2>4, <3>1, <3>2 DEF DownFlow
    <2>. QED  BY <2>3, <2>4
  <1>. QED  BY <1>1, <1>2, <1>4 DEF DownChunks

\* The agent's steps: the messages down still go up to the last chunk sent.
LEMMA ChunksSent ==
  ASSUME DownChunks, UNCHANGED <<scene, d, client>>,
         \A q, r \in Nat :
           /\ DownRun(down, q, r)
           /\ Forwards(a) /\ a.go["reader"] # "end" => r = LastSent
           => \E s \in Nat :
                /\ Run(down', q, s, DownWay, {scene.downs})
                /\ Forwards(a') /\ a'.go["reader"] # "end" => s = LastSent'
  PROVE  DownChunks'
  <1>1. PICK k \in Nat : Segment(client.got, 0, k) /\ (DownBlocked \/ DownFlow(k))
    BY DEF DownChunks
  <1>2. Segment(client.got, 0, k)' /\ (DownBlocked => DownBlocked')
    BY <1>1 DEF Segment, DownBlocked, Kind
  <1>3. ASSUME DownFlow(k) PROVE DownFlow(k)'
    <2>1. PICK p \in Nat, q \in Nat :
            /\ DownRun(d.inq, k, p)
            /\ IF d.dc = "push" THEN Carries(d.held, p, q, DownWay, {scene.downs}) ELSE q = p
            /\ d.dc \in {"none", "run", "push"} =>
                 \E r \in Nat :
                   /\ DownRun(down, q, r)
                   /\ Forwards(a) /\ a.go["reader"] # "end" => r = LastSent
      BY <1>3 DEF DownFlow
    <2>2. DownRun(d.inq, k, p)'
      <3>1. Run(d'.inq, k, p, DownWay', {scene'.downs})
        BY <2>1, DownStateStays DEF DownRun
      <3>. QED  BY <3>1, RunStays DEF DownRun
    <2>3. IF d'.dc = "push" THEN Carries(d.held, p, q, DownWay, {scene.downs})' ELSE q = p
      BY <2>1, DownStateStays DEF Carries
    <2>4. ASSUME d.dc \in {"none", "run", "push"}
          PROVE  \E s \in Nat :
                   /\ DownRun(down, q, s)'
                   /\ (Forwards(a) /\ a.go["reader"] # "end")' => s = LastSent'
      <3>1. PICK s \in Nat :
              /\ Run(down', q, s, DownWay, {scene.downs})
              /\ Forwards(a') /\ a'.go["reader"] # "end" => s = LastSent'
        BY <2>1, <2>4
      <3>2. DownRun(down, q, s)'
        <4>1. Run(down', q, s, DownWay', {scene'.downs})
          BY <3>1, DownStateStays
        <4>. QED  BY <4>1, RunStays DEF DownRun
      <3>. QED  BY <3>1, <3>2 DEF Forwards
    <2>. QED  BY <2>2, <2>3, <2>4 DEF DownFlow
  <1>. QED  BY <1>1, <1>2, <1>3 DEF DownChunks

\* What the head of the messages says when the data channel takes it, and what is left.
LEMMA HeadCarries ==
  ASSUME DownChunks, ~DownBlocked, IsSeq(down), down # <<>>, d.dc = "run"
  PROVE  \E k, p, q, r \in Nat :
           /\ Segment(client.got, 0, k) /\ DownRun(d.inq, k, p)
           /\ Carries(Head(down), p, q, DownWay, {scene.downs})
           /\ DownRun(Tail(down), q, r)
           /\ Forwards(a) /\ a.go["reader"] # "end" => r = LastSent
  <1>1. PICK k \in Nat : Segment(client.got, 0, k) /\ DownFlow(k)
    BY DEF DownChunks
  <1>2. PICK p \in Nat, r \in Nat :
          /\ DownRun(d.inq, k, p) /\ DownRun(down, p, r)
          /\ Forwards(a) /\ a.go["reader"] # "end" => r = LastSent
    BY <1>1 DEF DownFlow
  <1>3. PICK q \in Nat : /\ Carries(Head(down), p, q, DownWay, {scene.downs})
                         /\ DownRun(Tail(down), q, r)
    BY <1>2, RunTail DEF DownRun
  <1>. QED  BY <1>1, <1>2, <1>3

\* A state whose chunks are on their way.
LEMMA ChunksFlow ==
  ASSUME UNCHANGED <<scene, a, target>>, NEW k \in Nat, NEW p \in Nat, NEW q \in Nat,
         NEW r \in Nat, Segment(client'.got, 0, k), DownRun(d'.inq, k, p),
         IF d'.dc = "push" THEN Carries(d'.held, p, q, DownWay, {scene.downs}) ELSE q = p,
         DownRun(down', q, r), Forwards(a) /\ a.go["reader"] # "end" => r = LastSent
  PROVE  DownChunks'
  <1>1. Segment(client.got, 0, k)' /\ LastSent' = LastSent
    BY DEF Segment, LastSent
  <1>2. DownRun(d.inq, k, p)' /\ DownRun(down, q, r)'
    <2>1. /\ Run(d'.inq, k, p, DownWay', {scene'.downs})
          /\ Run(down', q, r, DownWay', {scene'.downs})
      BY DownStateStays DEF DownRun
    <2>. QED  BY <2>1, RunStays DEF DownRun
  <1>3. IF d'.dc = "push" THEN Carries(d.held, p, q, DownWay, {scene.downs})' ELSE q = p
    BY DownStateStays DEF Carries
  <1>4. (Forwards(a) /\ a.go["reader"] # "end")' => r = LastSent'
    BY <1>1 DEF Forwards
  <1>5. DownFlow(k)'
    BY <1>2, <1>3, <1>4 DEF DownFlow
  <1>. QED  BY <1>1, <1>5 DEF DownChunks

\* A message without chunks that nobody keeps.
LEMMA ChunksIgnored ==
  ASSUME DownChunks, UNCHANGED <<scene, a, target>>, IsSeq(down), down # <<>>,
         d.dc = "run", d'.dc = "run", down' = Tail(down), d'.inq = d.inq,
         client'.got = client.got, DownBlocked => DownBlocked',
         Head(down).ns = <<>>, ~(DownWay = "exec" /\ Head(down).t = "Error")
  PROVE  DownChunks'
  <1>1. CASE DownBlocked
    BY <1>1, ChunksBlocked
  <1>2. CASE ~DownBlocked
    <2>1. PICK k \in Nat, p \in Nat, q \in Nat, r \in Nat :
            /\ Segment(client.got, 0, k) /\ DownRun(d.inq, k, p)
            /\ Carries(Head(down), p, q, DownWay, {scene.downs})
            /\ DownRun(Tail(down), q, r)
            /\ Forwards(a) /\ a.go["reader"] # "end" => r = LastSent
      BY <1>2, HeadCarries
    <2>2. q = p
      BY <2>1, SegmentNone DEF Carries
    <2>. QED  BY <2>1, <2>2, ChunksFlow
  <1>. QED  BY <1>1, <1>2

\* The data channel takes a message to hand it over,
LEMMA ChunksReceived ==
  ASSUME DownChunks, UNCHANGED <<scene, a, target>>, IsSeq(down), down # <<>>,
         d.dc = "run", d'.dc = "push", d'.held = Head(down), down' = Tail(down),
         d'.inq = d.inq, client'.got = client.got, DownBlocked => DownBlocked'
  PROVE  DownChunks'
  <1>1. CASE DownBlocked
    BY <1>1, ChunksBlocked
  <1>2. CASE ~DownBlocked
    BY <1>2, HeadCarries, ChunksFlow
  <1>. QED  BY <1>1, <1>2

\* and hands it over.
LEMMA ChunksPushed ==
  ASSUME DownChunks, UNCHANGED <<scene, a, target, down>>, IsSeq(d.inq),
         d.dc = "push", d'.dc = "run", d'.inq = Append(d.inq, d.held),
         client'.got = client.got, DownBlocked => DownBlocked'
  PROVE  DownChunks'
  <1>1. CASE DownBlocked
    BY <1>1, ChunksBlocked
  <1>2. CASE ~DownBlocked
    <2>1. PICK k \in Nat : Segment(client.got, 0, k) /\ DownFlow(k)
      BY <1>2 DEF DownChunks
    <2>2. PICK p \in Nat, q \in Nat, r \in Nat :
            /\ DownRun(d.inq, k, p) /\ Carries(d.held, p, q, DownWay, {scene.downs})
            /\ DownRun(down, q, r)
            /\ Forwards(a) /\ a.go["reader"] # "end" => r = LastSent
      BY <2>1 DEF DownFlow
    <2>3. DownRun(d'.inq, k, q)
      BY <2>2, RunAppend DEF DownRun
    <2>. QED  BY <2>1, <2>2, <2>3, ChunksFlow
  <1>. QED  BY <1>1, <1>2

-----------------------------------------------------------------------------
\* When the stream ends the client has all.
LEMMA FinalIsAll ==
  ASSUME NEW k \in Nat, NEW q \in Nat, NEW m, Segment(client.got, 0, k),
         Carries(m, k, q, DownWay, {scene.downs}), Final(m, DownWay),
         m.t # "Error"
  PROVE  Complete
  <1>1. q = scene.downs /\ Segment(<<>>, k, q)
    BY DEF Carries
  <1>2. k = scene.downs
    BY <1>1, SegmentNone
  <1>. QED  BY <1>2, SegmentFirst DEF Complete

\* What a write to the client leaves.
LEMMA ShownChunks ==
  ASSUME DOMAIN client = ClientFields, NEW k \in Nat, NEW q \in Nat, NEW m,
         Segment(client.got, 0, k), Segment(m.ns, k, q)
  PROVE  /\ DOMAIN Shown(m) = ClientFields /\ Shown(m).eof = client.eof
         /\ client.eof => Shown(m).got = client.got
         /\ ~client.eof => Segment(Shown(m).got, 0, q)
  <1>1. /\ DOMAIN Shown(m) = ClientFields /\ Shown(m).eof = client.eof
        /\ Shown(m).got = IF client.eof THEN client.got ELSE client.got \o m.ns
    BY DEF Shown, ClientFields
  <1>2. Segment(client.got \o m.ns, 0, q)
    BY SegmentConcat
  <1>. QED  BY <1>1, <1>2

\* The client keeps what it has.
LEMMA ShownKeeps ==
  ASSUME DOMAIN client = ClientFields, NEW m
  PROVE  /\ DOMAIN Shown(m) = ClientFields /\ Shown(m).eof = client.eof
         /\ client.eof => Shown(m).got = client.got
  BY DEF Shown, ClientFields

\* Nothing is missing of what is complete when there is no more.
LEMMA CompleteStays ==
  ASSUME NEW k \in Nat, NEW q \in Nat, NEW m, UNCHANGED scene, scene.downs \in Nat,
         Segment(client.got, 0, k), Carries(m, k, q, DownWay, {scene.downs}),
         Segment(m.ns, k, q), Segment(client'.got, 0, q), Complete
  PROVE  Complete'
  <1>1. k = scene.downs
    BY SegmentFirst DEF Complete
  <1>2. CASE m.ns = <<>>
    <2>1. q = k
      BY <1>2, SegmentNone
    <2>. QED  BY <1>1, <2>1, SegmentFirst DEF Complete
  <1>3. CASE m.ns # <<>>
    <2>1. q <= scene.downs /\ k <= q
      BY <1>3, SegmentLen DEF Carries, DownWay
    <2>2. q = scene.downs
      BY <1>1, <2>1
    <2>. QED  BY <2>2, SegmentFirst DEF Complete
  <1>. QED  BY <1>2, <1>3

\* A step of the daemon keeps the rest.
LEMMA DownDaemon ==
  ASSUME DownInv, UNCHANGED <<scene, a, target>>, DownChunks',
         DOMAIN client' = ClientFields, IsSeq(down'), IsSeq(d'.inq),
         Kind \notin Queued => d'.inq = <<>> /\ d'.dc \in {"none", "run", "gone"},
         Kind \in Queued /\ d'.ended => d'.go["writer"] = "end",
         d'.lost => client'.eof \/ (Kind = "pwdb" /\ d'.go["writer"] = "end"),
         d'.ended /\ ~d'.lost => Kind = "shell" \/ Complete',
         Kind = "pwdb" /\ d'.act \in {"none", "connecting"} => d'.go["writer"] = "off"
  PROVE  DownInv'
  <1>1. Kind' = Kind
    BY DEF Kind
  <1>2. /\ TargetShape' /\ target'.sent \in 0..scene'.downs
        /\ a'.go["reader"] = "put" => target'.sent > 0
    BY DEF DownInv, TargetShape
  <1>3. EndInv'
    BY <1>1 DEF DownInv, EndInv, TargetOver, Forwards
  <1>. QED  BY <1>1, <1>2, <1>3 DEF DownInv

\* A step of the daemon that moves no chunk.
LEMMA DownQuiet ==
  ASSUME DownInv, QuietDown
  PROVE  DownInv'
  <1>. USE DEF QuietDown
  <1>1. Kind' = Kind /\ (DownBlocked => DownBlocked')
    BY DEF Kind, DownBlocked
  <1>2. DownChunks'
    BY <1>1, ChunksStay DEF DownInv
  <1>3. Complete => Complete'
    BY DEF Complete
  <1>4. EndInv /\ IsSeq(down')
    BY DEF DownInv
  <1>. QED  BY <1>1, <1>2, <1>3, <1>4, DownDaemon DEF DownInv, EndInv

\* The data channel's main goroutine shows what it takes (opaque, shell).
LEMMA DownShown ==
  ASSUME DownInv, UNCHANGED <<scene, a, target>>, Kind \notin Queued, scene.downs \in Nat,
         down # <<>>, down' = Tail(down), d.dc = "run", d'.dc = "run", d'.inq = d.inq,
         NEW m, m = Head(down), client' = Shown(m), d'.lost <=> Unshown(m),
         d'.ended => d.ended \/ Final(m, DownWay), m.t # "Error"
  PROVE  DownInv'
  <1>1. /\ DownChunks /\ EndInv /\ IsSeq(down) /\ d.inq = <<>> /\ DOMAIN client = ClientFields
        /\ Kind # "pwdb" /\ IsSeq(down') /\ Kind' = Kind
    BY TailMoves DEF DownInv, Queued, Kind
  <1>2. /\ DOMAIN client' = ClientFields /\ client'.eof = client.eof
        /\ client.eof => client'.got = client.got
    BY <1>1, ShownKeeps
  <1>3. d'.lost => client'.eof
    BY <1>1, <1>2 DEF EndInv, Unshown
  <1>4. DownBlocked <=> d.lost
    BY DEF DownBlocked
  <1>5. CASE d.lost
    <2>1. client'.got = client.got /\ d'.lost /\ DownBlocked'
      BY <1>1, <1>2, <1>5 DEF EndInv, Unshown, DownBlocked
    <2>2. DownChunks'
      BY <1>1, <2>1, ChunksBlocked
    <2>. QED  BY <1>1, <1>2, <1>3, <2>1, <2>2, DownDaemon DEF DownInv, Queued
  <1>6. CASE ~d.lost
    <2>1. PICK k \in Nat, p \in Nat, q \in Nat, r \in Nat :
            /\ Segment(client.got, 0, k) /\ DownRun(d.inq, k, p)
            /\ Carries(m, p, q, DownWay, {scene.downs}) /\ DownRun(Tail(down), q, r)
            /\ Forwards(a) /\ a.go["reader"] # "end" => r = LastSent
      BY <1>1, <1>4, <1>6, HeadCarries
    <2>2. p = k /\ Carries(m, k, q, DownWay, {scene.downs}) /\ Segment(m.ns, k, q)
      <3>1. p = k
        <4>1. Run(<<>>, k, p, DownWay, {scene.downs})
          BY <1>1, <2>1 DEF DownRun
        <4>. QED  BY <4>1, RunNone
      <3>2. Segment(m.ns, p, q)
        BY <2>1 DEF Carries
      <3>. QED  BY <2>1, <3>1, <3>2
    <2>3. CASE client.eof /\ m.ns # <<>>
      <3>1. d'.lost /\ DownBlocked' /\ client'.got = client.got
        BY <1>2, <2>3 DEF Unshown, DownBlocked
      <3>2. DownChunks'
        BY <1>1, <3>1, ChunksBlocked
      <3>. QED  BY <1>1, <1>2, <1>3, <3>1, <3>2, DownDaemon DEF DownInv, Queued
    <2>4. CASE ~client.eof \/ m.ns = <<>>
      <3>1. Segment(client'.got, 0, q) /\ ~d'.lost
        <4>1. ~client.eof => Segment(client'.got, 0, q)
          BY <1>1, <2>1, <2>2, ShownChunks
        <4>2. m.ns = <<>> => q = k
          BY <2>2, SegmentNone
        <4>. QED  BY <1>2, <1>6, <2>1, <2>4, <4>1, <4>2 DEF Unshown
      <3>2. DownRun(d'.inq, q, q)
        BY <1>1, RunNone DEF DownRun
      <3>3. DownChunks'
        BY <2>1, <3>1, <3>2, ChunksFlow
      <3>4. d'.ended => Kind = "shell" \/ Complete'
        <4>1. Final(m, DownWay) => Complete
          BY <2>1, <2>2, FinalIsAll
        <4>2. Complete => Complete'
          BY <2>1, <2>2, <3>1, CompleteStays
        <4>. QED  BY <1>1, <1>6, <4>1, <4>2 DEF EndInv
      <3>. QED  BY <1>1, <1>2, <1>3, <3>3, <3>4, DownDaemon DEF DownInv, Queued
    <2>. QED  BY <2>3, <2>4
  <1>. QED  BY <1>5, <1>6

-----------------------------------------------------------------------------
\* The writer shows the first message that was handed over (pwdb, kubeexec).
LEMMA DownWritten ==
  ASSUME DownInv, UNCHANGED <<scene, a, target, down>>, Kind \in Queued,
         d.inq # <<>>, d'.inq = Tail(d.inq), d'.dc = d.dc, d'.held = d.held,
         NEW m, m = Head(d.inq), client' = Shown(m), d'.lost <=> Unshown(m), m.t # "Error",
         d.go["writer"] = "run", d'.go = d.go, d'.ended <=> d.ended, d'.act = d.act
  PROVE  DownInv'
  <1>1. /\ DownChunks /\ EndInv /\ IsSeq(d.inq) /\ IsSeq(d'.inq)
        /\ IsSeq(down') /\ DOMAIN client = ClientFields /\ ~d.ended /\ Kind' = Kind
    BY TailMoves DEF DownInv, EndInv, Kind
  <1>2. /\ DOMAIN client' = ClientFields /\ client'.eof = client.eof
        /\ client.eof => client'.got = client.got
    BY <1>1, ShownKeeps
  <1>3. d'.lost => client'.eof
    BY <1>1, <1>2 DEF EndInv, Unshown
  <1>4. ASSUME DownChunks' PROVE DownInv'
    BY <1>1, <1>2, <1>3, <1>4, DownDaemon DEF EndInv
  <1>5. CASE d.lost
    <2>1. client'.got = client.got /\ DownBlocked'
      BY <1>1, <1>2, <1>5 DEF EndInv, Unshown, DownBlocked
    <2>. QED  BY <1>1, <1>4, <2>1, ChunksBlocked
  <1>6. CASE ~d.lost
    <2>1. PICK k \in Nat : Segment(client.got, 0, k) /\ DownFlow(k)
      BY <1>1, <1>6 DEF DownChunks, DownBlocked
    <2>2. PICK p \in Nat, q \in Nat :
            /\ DownRun(d.inq, k, p)
            /\ IF d.dc = "push" THEN Carries(d.held, p, q, DownWay, {scene.downs}) ELSE q = p
            /\ d.dc \in {"none", "run", "push"} =>
                 \E r \in Nat :
                   /\ DownRun(down, q, r)
                   /\ Forwards(a) /\ a.go["reader"] # "end" => r = LastSent
      BY <2>1 DEF DownFlow
    <2>3. PICK n \in Nat : /\ Carries(m, k, n, DownWay, {scene.downs})
                           /\ DownRun(Tail(d.inq), n, p)
      BY <1>1, <2>2, RunTail DEF DownRun
    <2>4. Segment(m.ns, k, n)
      BY <2>3 DEF Carries
    <2>5. CASE client.eof /\ m.ns # <<>>
      <3>1. DownBlocked' /\ client'.got = client.got
        BY <1>2, <2>5 DEF Unshown, DownBlocked
      <3>. QED  BY <1>1, <1>4, <3>1, ChunksBlocked
    <2>6. CASE ~client.eof \/ m.ns = <<>>
      <3>1. Segment(client'.got, 0, n)
        <4>1. ~client.eof => Segment(client'.got, 0, n)
          BY <1>1, <2>1, <2>4, ShownChunks
        <4>2. m.ns = <<>> => n = k
          BY <2>4, SegmentNone
        <4>. QED  BY <1>2, <2>1, <2>6, <4>1, <4>2
      <3>2. CASE d.dc \in {"none", "run", "push"}
        BY <2>2, <2>3, <3>1, <3>2, <1>4, ChunksFlow
      <3>3. CASE d.dc \notin {"none", "run", "push"}
        <4>1. DownRun(d.inq, n, p)'
          <5>1. Run(d'.inq, n, p, DownWay', {scene'.downs})
            BY <2>3, DownStateStays DEF DownRun
          <5>. QED  BY <5>1, RunStays DEF DownRun
        <4>2. DownFlow(n)'
          BY <3>3, <4>1 DEF DownFlow
        <4>3. Segment(client.got, 0, n)'
          BY <3>1 DEF Segment
        <4>. QED  BY <1>4, <4>2, <4>3 DEF DownChunks
      <3>. QED  BY <3>2, <3>3
    <2>. QED  BY <2>5, <2>6
  <1>. QED  BY <1>5, <1>6

\* A step of the agent keeps the rest.
LEMMA DownAgent ==
  ASSUME DownInv, UNCHANGED <<scene, d, client>>, DownChunks', TargetShape',
         IsSeq(down'), target'.sent \in 0..scene.downs,
         a'.go["reader"] = "put" => target'.sent > 0,
         Kind \in {"pwdb", "opaque"} /\ a'.go["reader"] = "stop" => TargetOver',
         Kind = "kubeexec" /\ a'.conn = "closed" => ~Forwards(a') \/ a'.go["reader"] = "end"
  PROVE  DownInv'
  <1>1. Kind' = Kind /\ Complete' = Complete
    BY DEF Kind, Complete
  <1>2. EndInv'
    BY <1>1 DEF DownInv, EndInv, Forwards
  <1>. QED  BY <1>1, <1>2 DEF DownInv

\* Messages without chunks make a run no longer.
LEMMA RunNeutral ==
  ASSUME NEW s, IsSeq(s), NEW t, IsSeq(t), NEW p \in Nat, NEW q \in Nat, NEW way, NEW ends,
         Run(s, p, q, way, ends),
         \A i \in DOMAIN t : t[i].ns = <<>> /\ ~Final(t[i], way)
  PROVE  IsSeq(s \o t) /\ Run(s \o t, p, q, way, ends)
  <1>. DEFINE u == s \o t
              n == Len(s)
              k == Len(t)
  <1>1. /\ n \in Nat /\ k \in Nat /\ Len(u) = n + k /\ IsSeq(u) /\ DOMAIN t = 1..k
        /\ \A i \in 1..(n + k) : u[i] = IF i <= n THEN s[i] ELSE t[i - n]
    <2>1. PICK S : s \in Seq(S)
      BY DEF IsSeq
    <2>2. PICK T : t \in Seq(T)
      BY DEF IsSeq
    <2>3. s \in Seq(S \union T) /\ t \in Seq(S \union T)
      BY <2>1, <2>2
    <2>4. u \in Seq(S \union T)
      BY <2>3
    <2>. QED  BY <2>3, <2>4 DEF IsSeq
  <1>2. PICK f \in [0..n -> Nat] :
          /\ f[0] = p /\ f[n] = q
          /\ \A i \in 1..n : Carries(s[i], f[i - 1], f[i], way, ends)
    BY DEF Run
  <1>. HIDE DEF u, n, k
  <1>. DEFINE g == [i \in 0..(n + k) |-> IF i <= n THEN f[i] ELSE q]
  <1>3. g \in [0..(n + k) -> Nat] /\ g[0] = p /\ g[n + k] = q
    BY <1>1, <1>2
  <1>4. ASSUME NEW i \in 1..(n + k) PROVE Carries(u[i], g[i - 1], g[i], way, ends)
    <2>1. CASE i <= n
      <3>1. u[i] = s[i] /\ g[i] = f[i] /\ g[i - 1] = f[i - 1] /\ i \in 1..n
        BY <1>1, <2>1
      <3>. QED  BY <1>2, <3>1
    <2>2. CASE ~(i <= n)
      <3>1. u[i] = t[i - n] /\ i - n \in DOMAIN t /\ g[i] = q /\ g[i - 1] = q
        BY <1>1, <1>2, <2>2
      <3>. QED  BY <3>1, SegmentNone DEF Carries
    <2>. QED  BY <2>1, <2>2
  <1>. HIDE DEF g
  <1>5. Run(u, p, q, way, ends)
    BY <1>1, <1>3, <1>4 DEF Run
  <1>. QED  BY <1>1, <1>5 DEF u

\* It sends nothing, or a message without chunks.
LEMMA DownSentNone ==
  ASSUME DownInv, UNCHANGED <<scene, d, client>>, TargetShape',
         \/ down' = down
         \/ \E m : m.ns = <<>> /\ ~Final(m, DownWay) /\ down' = Append(down, m),
         target'.sent \in 0..scene.downs, Forwards(a') => Forwards(a),
         a.go["reader"] = "end" => a'.go["reader"] = "end",
         a'.go["reader"] # "end" => LastSent' = LastSent,
         a'.go["reader"] = "put" => target'.sent > 0,
         Kind \in {"pwdb", "opaque"} /\ a'.go["reader"] = "stop" => TargetOver',
         Kind = "kubeexec" /\ a'.conn = "closed" => ~Forwards(a') \/ a'.go["reader"] = "end"
  PROVE  DownInv'
  <1>1. IsSeq(down) /\ DownChunks
    BY DEF DownInv
  <1>2. IsSeq(down')
    <2>1. \A m : IsSeq(Append(down, m))
      BY <1>1, AppendMoves
    <2>. QED  BY <1>1, <2>1
  <1>3. ASSUME NEW q \in Nat, NEW r \in Nat, DownRun(down, q, r)
        PROVE  Run(down', q, r, DownWay, {scene.downs})
    <2>1. CASE down' = down
      BY <1>3, <2>1 DEF DownRun
    <2>2. ASSUME NEW m, m.ns = <<>>, ~Final(m, DownWay), down' = Append(down, m)
          PROVE  Run(down', q, r, DownWay, {scene.downs})
      <3>1. Carries(m, r, r, DownWay, {scene.downs})
        BY <2>2, SegmentNone DEF Carries
      <3>. QED  BY <1>1, <1>3, <2>2, <3>1, RunAppend DEF DownRun
    <2>. QED  BY <2>1, <2>2
  <1>4. DownChunks'
    BY <1>1, <1>3, ChunksSent
  <1>. QED  BY <1>2, <1>4, DownAgent

\* It sends the next chunk.
LEMMA DownSentChunk ==
  ASSUME DownInv, UNCHANGED <<scene, d, client>>, TargetShape', scene.downs \in Nat,
         NEW m, down' = IF Forwards(a) THEN Append(down, m) ELSE down,
         m.t \in Shows, m.ns = <<target'.sent>>, m.more, LastSent + 1 = target'.sent,
         target'.sent \in 0..scene.downs, Forwards(a') => Forwards(a),
         a.go["reader"] # "end", a'.go["reader"] = "run",
         Kind = "kubeexec" /\ a'.conn = "closed" => ~Forwards(a')
  PROVE  DownInv'
  <1>1. IsSeq(down) /\ DownChunks /\ target.sent \in 0..scene.downs
        /\ (a.go["reader"] = "put" => target.sent > 0)
    BY DEF DownInv
  <1>2. IsSeq(down')
    BY <1>1, AppendMoves
  <1>3. LastSent \in Nat /\ LastSent' = target'.sent
    BY <1>1 DEF LastSent
  <1>4. Carries(m, LastSent, target'.sent, DownWay, {scene.downs})
    BY <1>3, SegmentOne DEF Carries, Final, DownWay
  <1>5. ASSUME NEW q \in Nat, NEW r \in Nat, DownRun(down, q, r),
               Forwards(a) /\ a.go["reader"] # "end" => r = LastSent
        PROVE  \E s \in Nat :
                 /\ Run(down', q, s, DownWay, {scene.downs})
                 /\ Forwards(a') /\ a'.go["reader"] # "end" => s = LastSent'
    <2>1. CASE Forwards(a)
      BY <1>1, <1>3, <1>4, <1>5, <2>1, RunAppend DEF DownRun
    <2>2. CASE ~Forwards(a)
      BY <1>5, <2>2 DEF DownRun
    <2>. QED  BY <2>1, <2>2
  <1>6. DownChunks'
    BY <1>1, <1>5, ChunksSent
  <1>. QED  BY <1>2, <1>6, DownAgent

\* It sends the end, when there is nothing more to read.
LEMMA DownSentLast ==
  ASSUME DownInv, UNCHANGED <<scene, d, client, target>>, scene.downs \in Nat,
         NEW m, down' = IF Forwards(a) THEN Append(down, m) ELSE down,
         m.ns = <<>>, Forwards(a) => LastSent = scene.downs,
         a.go["reader"] # "end", a'.go["reader"] = "end"
  PROVE  DownInv'
  <1>1. IsSeq(down) /\ DownChunks
    BY DEF DownInv
  <1>2. IsSeq(down')
    BY <1>1, AppendMoves
  <1>3. ASSUME NEW q \in Nat, NEW r \in Nat, DownRun(down, q, r),
               Forwards(a) /\ a.go["reader"] # "end" => r = LastSent
        PROVE  \E s \in Nat :
                 /\ Run(down', q, s, DownWay, {scene.downs})
                 /\ Forwards(a') /\ a'.go["reader"] # "end" => s = LastSent'
    <2>1. CASE Forwards(a)
      <3>1. r = scene.downs /\ Carries(m, r, r, DownWay, {scene.downs})
        BY <1>3, <2>1, SegmentNone DEF Carries
      <3>. QED  BY <1>1, <1>3, <2>1, <3>1, RunAppend DEF DownRun
    <2>2. CASE ~Forwards(a)
      BY <1>3, <2>2 DEF DownRun
    <2>. QED  BY <2>1, <2>2
  <1>4. DownChunks'
    BY <1>1, <1>3, ChunksSent
  <1>. QED  BY <1>2, <1>4, DownAgent DEF DownInv, TargetShape

-----------------------------------------------------------------------------
\* A shell's daemon never asks for a replay.
LEMMA ReplayStep ==
  ASSUME OpenerInv, ReplayInv, Next
  PROVE  ReplayInv'
  <1>. SUFFICES ASSUME Kind = "shell" PROVE NoReplay(outbox)' /\ NoReplay(up)'
    BY SceneStays DEF ReplayInv, Kind
  <1>1. IsSeq(outbox) /\ IsSeq(up) /\ NoReplay(outbox) /\ NoReplay(up)
    BY DEF OpenerInv, ReplayInv
  <1>2. ASSUME NEW m, m.t # "Replay", NEW s, IsSeq(s), NoReplay(s)
        PROVE  NoReplay(Append(s, m))
    BY <1>2, AppendMoves DEF NoReplay
  <1>3. ASSUME NEW s, IsSeq(s), s # <<>>, NoReplay(s)
        PROVE  NoReplay(Tail(s)) /\ Head(s).t # "Replay"
    BY <1>3, TailMoves DEF NoReplay
  <1>4. SharedSteps \/ ShellNext
    <2>1. SharedSteps \/ DbNext \/ OpaqueSteps \/ ShellNext \/ WebDialSteps \/ KubeExecSteps
      BY CarefulSteps DEF Careful
    <2>2. ~DbNext /\ ~OpaqueSteps
      BY DEF DbNext, DbKinds, DbStartRefused, DialStart, LocalRead, LocalReadDying,
         LocalInput, DialStopSent, DialTake, DialProcess, WriterDying, PwdbStart,
         PwdbStartFails, PwdbReceiveMrtap, PwdbProcess, PwdbCloseSent,
         DialStartReceived, DialInputReceived, PwdbConnectReceived, PwdbInputReceived,
         DbCloseReceived, RemoteRead, RemoteStream, RemoteEnd, RemoteReadDying, DbDying,
         OpaqueSteps, OpaqueStart, OpaqueRead, OpaqueSend, OpaqueReceiveStream, OpaqueDone,
         OpaqueKill, OpaqueOpenReceived, OpaqueInputReceived, OpaqueCloseReceived,
         OpaqueRemoteRead, OpaqueRemoteSend, OpaqueDying
    <2>3. ~WebDialSteps /\ ~KubeExecSteps
      BY DEF WebDialSteps, WebKinds, WebStartRefused, WebDialStart, WebDialBody,
         WebDialCancelled, WebDialDying, WebDialTake, WebDialProcess,
         WebDialStartReceived, WebDialInputReceived, WebDialLastReceived,
         WebDialInterruptReceived, WebDialReads, WebDialResponse, WebAgentDying,
         KubeExecSteps, KubeKinds, KubeStartRefused, KubeExecStart, KubeExecWrite,
         KubeExecClosed, KubeExecRead, KubeExecSend, KubeExecResize,
         KubeExecResizeReceived, KubeExecStartReceived, KubeExecInputReceived, KubeExecStopReceived, KubeExecStdin, KubeExecStdout,
         KubeExecEnds, KubeExecDying, KubeExecKilled
    <2>. QED  BY <2>1, <2>2, <2>3
  <1>5. CASE ClientEnds \/ TargetEnds \/ Close \/ DaemonChannel
    <2>1. UNCHANGED <<outbox, up>>
      BY <1>5 DEF ClientEnds, TargetEnds, Close, DaemonChannel, ReceiveError, ReceiveStream,
         PushStream, Undelivered, KillWaiting, KillReturns, PluginDone, Drain, Drained
    <2>. QED  BY <1>1, <2>1 DEF NoReplay
  <1>6. CASE Zap
    <2>1. outbox # <<>> /\ up' = Append(up, Head(outbox)) /\ outbox' = Tail(outbox)
      BY <1>6 DEF Zap
    <2>2. NoReplay(outbox') /\ NoReplay(up')
      BY <1>1, <1>2, <1>3, <2>1
    <2>. QED  BY <2>2 DEF NoReplay
  <1>7. CASE \/ AgentChannel \/ ShellOpenReceived \/ ShellInputReceived
             \/ ShellResizeReceived \/ ShellReplayReceived \/ ShellPumpRead \/ ShellPumpSend
             \/ ShellPumpEnds \/ ShellDying \/ ShellKilled
    <2>1. outbox' = outbox /\ (up' = up \/ (up # <<>> /\ up' = Tail(up)))
      BY <1>7 DEF AgentChannel, ReceiveRefused, AgentClose, AgentKilled, InputKilled,
         AgentPluginDone, ShellOpenReceived, ShellInputReceived, ShellResizeReceived,
         ShellReplayReceived, ShellPumpRead, ShellPumpSend, ShellPumpEnds, ShellDying,
         ShellKilled, AgentDying, Receives, AgentOnly
    <2>2. NoReplay(outbox') /\ NoReplay(up')
      BY <1>1, <1>3, <2>1
    <2>. QED  BY <2>2 DEF NoReplay
  <1>8. CASE ShellStart \/ ShellResize \/ ShellInput
    <2>1. /\ up' = up
          /\ \/ outbox' = Append(outbox, Act("Open", <<>>))
             \/ outbox' = Append(outbox, Act("Resize", <<>>))
             \/ outbox' = Append(outbox, Act("Input", d.keys))
      BY <1>8 DEF ShellStart, ShellResize, ShellInput, Put, ShellOpen
    <2>2. \A t, ns : Act(t, ns).t = t
      BY DEF Act
    <2>3. \E t, ns : t # "Replay" /\ outbox' = Append(outbox, Act(t, ns))
      BY <2>1
    <2>4. NoReplay(outbox')
      <3>1. PICK t, ns : t # "Replay" /\ outbox' = Append(outbox, Act(t, ns))
        BY <2>3
      <3>. QED  BY <1>1, <1>2, <2>2, <3>1
    <2>. QED  BY <1>1, <2>1, <2>4 DEF NoReplay
  <1>9. CASE ShellKey \/ ShellDone \/ ShellReceive \/ ShellKill
    <2>1. UNCHANGED <<outbox, up>>
      BY <1>9 DEF ShellKey, ShellDone, ShellReceive, ShellKill
    <2>. QED  BY <1>1, <2>1 DEF NoReplay
  <1>. QED  BY <1>4, <1>5, <1>6, <1>7, <1>8, <1>9 DEF SharedSteps, ShellNext

\* The reader of the agent's action, once ended, is not started again.
LEMMA ReaderStaysEnded ==
  ASSUME OpenerInv, AgentMoves, a.go["reader"] = "end"
  PROVE  a'.go["reader"] = "end"
  <1>1. up # <<>> => Head(up).t # Opener
    BY TailMoves DEF OpenerInv, HasOpener
  <1>. QED  BY <1>1 DEF AgentMoves, Reading

\* The steps of the daemon's data channel and of the client.
LEMMA DownShared ==
  ASSUME DaemonShape, FreshInv, DownInv, ~scene.reorder, Kind \in Fifo,
         ClientEnds \/ Close \/ Zap \/ DaemonChannel
  PROVE  DownInv'
  <1>. USE DEF DaemonShape, DaemonFields, Goroutines
  <1>1. /\ IsSeq(down) /\ IsSeq(d.inq) /\ DOMAIN client = ClientFields /\ EndInv
        /\ DownChunks
    BY DEF DownInv
  <1>2. UNCHANGED <<scene, a, target>> /\ Kind' = Kind
    BY DEF ClientEnds, Close, Zap, DaemonChannel, ReceiveError, ReceiveStream, PushStream,
       Undelivered, KillWaiting, KillReturns, PluginDone, Drain, Drained, DaemonOnly, Kind
  <1>3. CASE ClientEnds \/ Close \/ Zap
    BY <1>1, <1>2, <1>3, DownQuiet
       DEF ClientEnds, Close, Zap, QuietDown, ClientFields
  <1>4. CASE KillWaiting(DbKinds \cup WebKinds \cup {"kubeexec"})
    <2>1. Kind \in Queued
      BY <1>4 DEF KillWaiting, Fifo, Queued, DbKinds, WebKinds
    <2>. QED  BY <1>1, <1>2, <1>4, <2>1, DownQuiet DEF KillWaiting, KillTomb, QuietDown
  <1>5. CASE KillReturns \/ Drained
    BY <1>1, <1>2, <1>5, DownQuiet DEF KillReturns, Drained, QuietDown
  <1>6. CASE PluginDone(Kind \in Flushing)
    <2>1. Kind \in Flushing => Kind \in Queued
      BY DEF Flushing, Fifo, Queued, DbKinds, WebKinds, KubeKinds
    <2>. QED  BY <1>1, <1>2, <1>6, <2>1, DownQuiet DEF PluginDone, QuietDown
  <1>7. CASE Drain
    <2>1. IsSeq(down') /\ d.dc = "drain" /\ UNCHANGED <<d, client>>
      BY <1>1, <1>7, TakesHead, TailMoves DEF Drain
    <2>2. Kind \in Queued
      BY <2>1 DEF DownInv
    <2>. QED  BY <1>1, <1>2, <2>1, <2>2, DownQuiet DEF QuietDown
  <1>8. CASE Undelivered
    <2>1. IsSeq(down') /\ d.dc = "gone" /\ UNCHANGED <<d, client>>
      BY <1>1, <1>8, TailMoves DEF Undelivered, FreshInv
    <2>. QED  BY <1>1, <1>2, <2>1, DownQuiet DEF QuietDown
  <1>9. CASE ReceiveError
    <2>1. /\ d.dc = "run" /\ down # <<>> /\ down' = Tail(down) /\ Head(down).t = "Fail"
          /\ d' = [d EXCEPT !.dying = TRUE] /\ client' = client
      <3>1. PICK m : m.t = "Fail" /\ Takes(m)
        BY <1>9 DEF ReceiveError, Arrived
      <3>. QED  BY <1>1, <1>9, <3>1, TakesHead DEF ReceiveError
    <2>2. /\ d'.dc = "run" /\ d'.inq = d.inq /\ d'.lost = d.lost /\ d'.ended = d.ended
          /\ d'.go = d.go /\ d'.act = d.act
      BY <2>1
    <2>3. DownBlocked <=> DownBlocked'
      BY <1>2, <2>2 DEF DownBlocked
    <2>4. DownChunks'
      <3>1. CASE DownBlocked
        BY <1>1, <2>1, <2>3, <3>1, ChunksBlocked
      <3>2. CASE ~DownBlocked
        <4>1. Head(down).ns = <<>>
          BY <1>1, <2>1, <3>2, HeadCarries DEF Carries, Shows, DownWay
        <4>. QED  BY <1>1, <1>2, <2>1, <2>2, <2>3, <4>1, ChunksIgnored
      <3>. QED  BY <3>1, <3>2
    <2>5. IsSeq(down') /\ Complete' = Complete
      BY <1>1, <1>2, <2>1, TailMoves DEF Complete
    <2>. QED  BY <1>1, <1>2, <2>1, <2>2, <2>4, <2>5, DownDaemon DEF DownInv, EndInv
  <1>10. CASE ReceiveStream(Queueing, Streams)
    <2>1. /\ d.dc = "run" /\ down # <<>> /\ down' = Tail(down) /\ client' = client
          /\ d' = IF d.act = "none" THEN d ELSE [d EXCEPT !.dc = "push", !.held = Head(down)]
      <3>1. PICK m : /\ Takes(m)
                     /\ d' = IF d.act = "none" THEN d
                             ELSE [d EXCEPT !.dc = "push", !.held = m]
        BY <1>10 DEF ReceiveStream
      <3>. QED  BY <1>1, <1>10, <3>1, TakesHead DEF ReceiveStream
    <2>2. /\ d'.dc = "push" /\ d'.held = Head(down)
          /\ d'.inq = d.inq /\ d'.lost = d.lost /\ d'.ended = d.ended
          /\ d'.go = d.go /\ d'.act = d.act
      BY <2>1 DEF FreshInv
    <2>3. DownBlocked <=> DownBlocked'
      BY <1>2, <2>2 DEF DownBlocked
    <2>4. DownChunks'
      BY <1>1, <1>2, <2>1, <2>2, <2>3, ChunksReceived
    <2>5. IsSeq(down') /\ Complete' = Complete
      BY <1>1, <1>2, <2>1, TailMoves DEF Complete
    <2>6. Kind \in Queued
      BY <1>10 DEF ReceiveStream, Queueing, Flushing, Fifo, Queued, DbKinds, WebKinds,
         KubeKinds
    <2>. QED  BY <1>1, <1>2, <2>1, <2>2, <2>4, <2>5, <2>6, DownDaemon DEF EndInv
  <1>11. CASE PushStream
    <2>1. /\ d.dc = "push" /\ UNCHANGED <<down, client>>
          /\ d' = [d EXCEPT !.dc = "run", !.held = NoMsg, !.inq = Append(@, d.held)]
      BY <1>11 DEF PushStream
    <2>2. /\ d'.dc = "run" /\ d'.inq = Append(d.inq, d.held)
          /\ d'.lost = d.lost /\ d'.ended = d.ended /\ d'.go = d.go /\ d'.act = d.act
      BY <2>1
    <2>3. DownBlocked <=> DownBlocked'
      BY <1>2, <2>2 DEF DownBlocked
    <2>4. DownChunks'
      BY <1>1, <1>2, <2>1, <2>2, <2>3, ChunksPushed
    <2>5. IsSeq(d'.inq) /\ Complete' = Complete
      BY <1>1, <1>2, <2>1, <2>2, AppendMoves DEF Complete
    <2>6. Kind \in Queued
      BY <2>1 DEF DownInv
    <2>. QED  BY <1>1, <1>2, <2>1, <2>2, <2>4, <2>5, <2>6, DownDaemon DEF EndInv
  <1>. QED
    BY <1>3, <1>4, <1>5, <1>6, <1>7, <1>8, <1>9, <1>10, <1>11 DEF DaemonChannel

\* The steps of the agent's data channel and of the target.
LEMMA DownSharedAgent ==
  ASSUME AgentShape, DownInv, TargetEnds \/ AgentChannel
  PROVE  DownInv'
  <1>. USE DEF AgentShape, AgentFields
  <1>1. UNCHANGED <<scene, d, client, down>>
    BY DEF TargetEnds, AgentChannel, ReceiveRefused, AgentClose, AgentKilled, InputKilled,
       AgentPluginDone, AgentOnly
  <1>2. /\ TargetShape /\ target.sent \in 0..scene.downs /\ EndInv
        /\ a.go["reader"] = "put" => target.sent > 0
    BY DEF DownInv
  <1>3. /\ TargetShape' /\ target'.sent = target.sent /\ (TargetOver => TargetOver')
    <2>1. CASE TargetEnds
      BY <1>1, <1>2, <2>1 DEF TargetEnds, TargetShape, TargetOver
    <2>2. CASE AgentChannel
      BY <1>1, <1>2, <2>2 DEF AgentChannel, ReceiveRefused, AgentClose, AgentKilled,
         InputKilled, AgentPluginDone, TargetShape, TargetOver
    <2>. QED  BY <2>1, <2>2
  <1>4. a'.go = a.go /\ a'.conn = a.conn /\ (Forwards(a') => Forwards(a))
    <2>1. CASE TargetEnds \/ ReceiveRefused
      BY <2>1 DEF TargetEnds, ReceiveRefused
    <2>2. CASE AgentClose \/ AgentKilled \/ AgentPluginDone
      BY <2>2 DEF AgentClose, AgentKilled, AgentPluginDone, Forwards
    <2>3. CASE InputKilled
      <3>. DEFINE r == [a EXCEPT !.input = "free"]
      <3>1. DOMAIN r = AgentFields /\ r.go = a.go /\ r.conn = a.conn /\ r.dc = a.dc
        OBVIOUS
      <3>2. a' = Acked(r)
        BY <2>3 DEF InputKilled
      <3>. HIDE DEF r
      <3>. QED  BY <3>1, <3>2, AckedKeeps, AckedFields DEF Forwards
    <2>. QED  BY <2>1, <2>2, <2>3 DEF AgentChannel
  <1>5. LastSent' = LastSent
    BY <1>3, <1>4 DEF LastSent
  <1>. QED  BY <1>1, <1>2, <1>3, <1>4, <1>5, DownSentNone DEF EndInv

-----------------------------------------------------------------------------
\* A goroutine of the daemon's action returns.
LEMMA DaemonEndKeeps ==
  ASSUME NEW r, DOMAIN r = DaemonFields, DOMAIN r.go = Goroutines,
         NEW g \in Goroutines, NEW failed \in BOOLEAN,
         d' = Returns(r, g, failed) \/ d' = CloseDone(Returns(r, g, failed))
  PROVE  /\ d'.inq = r.inq /\ d'.lost = r.lost /\ d'.ended = r.ended /\ d'.act = r.act
         /\ d'.dc = r.dc /\ d'.held = r.held /\ d'.go = [r.go EXCEPT ![g] = "end"]
  BY DEF DaemonFields, Returns, CloseDone

\* The first message that was handed over carries the next chunks.
LEMMA InqHead ==
  ASSUME DownInv, ~DownBlocked, d.inq # <<>>
  PROVE  \E k, n \in Nat : /\ Segment(client.got, 0, k)
                           /\ Carries(Head(d.inq), k, n, DownWay, {scene.downs})
  <1>1. PICK k \in Nat, p \in Nat : Segment(client.got, 0, k) /\ DownRun(d.inq, k, p)
    BY DEF DownInv, DownChunks, DownFlow
  <1>. QED  BY <1>1, RunTail DEF DownInv, DownRun

\* The writer returns: nothing more is shown, and at the end of the stream all was.
LEMMA DownWriterEnds ==
  ASSUME DownInv, UNCHANGED <<scene, a, target, down>>, Kind \in Queued,
         DOMAIN client' = ClientFields, client'.got = client.got, client.eof => client'.eof,
         d.go["writer"] = "run", d'.go["writer"] = "end", d'.act = d.act, IsSeq(d'.inq),
         d'.lost <=> d.lost \/ (Kind = "pwdb" /\ d'.lost),
         d'.ended /\ ~d'.lost => d.inq # <<>> /\ Final(Head(d.inq), DownWay)
  PROVE  DownInv'
  <1>1. DownChunks /\ EndInv /\ IsSeq(down') /\ Kind' = Kind
    BY DEF DownInv, Kind
  <1>2. DownChunks'
    BY <1>1, ChunksBlocked DEF DownBlocked
  <1>3. d'.ended /\ ~d'.lost => Complete'
    <2>. SUFFICES ASSUME d'.ended, ~d'.lost PROVE Complete'
      OBVIOUS
    <2>1. ~DownBlocked
      BY DEF DownBlocked
    <2>2. PICK k \in Nat, n \in Nat : /\ Segment(client.got, 0, k)
                                      /\ Carries(Head(d.inq), k, n, DownWay, {scene.downs})
      BY <2>1, InqHead
    <2>3. Head(d.inq).t # "Error"
      BY DEF Final, Shows, DownWay
    <2>4. Complete
      BY <2>2, <2>3, FinalIsAll
    <2>. QED  BY <2>4 DEF Complete
  <1>4. d'.lost => client'.eof \/ (Kind = "pwdb" /\ d'.go["writer"] = "end")
    BY <1>1 DEF EndInv
  <1>. QED  BY <1>1, <1>2, <1>3, <1>4, DownDaemon DEF EndInv

\* The daemon's steps of pwdb that move no chunk down.
LEMMA DownDbQuiet ==
  ASSUME DaemonShape, DownInv, Kind = "pwdb",
         \/ DbStartRefused \/ LocalRead \/ LocalReadDying \/ LocalInput \/ WriterDying
         \/ PwdbStart \/ PwdbStartFails \/ PwdbCloseSent
  PROVE  QuietDown
  <1>. USE DEF DaemonShape, DaemonFields, Goroutines
  <1>1. DOMAIN client = ClientFields /\ EndInv
    BY DEF DownInv
  <1>2. UNCHANGED <<scene, a, target, down>>
    BY DEF DbStartRefused, LocalRead, LocalReadDying, LocalInput, WriterDying, PwdbStart,
       PwdbStartFails, PwdbCloseSent, DaemonOnly
  <1>3. /\ DOMAIN client' = ClientFields /\ client'.got = client.got
        /\ client'.eof = client.eof
    BY <1>1 DEF DbStartRefused, LocalRead, LocalReadDying, LocalInput, WriterDying, PwdbStart,
       PwdbStartFails, PwdbCloseSent, FromClient, WriterReturns, ClientFields
  <1>4. CASE \/ DbStartRefused \/ LocalRead \/ LocalInput \/ PwdbStart \/ PwdbStartFails
    <2>1. /\ d'.inq = d.inq /\ d'.lost = d.lost /\ d'.ended = d.ended
          /\ d'.go["writer"] = d.go["writer"] /\ d'.dc = d.dc /\ d'.held = d.held
          /\ d'.act = d.act \/ d'.act \notin {"none", "connecting"} \/ d.act = "none"
      BY <1>4 DEF DbStartRefused, LocalRead, LocalInput, PwdbStart, PwdbStartFails, DbStarts
    <2>. QED  BY <1>2, <1>3, <2>1 DEF QuietDown
  <1>5. CASE LocalReadDying \/ PwdbCloseSent
    <2>1. \E failed \in BOOLEAN : d' = CloseDone(Returns(d, "reader", failed))
      BY <1>5 DEF LocalReadDying, PwdbCloseSent
    <2>2. /\ d'.inq = d.inq /\ d'.lost = d.lost /\ d'.ended = d.ended /\ d'.act = d.act
          /\ d'.dc = d.dc /\ d'.held = d.held /\ d'.go = [d.go EXCEPT !["reader"] = "end"]
      BY <2>1, DaemonEndKeeps
    <2>3. d'.go["writer"] = d.go["writer"]
      BY <2>2
    <2>. QED  BY <1>2, <1>3, <2>2, <2>3 DEF QuietDown
  <1>6. CASE WriterDying
    <2>1. d' = Returns(d, "writer", FALSE) /\ d.go["writer"] = "run"
      BY <1>6 DEF WriterDying, WriterReturns
    <2>2. /\ d'.inq = d.inq /\ d'.lost = d.lost /\ d'.ended = d.ended /\ d'.act = d.act
          /\ d'.dc = d.dc /\ d'.held = d.held /\ d'.go = [d.go EXCEPT !["writer"] = "end"]
      BY <2>1, DaemonEndKeeps
    <2>3. d'.go["writer"] = "end" /\ d'.act \notin {"none", "connecting"}
      BY <1>1, <2>1, <2>2 DEF EndInv
    <2>. QED  BY <1>2, <1>3, <2>2, <2>3 DEF QuietDown
  <1>. QED  BY <1>4, <1>5, <1>6

\* The ack for which the start of pwdb waits, and what its writer makes of a message.
LEMMA DownDbDaemon ==
  ASSUME DaemonShape, DownInv, ~scene.reorder, Kind = "pwdb",
         PwdbReceiveMrtap \/ PwdbProcess
  PROVE  DownInv'
  <1>. USE DEF DaemonShape, DaemonFields, Goroutines
  <1>1. /\ IsSeq(down) /\ IsSeq(d.inq) /\ DOMAIN client = ClientFields /\ EndInv
        /\ DownChunks /\ Kind \in Queued /\ DownWay = "down"
    BY DEF DownInv, Queued, DownWay
  <1>2. UNCHANGED <<scene, a, target>> /\ Kind' = Kind
    BY DEF PwdbReceiveMrtap, PwdbProcess, DaemonOnly, Kind
  <1>3. CASE PwdbReceiveMrtap
    <2>1. /\ d.dc = "run" /\ down # <<>> /\ down' = Tail(down) /\ Head(down).t = "Ack"
          /\ client' = client
      <3>1. PICK m : m.t = "Ack" /\ Takes(m)
        BY <1>3 DEF PwdbReceiveMrtap, Arrived
      <3>. QED  BY <1>1, <1>3, <3>1, TakesHead DEF PwdbReceiveMrtap
    <2>2. \/ d' = d
          \/ /\ d' = Go([d EXCEPT !.act = "started"], {"reader", "writer"})
             /\ d.act = "connecting"
      BY <1>3 DEF PwdbReceiveMrtap
    <2>3. /\ d'.dc = "run" /\ d'.inq = d.inq /\ d'.lost = d.lost /\ d'.ended = d.ended
          /\ \/ d'.go = d.go /\ d'.act = d.act
             \/ d'.act = "started" /\ d.act = "connecting"
      BY <2>1, <2>2 DEF Go
    <2>4. d.go["writer"] = "end" => d'.go["writer"] = "end"
      BY <1>1, <2>3 DEF EndInv
    <2>5. DownBlocked => DownBlocked'
      BY <1>2, <2>3, <2>4 DEF DownBlocked
    <2>6. DownChunks'
      <3>1. CASE DownBlocked
        BY <1>1, <2>1, <2>5, <3>1, ChunksBlocked
      <3>2. CASE ~DownBlocked
        <4>1. Head(down).ns = <<>>
          BY <1>1, <2>1, <3>2, HeadCarries DEF Carries, Shows
        <4>. QED  BY <1>1, <1>2, <2>1, <2>3, <2>5, <4>1, ChunksIgnored
      <3>. QED  BY <3>1, <3>2
    <2>7. IsSeq(down') /\ Complete' = Complete
      BY <1>1, <1>2, <2>1, TailMoves DEF Complete
    <2>. QED  BY <1>1, <1>2, <2>1, <2>3, <2>4, <2>6, <2>7, DownDaemon DEF EndInv
  <1>4. CASE PwdbProcess
    <2>. DEFINE m == Head(d.inq)
    <2>1. d.go["writer"] = "run" /\ d.inq # <<>> /\ down' = down /\ PwdbWrite(m)
      BY <1>4 DEF PwdbProcess
    <2>. HIDE DEF m
    <2>2. CASE m.t = "Stream" /\ m.more /\ ~client.eof
      <3>1. d' = [d EXCEPT !.inq = Tail(@)] /\ client' = Shown(m)
        BY <2>1, <2>2 DEF PwdbWrite
      <3>2. /\ d'.inq = Tail(d.inq) /\ d'.dc = d.dc /\ d'.held = d.held /\ d'.go = d.go
            /\ d'.lost = d.lost /\ d'.ended = d.ended /\ d'.act = d.act
        BY <3>1
      <3>3. d'.lost <=> Unshown(m)
        BY <2>2, <3>2 DEF Unshown
      <3>. QED  BY <1>1, <1>2, <2>1, <2>2, <3>1, <3>2, <3>3, DownWritten DEF m
    <2>3. CASE ~(m.t = "Stream" /\ m.more /\ ~client.eof)
      <3>. DEFINE r == IF m.t = "Stream" /\ ~m.more THEN [d EXCEPT !.ended = TRUE]
                       ELSE [d EXCEPT !.lost = TRUE]
      <3>1. d' = Returns(r, "writer", TRUE) /\ client' = [client EXCEPT !.shut = TRUE]
        BY <2>1, <2>3 DEF PwdbWrite, WriterReturns
      <3>2. /\ DOMAIN r = DaemonFields /\ r.inq = d.inq /\ r.act = d.act /\ r.go = d.go
            /\ IF m.t = "Stream" /\ ~m.more THEN r.lost = d.lost ELSE r.lost = TRUE
        OBVIOUS
      <3>. HIDE DEF r
      <3>3. /\ d'.inq = r.inq /\ d'.lost = r.lost /\ d'.act = r.act
            /\ d'.go = [r.go EXCEPT !["writer"] = "end"]
        BY <3>1, <3>2, DaemonEndKeeps
      <3>4. d'.go["writer"] = "end" /\ IsSeq(d'.inq)
        BY <1>1, <3>2, <3>3
      <3>5. /\ DOMAIN client' = ClientFields /\ client'.got = client.got
            /\ client'.eof = client.eof
        BY <1>1, <3>1 DEF ClientFields
      <3>6. ~d'.lost => Final(m, DownWay)
        BY <1>1, <3>2, <3>3 DEF Final, Shows
      <3>7. d'.lost <=> d.lost \/ (Kind = "pwdb" /\ d'.lost)
        BY <3>2, <3>3
      <3>. QED
        BY <1>1, <1>2, <2>1, <3>2, <3>3, <3>4, <3>5, <3>6, <3>7, DownWriterEnds DEF m
    <2>. QED  BY <2>2, <2>3
  <1>. QED  BY <1>3, <1>4

-----------------------------------------------------------------------------
\* A step of the agent that reads nothing and sends no chunk.
LEMMA DownAgentKeeps ==
  ASSUME DownInv, Kind # "kubeexec", UNCHANGED <<scene, d, client>>, TargetShape',
         target'.sent = target.sent, TargetOver => TargetOver',
         \/ down' = down
         \/ \E m : m.ns = <<>> /\ ~Final(m, DownWay) /\ down' = Append(down, m),
         Forwards(a') => Forwards(a),
         \/ a'.go["reader"] = a.go["reader"]
         \/ a'.go["reader"] = "end"
         \/ a'.go["reader"] = "run" /\ a.go["reader"] \notin {"put", "end"}
  PROVE  DownInv'
  <1>1. /\ target'.sent \in 0..scene.downs /\ EndInv
        /\ a.go["reader"] = "put" => target.sent > 0
    BY DEF DownInv
  <1>2. a'.go["reader"] # "end" => LastSent' = LastSent
    BY DEF LastSent
  <1>. QED  BY <1>1, <1>2, DownSentNone DEF EndInv

\* The agent's reader is off when the opener comes.
LEMMA OpenerFindsOff ==
  ASSUME OpenerInv, Receives(Opener)
  PROVE  a.go["reader"] = "off"
  BY TailMoves DEF OpenerInv, Receives, HasOpener

\* A failed action.
LEMMA FailedKeeps ==
  ASSUME AgentShape, Failed
  PROVE  /\ a'.go = a.go /\ (Forwards(a') => Forwards(a))
         /\ \/ down' = down
            \/ \E m : m.ns = <<>> /\ ~Final(m, DownWay) /\ down' = Append(down, m)
  <1>1. Fail.ns = <<>> /\ ~Final(Fail, DownWay)
    BY DEF Fail, Smsg, Final, Shows, DownWay
  <1>. QED  BY <1>1 DEF Failed, AgentShape, AgentFields, Forwards

\* The messages that the agent of pwdb takes.
LEMMA DownDbReceives ==
  ASSUME AgentShape, OpenerInv, DownInv, Kind = "pwdb",
         PwdbConnectReceived \/ PwdbInputReceived \/ DbCloseReceived
  PROVE  DownInv'
  <1>. USE DEF AgentShape
  <1>1. UNCHANGED <<scene, d, client>>
    BY DEF PwdbConnectReceived, PwdbInputReceived, DbCloseReceived, AgentOnly
  <1>2. /\ TargetShape' /\ target'.sent = target.sent /\ (TargetOver => TargetOver')
    BY <1>1 DEF PwdbConnectReceived, PwdbInputReceived, DbCloseReceived, Delivered, DownInv,
       TargetShape, TargetOver
  <1>3. CASE PwdbConnectReceived
    <2>1. a.go["reader"] = "off"
      BY <1>3, OpenerFindsOff DEF PwdbConnectReceived, Opener
    <2>2. CASE Failed
      BY <1>1, <1>2, <2>2, FailedKeeps, DownAgentKeeps
    <2>3. CASE a' = Acked(Opened)
      <3>. DEFINE m == Smsg("Ack", 0, <<>>, FALSE)
      <3>1. m.ns = <<>> /\ ~Final(m, DownWay)
        BY DEF Smsg, Final, Shows, DownWay
      <3>2. down' \in {down, Append(down, m)} \/ Failed
        BY <1>3 DEF PwdbConnectReceived
      <3>. HIDE DEF m
      <3>3. a'.dc = a.dc /\ a'.go["reader"] = "run"
        <4>. DEFINE r == Opened
        <4>1. DOMAIN r = AgentFields /\ r.dc = a.dc /\ r.go["reader"] = "run"
          BY DEF Opened, Go, AgentFields, Goroutines
        <4>. HIDE DEF r
        <4>2. a' = Acked(r)
          BY <2>3 DEF r
        <4>. QED  BY <4>1, <4>2, AckedFields
      <3>4. Forwards(a') => Forwards(a)
        BY <3>3 DEF Forwards
      <3>. QED  BY <1>1, <1>2, <2>1, <2>2, <3>1, <3>2, <3>3, <3>4, DownAgentKeeps
    <2>. QED  BY <1>3, <2>2, <2>3 DEF PwdbConnectReceived
  <1>4. CASE PwdbInputReceived
    <2>1. CASE Failed
      BY <1>1, <1>2, <2>1, FailedKeeps, DownAgentKeeps
    <2>2. CASE a' = Acked(a) /\ down' = down
      <3>1. a'.go = a.go /\ (Forwards(a') => Forwards(a))
        BY <2>2, AckedFields DEF Forwards
      <3>. QED  BY <1>1, <1>2, <2>2, <3>1, DownAgentKeeps
    <2>. QED  BY <1>4, <2>1, <2>2 DEF PwdbInputReceived
  <1>5. CASE DbCloseReceived
    <2>1. /\ a' = KillByInput(DbKilled([a EXCEPT !.stopped = TRUE])) /\ down' = down
      BY <1>5 DEF DbCloseReceived
    <2>2. a'.go = a.go /\ a'.dc = a.dc
      <3>1. CASE Alive(a)
        BY <2>1, <3>1 DEF KillByInput, DbKilled, AgentFields
      <3>2. CASE ~Alive(a)
        BY <2>1, <3>2, AckedFields DEF KillByInput
      <3>. QED  BY <3>1, <3>2
    <2>3. Forwards(a') => Forwards(a)
      BY <2>2 DEF Forwards
    <2>. QED  BY <1>1, <1>2, <2>1, <2>2, <2>3, DownAgentKeeps
  <1>. QED  BY <1>3, <1>4, <1>5

\* The reader of the agent's action of pwdb, and its end.
LEMMA DownDbReads ==
  ASSUME AgentShape, DownInv, Kind = "pwdb",
         RemoteRead \/ RemoteStream \/ RemoteEnd \/ RemoteReadDying \/ DbDying
  PROVE  DownInv'
  <1>. USE DEF AgentShape, AgentFields, Goroutines
  <1>1. UNCHANGED <<scene, d, client>>
    BY DEF RemoteRead, RemoteStream, RemoteEnd, RemoteReadDying, DbDying, AgentDying, AgentOnly
  <1>2. /\ TargetShape /\ target.sent \in 0..scene.downs /\ scene.downs \in Nat /\ EndInv
        /\ a.go["reader"] = "put" => target.sent > 0
    BY DEF DownInv
  <1>3. CASE RemoteRead
    <2>1. down' = down /\ a.go["reader"] = "run"
      BY <1>3 DEF RemoteRead
    <2>2. CASE FromTarget /\ a' = [a EXCEPT !.go["reader"] = "put"]
      <3>1. /\ target'.sent = target.sent + 1 /\ TargetShape' /\ target.sent < scene.downs
        BY <1>2, <2>2 DEF FromTarget, TargetHas, TargetShape
      <3>2. a'.go["reader"] = "put" /\ a'.dc = a.dc
        BY <2>2
      <3>3. /\ target'.sent \in 0..scene.downs /\ target'.sent > 0 /\ LastSent' = LastSent
        BY <1>2, <2>1, <3>1, <3>2 DEF LastSent
      <3>4. Forwards(a') => Forwards(a)
        BY <3>2 DEF Forwards
      <3>. QED  BY <1>1, <2>1, <3>1, <3>2, <3>3, <3>4, DownSentNone
    <2>3. CASE TargetOver /\ a' = [a EXCEPT !.go["reader"] = "stop"] /\ target' = target
      <3>1. a'.go["reader"] = "stop" /\ a'.dc = a.dc
        BY <2>3
      <3>2. LastSent' = LastSent /\ TargetShape' /\ TargetOver'
        BY <1>1, <1>2, <2>1, <2>3, <3>1 DEF LastSent, TargetShape, TargetOver
      <3>3. Forwards(a') => Forwards(a)
        BY <3>1 DEF Forwards
      <3>. QED  BY <1>1, <1>2, <2>1, <2>3, <3>1, <3>2, <3>3, DownSentNone
    <2>. QED  BY <1>3, <2>2, <2>3 DEF RemoteRead
  <1>4. CASE RemoteStream
    <2>. DEFINE m == Smsg("Stream", a.seq, <<target.sent>>, TRUE)
    <2>1. /\ a.go["reader"] = "put" /\ target' = target
          /\ down' = IF Forwards(a) THEN Append(down, m) ELSE down
          /\ a' = [a EXCEPT !.go["reader"] = "run", !.seq = @ + 1]
      BY <1>4 DEF RemoteStream, Send
    <2>2. m.t \in Shows /\ m.ns = <<target.sent>> /\ m.more
      BY DEF Smsg, Shows
    <2>. HIDE DEF m
    <2>3. a'.go["reader"] = "run" /\ a'.dc = a.dc
      BY <2>1
    <2>4. LastSent + 1 = target'.sent /\ TargetShape' /\ (Forwards(a') => Forwards(a))
      BY <1>2, <2>1, <2>3 DEF LastSent, TargetShape, Forwards
    <2>. QED  BY <1>1, <1>2, <2>1, <2>2, <2>3, <2>4, DownSentChunk
  <1>5. CASE RemoteEnd
    <2>. DEFINE m == Smsg(IF target.err THEN "Error" ELSE "Stream", a.seq, <<>>, FALSE)
    <2>1. /\ a.go["reader"] = "stop" /\ target' = target
          /\ down' = IF Forwards(a) THEN Append(down, m) ELSE down
          /\ a' = CloseDone(Returns(a, "reader", TRUE))
      BY <1>5 DEF RemoteEnd, Send
    <2>2. m.ns = <<>> /\ (target.err => ~Final(m, DownWay))
      BY DEF Smsg, Final, Shows, DownWay
    <2>. HIDE DEF m
    <2>3. a'.go["reader"] = "end" /\ a'.dc = a.dc
      BY <2>1, AgentReaderEnds
    <2>4. Forwards(a') => Forwards(a)
      BY <2>3 DEF Forwards
    <2>5. CASE target.err
      <3>1. TargetShape' /\ (TargetOver => TargetOver')
        BY <1>1, <1>2, <2>1 DEF TargetShape, TargetOver
      <3>. QED  BY <1>1, <2>1, <2>2, <2>3, <2>4, <2>5, <3>1, DownAgentKeeps
    <2>6. CASE ~target.err
      <3>1. LastSent = scene.downs
        BY <1>2, <2>1, <2>6 DEF EndInv, TargetOver, LastSent
      <3>. QED  BY <1>1, <1>2, <2>1, <2>2, <2>3, <3>1, DownSentLast
    <2>. QED  BY <2>5, <2>6
  <1>6. CASE RemoteReadDying \/ DbDying
    <2>1. down' = down /\ target' = target
      BY <1>6 DEF RemoteReadDying, DbDying, AgentDying
    <2>2. \/ a'.go["reader"] = "end" /\ a'.dc = a.dc
          \/ a'.go = a.go /\ a.dc = "run"
      <3>1. CASE RemoteReadDying
        BY <3>1, AgentReaderEnds DEF RemoteReadDying
      <3>2. CASE DbDying
        BY <3>2 DEF DbDying, AgentDying, DbKilled
      <3>. QED  BY <1>6, <3>1, <3>2
    <2>3. Forwards(a') => Forwards(a)
      BY <2>2 DEF Forwards
    <2>4. TargetShape' /\ (TargetOver => TargetOver')
      BY <1>1, <1>2, <2>1 DEF TargetShape, TargetOver
    <2>. QED  BY <1>1, <2>1, <2>2, <2>3, <2>4, DownAgentKeeps
  <1>. QED  BY <1>3, <1>4, <1>5, <1>6

\* Every step of pwdb.
LEMMA DownDb ==
  ASSUME DaemonShape, AgentShape, OpenerInv, DownInv, ~scene.reorder, Kind = "pwdb", DbNext
  PROVE  DownInv'
  <1>1. ~(DialStart \/ DialStopSent \/ DialTake \/ DialProcess \/ DialStartReceived
          \/ DialInputReceived)
    BY DEF DialStart, DialStopSent, DialTake, DialProcess, DialStartReceived,
       DialInputReceived
  <1>. QED
    BY <1>1, DownDbQuiet, DownQuiet, DownDbDaemon, DownDbReceives, DownDbReads DEF DbNext

-----------------------------------------------------------------------------
\* The data channel's main goroutine takes a message that says nothing to the client.
LEMMA DownIgnored ==
  ASSUME DownInv, UNCHANGED <<scene, a, target>>, Kind \notin Queued,
         down # <<>>, down' = Tail(down), d.dc = "run", d'.dc = "run", d'.inq = d.inq,
         Head(down).t \notin Shows, DOMAIN client' = ClientFields,
         client'.got = client.got, d.lost => d'.lost, d'.lost => client'.eof,
         d'.ended => Kind = "shell" \/ d.ended
  PROVE  DownInv'
  <1>1. /\ IsSeq(down) /\ IsSeq(down') /\ d.inq = <<>> /\ IsSeq(d'.inq) /\ EndInv
        /\ DownChunks /\ Kind # "kubeexec" /\ Kind # "pwdb" /\ Kind' = Kind
    BY TailMoves DEF DownInv, Queued, Kind
  <1>2. DownBlocked => DownBlocked'
    BY <1>1 DEF DownBlocked
  <1>3. DownChunks'
    <2>1. CASE DownBlocked
      BY <1>1, <1>2, <2>1, ChunksBlocked
    <2>2. CASE ~DownBlocked
      <3>1. Head(down).ns = <<>> /\ DownWay = "down"
        BY <1>1, <2>2, HeadCarries DEF Carries, DownWay
      <3>. QED  BY <1>1, <1>2, <3>1, ChunksIgnored
    <2>. QED  BY <2>1, <2>2
  <1>4. Complete' = Complete
    BY DEF Complete
  <1>. QED  BY <1>1, <1>3, <1>4, DownDaemon DEF EndInv

\* The daemon's steps of opaque that move no chunk down.
LEMMA DownOpaqueQuiet ==
  ASSUME DaemonShape, DownInv, Kind = "opaque",
         OpaqueStart \/ OpaqueRead \/ OpaqueSend \/ OpaqueDone \/ OpaqueKill
  PROVE  QuietDown
  <1>. USE DEF DaemonShape, DaemonFields, Goroutines
  <1>1. DOMAIN client = ClientFields /\ IsSeq(down)
    BY DEF DownInv
  <1>2. UNCHANGED <<scene, a, target, down>>
    BY DEF OpaqueStart, OpaqueRead, OpaqueSend, OpaqueDone, OpaqueKill, DaemonOnly
  <1>3. /\ DOMAIN client' = ClientFields /\ client'.got = client.got
        /\ client'.eof = client.eof
    BY <1>1 DEF OpaqueStart, OpaqueRead, OpaqueSend, OpaqueDone, OpaqueKill, FromClient,
       ClientFields
  <1>4. /\ d'.inq = d.inq /\ d'.lost = d.lost /\ d'.ended = d.ended
        /\ d'.go["writer"] = d.go["writer"]
        /\ \/ d'.dc = d.dc /\ d'.held = d.held
           \/ d.dc = "none" /\ d'.dc = "run"
           \/ d'.dc = "gone"
    <2>1. CASE OpaqueStart
      BY <2>1 DEF OpaqueStart, SshStarts, SshStarted, Go
    <2>2. CASE OpaqueDone \/ OpaqueKill
      BY <2>2 DEF OpaqueDone, OpaqueKill, CloseDone, KillTomb
    <2>3. CASE \E g \in {"put", "stop", "run"} : d' = [d EXCEPT !.go["reader"] = g]
      BY <2>3
    <2>4. CASE \E failed \in BOOLEAN : d' = Returns(d, "reader", failed)
      <3>1. /\ d'.inq = d.inq /\ d'.lost = d.lost /\ d'.ended = d.ended /\ d'.dc = d.dc
            /\ d'.held = d.held /\ d'.go = [d.go EXCEPT !["reader"] = "end"]
        BY <2>4, DaemonEndKeeps
      <3>. QED  BY <3>1
    <2>5. CASE OpaqueRead \/ OpaqueSend
      <3>1. \/ \E g \in {"put", "stop", "run"} : d' = [d EXCEPT !.go["reader"] = g]
            \/ \E failed \in BOOLEAN : d' = Returns(d, "reader", failed)
        BY <2>5 DEF OpaqueRead, OpaqueSend
      <3>. QED  BY <2>3, <2>4, <3>1
    <2>. QED  BY <2>1, <2>2, <2>5
  <1>. QED  BY <1>1, <1>2, <1>3, <1>4 DEF QuietDown

\* What the daemon's action of opaque makes of a message.
LEMMA DownOpaqueReceives ==
  ASSUME DaemonShape, DownInv, ~scene.reorder, Kind = "opaque", OpaqueReceiveStream
  PROVE  DownInv'
  <1>. USE DEF DaemonShape, DaemonFields, Goroutines
  <1>1. /\ IsSeq(down) /\ DOMAIN client = ClientFields /\ EndInv /\ Kind \notin Queued
        /\ scene.downs \in Nat
    BY DEF DownInv, Queued
  <1>2. UNCHANGED <<scene, a, target>> /\ d.dc = "run"
    BY DEF OpaqueReceiveStream, DaemonOnly
  <1>3. PICK m :
          /\ Takes(m)
          /\ \/ m.t = "Data" /\ d' = [d EXCEPT !.next = @ + 1] /\ UNCHANGED client
             \/ /\ m.t = "StdOut" /\ client' = Shown(m)
                /\ d' = [d EXCEPT !.lost = Unshown(m), !.ended = @ \/ ~m.more,
                                  !.tmb = IF m.more THEN @ ELSE "dying"]
             \/ m.t = "Error" /\ d' = KillTomb(d) /\ UNCHANGED client
    BY DEF OpaqueReceiveStream
  <1>4. down # <<>> /\ m = Head(down) /\ down' = Tail(down)
    BY <1>1, <1>3, TakesHead
  <1>5. CASE m.t = "StdOut" /\ client' = Shown(m)
             /\ d' = [d EXCEPT !.lost = Unshown(m), !.ended = @ \/ ~m.more,
                               !.tmb = IF m.more THEN @ ELSE "dying"]
    <2>1. /\ d'.dc = "run" /\ d'.inq = d.inq /\ d'.lost = Unshown(m)
          /\ d'.ended = (d.ended \/ ~m.more)
      BY <1>2, <1>5
    <2>2. d'.ended => d.ended \/ Final(m, DownWay)
      BY <1>5, <2>1 DEF Final, Shows, DownWay
    <2>. QED  BY <1>1, <1>2, <1>4, <1>5, <2>1, <2>2, DownShown
  <1>6. CASE m.t \in {"Data", "Error"} /\ client' = client
             /\ (d' = [d EXCEPT !.next = @ + 1] \/ d' = KillTomb(d))
    <2>1. /\ d'.dc = "run" /\ d'.inq = d.inq /\ d'.lost = d.lost /\ d'.ended = d.ended
      BY <1>2, <1>6 DEF KillTomb
    <2>. QED  BY <1>1, <1>2, <1>4, <1>6, <2>1, DownIgnored DEF EndInv, Shows
  <1>. QED  BY <1>3, <1>5, <1>6

\* The agent's steps of opaque.
LEMMA DownOpaqueAgent ==
  ASSUME AgentShape, OpenerInv, DownInv, Kind = "opaque",
         \/ OpaqueOpenReceived \/ OpaqueInputReceived \/ OpaqueCloseReceived
         \/ OpaqueRemoteRead \/ OpaqueRemoteSend \/ OpaqueDying
  PROVE  DownInv'
  <1>. USE DEF AgentShape, AgentFields, Goroutines
  <1>1. UNCHANGED <<scene, d, client>>
    BY DEF OpaqueOpenReceived, OpaqueInputReceived, OpaqueCloseReceived, OpaqueRemoteRead,
       OpaqueRemoteSend, OpaqueDying, AgentDying, AgentOnly
  <1>2. /\ TargetShape /\ target.sent \in 0..scene.downs /\ scene.downs \in Nat /\ EndInv
        /\ a.go["reader"] = "put" => target.sent > 0
    BY DEF DownInv
  <1>3. CASE OpaqueOpenReceived
    <2>1. a.go["reader"] = "off" /\ target' = target
      BY <1>3, OpenerFindsOff DEF OpaqueOpenReceived, Opener
    <2>2. TargetShape' /\ (TargetOver => TargetOver')
      BY <1>1, <1>2, <2>1 DEF TargetShape, TargetOver
    <2>3. CASE Failed
      BY <1>1, <2>1, <2>2, <2>3, FailedKeeps, DownAgentKeeps
    <2>4. ASSUME NEW k \in 0..HostKeyFiles, SendAll(HostKeys(k)),
                 a' = Acked(Go([a EXCEPT !.seq = k], {"reader"}))
          PROVE  DownInv'
      <3>1. IsSeq(down) /\ DownChunks /\ (down' = down \/ down' = down \o HostKeys(k))
        BY <2>4 DEF SendAll, DownInv
      <3>2. /\ IsSeq(HostKeys(k))
            /\ \A i \in DOMAIN HostKeys(k) :
                 HostKeys(k)[i].ns = <<>> /\ ~Final(HostKeys(k)[i], DownWay)
        <4>1. k \in Nat
          BY DEF HostKeyFiles
        <4>2. HostKeys(k) \in Seq({Smsg("Data", 0, <<>>, FALSE)})
          BY <4>1 DEF HostKeys
        <4>3. \A i \in DOMAIN HostKeys(k) : HostKeys(k)[i] = Smsg("Data", 0, <<>>, FALSE)
          BY DEF HostKeys
        <4>4. /\ Smsg("Data", 0, <<>>, FALSE).ns = <<>>
              /\ ~Final(Smsg("Data", 0, <<>>, FALSE), DownWay)
          BY DEF Smsg, Final, Shows, DownWay
        <4>. QED  BY <4>2, <4>3, <4>4 DEF IsSeq
      <3>3. a'.dc = a.dc /\ a'.go["reader"] = "run"
        <4>. DEFINE s == [a EXCEPT !.seq = k]
                    r == Go(s, {"reader"})
        <4>1. DOMAIN s = AgentFields /\ s.dc = a.dc /\ s.go = a.go
          OBVIOUS
        <4>. HIDE DEF s
        <4>2. DOMAIN r = AgentFields /\ r.dc = a.dc /\ r.go["reader"] = "run"
          BY <4>1 DEF Go, Goroutines
        <4>. HIDE DEF r
        <4>3. a' = Acked(r)
          BY <2>4 DEF r, s
        <4>. QED  BY <4>2, <4>3, AckedFields
      <3>4. (Forwards(a') => Forwards(a)) /\ LastSent' = LastSent
        BY <2>1, <3>3 DEF Forwards, LastSent
      <3>5. ASSUME NEW q \in Nat, NEW r \in Nat, DownRun(down, q, r)
            PROVE  Run(down', q, r, DownWay, {scene.downs})
        <4>1. Run(down, q, r, DownWay, {scene.downs})
          BY <3>5 DEF DownRun
        <4>2. Run(down \o HostKeys(k), q, r, DownWay, {scene.downs})
          BY <3>1, <3>2, <4>1, RunNeutral
        <4>. QED  BY <3>1, <4>1, <4>2
      <3>6. IsSeq(down')
        <4>1. PICK S : down \in Seq(S)
          BY <3>1 DEF IsSeq
        <4>2. PICK T : HostKeys(k) \in Seq(T)
          BY <3>2 DEF IsSeq
        <4>3. down \in Seq(S \union T) /\ HostKeys(k) \in Seq(S \union T)
          BY <4>1, <4>2
        <4>4. down \o HostKeys(k) \in Seq(S \union T)
          BY <4>3
        <4>. QED  BY <3>1, <4>4 DEF IsSeq
      <3>7. DownChunks'
        BY <1>1, <2>1, <3>1, <3>3, <3>4, <3>5, ChunksSent
      <3>. QED  BY <1>1, <1>2, <2>1, <2>2, <3>3, <3>6, <3>7, DownAgent
    <2>. QED  BY <1>3, <2>3, <2>4 DEF OpaqueOpenReceived
  <1>4. CASE OpaqueInputReceived \/ OpaqueCloseReceived \/ OpaqueDying
    <2>1. down' = down /\ (target' = target \/ \E ns : Delivered(ns))
      BY <1>4 DEF OpaqueInputReceived, OpaqueCloseReceived, OpaqueDying, AgentDying
    <2>2. /\ TargetShape' /\ target'.sent = target.sent /\ (TargetOver => TargetOver')
      BY <1>1, <1>2, <2>1 DEF TargetShape, TargetOver, Delivered
    <2>3. a'.go = a.go /\ (a'.dc = a.dc \/ a.dc = "run")
      <3>1. CASE a' = Acked(a)
        BY <3>1, AckedFields
      <3>2. CASE OpaqueDying
        BY <3>2 DEF OpaqueDying, AgentDying, OpaqueKilled
      <3>3. CASE \/ a' = [OpaqueKilled(a) EXCEPT !.input = "kill"]
                 \/ a' = [OpaqueKilled(a) EXCEPT !.input = "kill", !.stopped = TRUE]
        BY <3>3 DEF OpaqueKilled
      <3>. QED
        BY <1>4, <3>1, <3>2, <3>3 DEF OpaqueInputReceived, OpaqueCloseReceived
    <2>4. Forwards(a') => Forwards(a)
      BY <2>3 DEF Forwards
    <2>. QED  BY <1>1, <2>1, <2>2, <2>3, <2>4, DownAgentKeeps
  <1>5. CASE OpaqueRemoteRead
    <2>1. down' = down /\ a.go["reader"] = "run"
      BY <1>5 DEF OpaqueRemoteRead
    <2>2. CASE FromTarget /\ a' = [a EXCEPT !.go["reader"] = "put"]
      <3>1. /\ target'.sent = target.sent + 1 /\ TargetShape' /\ target.sent < scene.downs
        BY <1>2, <2>2 DEF FromTarget, TargetHas, TargetShape
      <3>2. a'.go["reader"] = "put" /\ a'.dc = a.dc
        BY <2>2
      <3>3. /\ target'.sent \in 0..scene.downs /\ target'.sent > 0 /\ LastSent' = LastSent
        BY <1>2, <2>1, <3>1, <3>2 DEF LastSent
      <3>4. Forwards(a') => Forwards(a)
        BY <3>2 DEF Forwards
      <3>. QED  BY <1>1, <2>1, <3>1, <3>2, <3>3, <3>4, DownSentNone
    <2>3. CASE TargetOver /\ a' = [a EXCEPT !.go["reader"] = "stop"] /\ target' = target
      <3>1. a'.go["reader"] = "stop" /\ a'.dc = a.dc
        BY <2>3
      <3>2. LastSent' = LastSent /\ TargetShape' /\ TargetOver'
        BY <1>1, <1>2, <2>1, <2>3, <3>1 DEF LastSent, TargetShape, TargetOver
      <3>3. Forwards(a') => Forwards(a)
        BY <3>1 DEF Forwards
      <3>. QED  BY <1>1, <1>2, <2>1, <2>3, <3>1, <3>2, <3>3, DownSentNone
    <2>4. CASE a' = CloseDone(Returns(a, "reader", FALSE)) /\ target' = target
      <3>1. a'.go["reader"] = "end" /\ a'.dc = a.dc
        BY <2>4, AgentReaderEnds
      <3>2. TargetShape' /\ (TargetOver => TargetOver') /\ (Forwards(a') => Forwards(a))
        BY <1>1, <1>2, <2>4, <3>1 DEF TargetShape, TargetOver, Forwards
      <3>. QED  BY <1>1, <2>1, <2>4, <3>1, <3>2, DownAgentKeeps
    <2>. QED  BY <1>5, <2>2, <2>3, <2>4 DEF OpaqueRemoteRead
  <1>6. CASE OpaqueRemoteSend
    <2>1. target' = target
      BY <1>6 DEF OpaqueRemoteSend
    <2>2. CASE /\ a.go["reader"] = "put" /\ a' = [a EXCEPT !.go["reader"] = "run"]
               /\ Send(Smsg("StdOut", 0, <<target.sent>>, TRUE))
      <3>. DEFINE m == Smsg("StdOut", 0, <<target.sent>>, TRUE)
      <3>1. down' = IF Forwards(a) THEN Append(down, m) ELSE down
        BY <2>2 DEF Send
      <3>2. m.t \in Shows /\ m.ns = <<target.sent>> /\ m.more
        BY DEF Smsg, Shows
      <3>. HIDE DEF m
      <3>3. a'.go["reader"] = "run" /\ a'.dc = a.dc
        BY <2>2
      <3>4. LastSent + 1 = target'.sent /\ TargetShape' /\ (Forwards(a') => Forwards(a))
        BY <1>2, <2>1, <2>2, <3>3 DEF LastSent, TargetShape, Forwards
      <3>. QED  BY <1>1, <1>2, <2>1, <2>2, <3>1, <3>2, <3>3, <3>4, DownSentChunk
    <2>3. CASE /\ a.go["reader"] = "stop" /\ a' = CloseDone(Returns(a, "reader", TRUE))
               /\ Send(Smsg(IF target.err THEN "Error" ELSE "StdOut", 0, <<>>, FALSE))
      <3>. DEFINE m == Smsg(IF target.err THEN "Error" ELSE "StdOut", 0, <<>>, FALSE)
      <3>1. down' = IF Forwards(a) THEN Append(down, m) ELSE down
        BY <2>3 DEF Send
      <3>2. m.ns = <<>> /\ (target.err => ~Final(m, DownWay))
        BY DEF Smsg, Final, Shows, DownWay
      <3>. HIDE DEF m
      <3>3. a'.go["reader"] = "end" /\ a'.dc = a.dc
        BY <2>3, AgentReaderEnds
      <3>4. Forwards(a') => Forwards(a)
        BY <3>3 DEF Forwards
      <3>5. CASE target.err
        <4>1. TargetShape' /\ (TargetOver => TargetOver')
          BY <1>1, <1>2, <2>1 DEF TargetShape, TargetOver
        <4>. QED  BY <1>1, <2>1, <3>1, <3>2, <3>3, <3>4, <3>5, <4>1, DownAgentKeeps
      <3>6. CASE ~target.err
        <4>1. LastSent = scene.downs
          BY <1>2, <2>3, <3>6 DEF EndInv, TargetOver, LastSent
        <4>. QED  BY <1>1, <1>2, <2>1, <2>3, <3>1, <3>2, <3>3, <4>1, DownSentLast
      <3>. QED  BY <3>5, <3>6
    <2>. QED  BY <1>6, <2>2, <2>3 DEF OpaqueRemoteSend
  <1>. QED  BY <1>3, <1>4, <1>5, <1>6

\* Every step of opaque.
LEMMA DownOpaque ==
  ASSUME DaemonShape, AgentShape, OpenerInv, DownInv, ~scene.reorder, Kind = "opaque",
         OpaqueSteps
  PROVE  DownInv'
  BY DownOpaqueQuiet, DownQuiet, DownOpaqueReceives, DownOpaqueAgent DEF OpaqueSteps

-----------------------------------------------------------------------------
\* The daemon's steps of a shell that move no chunk down.
LEMMA DownShellQuiet ==
  ASSUME DaemonShape, DownInv, Kind = "shell",
         ShellStart \/ ShellResize \/ ShellKey \/ ShellInput \/ ShellDone \/ ShellKill
  PROVE  QuietDown
  <1>. USE DEF DaemonShape, DaemonFields, Goroutines
  <1>1. DOMAIN client = ClientFields /\ IsSeq(down)
    BY DEF DownInv
  <1>2. UNCHANGED <<scene, a, target, down>>
    BY DEF ShellStart, ShellResize, ShellKey, ShellInput, ShellDone, ShellKill, DaemonOnly
  <1>3. /\ DOMAIN client' = ClientFields /\ client'.got = client.got
        /\ client'.eof = client.eof
    BY <1>1 DEF ShellStart, ShellResize, ShellKey, ShellInput, ShellDone, ShellKill,
       FromClient, ClientFields
  <1>4. /\ d'.inq = d.inq /\ d'.lost = d.lost /\ d'.ended = d.ended
        /\ d'.go["writer"] = d.go["writer"]
        /\ \/ d'.dc = d.dc /\ d'.held = d.held
           \/ d.dc = "none" /\ d'.dc = "run"
           \/ d'.dc = "gone"
    <2>1. CASE ShellStart
      BY <2>1 DEF ShellStart, Go
    <2>2. CASE ShellResize \/ ShellInput \/ ShellDone \/ ShellKill
      BY <2>2 DEF ShellResize, ShellInput, ShellDone, ShellKill, CloseDone, KillTomb
    <2>3. CASE ShellKey
      <3>1. \/ d' = [d EXCEPT !.keys = Append(@, client.sent + 1)]
            \/ \E failed \in BOOLEAN : d' = Returns(d, "reader", failed)
        BY <2>3 DEF ShellKey
      <3>2. CASE d' = [d EXCEPT !.keys = Append(@, client.sent + 1)]
        BY <3>2
      <3>3. CASE \E failed \in BOOLEAN : d' = Returns(d, "reader", failed)
        <4>1. /\ d'.inq = d.inq /\ d'.lost = d.lost /\ d'.ended = d.ended /\ d'.dc = d.dc
              /\ d'.held = d.held /\ d'.go = [d.go EXCEPT !["reader"] = "end"]
          BY <3>3, DaemonEndKeeps
        <4>. QED  BY <4>1
      <3>. QED  BY <3>1, <3>2, <3>3
    <2>. QED  BY <2>1, <2>2, <2>3
  <1>. QED  BY <1>1, <1>2, <1>3, <1>4 DEF QuietDown

\* What the daemon's action of a shell makes of a message.
LEMMA DownShellReceives ==
  ASSUME DaemonShape, DownInv, ~scene.reorder, Kind = "shell", ShellReceive
  PROVE  DownInv'
  <1>. USE DEF DaemonShape, DaemonFields, Goroutines
  <1>1. /\ IsSeq(down) /\ DOMAIN client = ClientFields /\ EndInv /\ Kind \notin Queued
        /\ scene.downs \in Nat
    BY DEF DownInv, Queued
  <1>2. UNCHANGED <<scene, a, target>> /\ d.dc = "run"
    BY DEF ShellReceive, DaemonOnly
  <1>3. PICK m :
          /\ Takes(m)
          /\ \/ /\ m.t = "StdOut" /\ client' = Shown(m)
                /\ d' = [d EXCEPT !.ready = TRUE, !.lost = Unshown(m)]
             \/ /\ m.t = "Replay"
                /\ client' = Shown(m)
                /\ d' = [d EXCEPT !.lost = @ \/ client.eof, !.replayed = TRUE]
             \/ /\ m.t = "Stop" /\ UNCHANGED client
                /\ d' = [KillTomb(d) EXCEPT !.ready = TRUE, !.ended = TRUE]
    BY DEF ShellReceive
  <1>4. down # <<>> /\ m = Head(down) /\ down' = Tail(down)
    BY <1>1, <1>3, TakesHead
  <1>5. CASE /\ m.t = "StdOut" /\ client' = Shown(m)
             /\ d' = [d EXCEPT !.ready = TRUE, !.lost = Unshown(m)]
    <2>1. d'.dc = "run" /\ d'.inq = d.inq /\ d'.lost = Unshown(m) /\ d'.ended = d.ended
      BY <1>2, <1>5
    <2>. QED  BY <1>1, <1>2, <1>4, <1>5, <2>1, DownShown
  <1>6. CASE /\ m.t = "Replay" /\ client' = Shown(m)
             /\ d' = [d EXCEPT !.lost = @ \/ client.eof, !.replayed = TRUE]
    <2>1. /\ d'.dc = "run" /\ d'.inq = d.inq /\ d'.ended = d.ended
          /\ d'.lost = (d.lost \/ client.eof)
      BY <1>2, <1>6
    <2>2. /\ DOMAIN client' = ClientFields /\ client'.eof = client.eof
          /\ client.eof => client'.got = client.got
      BY <1>1, <1>6, ShownKeeps
    <2>3. d.lost => client.eof
      BY <1>1 DEF EndInv
    <2>4. ASSUME ~client.eof PROVE client'.got = client.got
      <3>1. ~DownBlocked /\ DownChunks
        BY <1>1, <2>3, <2>4 DEF DownBlocked, DownInv
      <3>2. m.ns = <<>>
        BY <1>1, <1>2, <1>4, <1>6, <3>1, HeadCarries DEF Carries, Shows, DownWay
      <3>3. client.got \in Seq(Nat)
        BY <3>1, SegmentFirst DEF DownChunks
      <3>4. client'.got = client.got \o <<>>
        BY <1>1, <1>6, <2>4, <3>2 DEF Shown, ClientFields
      <3>. QED  BY <3>3, <3>4
    <2>. QED  BY <1>1, <1>2, <1>4, <1>6, <2>1, <2>2, <2>3, <2>4, DownIgnored DEF Shows
  <1>7. CASE /\ m.t = "Stop" /\ UNCHANGED client
             /\ d' = [KillTomb(d) EXCEPT !.ready = TRUE, !.ended = TRUE]
    <2>1. d'.dc = "run" /\ d'.inq = d.inq /\ d'.lost = d.lost
      BY <1>2, <1>7 DEF KillTomb
    <2>. QED  BY <1>1, <1>2, <1>4, <1>7, <2>1, DownIgnored DEF EndInv, Shows
  <1>. QED  BY <1>3, <1>5, <1>6, <1>7

\* The agent's steps of a shell.
LEMMA DownShellAgent ==
  ASSUME AgentShape, OpenerInv, ReplayInv, DownInv, Kind = "shell",
         \/ ShellOpenReceived \/ ShellInputReceived \/ ShellResizeReceived
         \/ ShellReplayReceived \/ ShellPumpRead \/ ShellPumpSend \/ ShellPumpEnds
         \/ ShellDying \/ ShellKilled
  PROVE  DownInv'
  <1>. USE DEF AgentShape, AgentFields, Goroutines
  <1>1. UNCHANGED <<scene, d, client>>
    BY DEF ShellOpenReceived, ShellInputReceived, ShellResizeReceived, ShellReplayReceived,
       ShellPumpRead, ShellPumpSend, ShellPumpEnds, ShellDying, ShellKilled, AgentDying,
       AgentOnly
  <1>2. /\ TargetShape /\ target.sent \in 0..scene.downs /\ scene.downs \in Nat
        /\ a.go["reader"] = "put" => target.sent > 0
    BY DEF DownInv
  <1>3. ~ShellReplayReceived
    <2>1. IsSeq(up) /\ NoReplay(up)
      BY DEF OpenerInv, ReplayInv
    <2>2. up # <<>> => Head(up).t # "Replay"
      BY <2>1, TailMoves DEF NoReplay
    <2>. QED  BY <2>2 DEF ShellReplayReceived, Receives
  <1>4. CASE ShellOpenReceived
    <2>1. a.go["reader"] = "off" /\ target' = target
      BY <1>4, OpenerFindsOff DEF ShellOpenReceived, Opener
    <2>2. TargetShape' /\ (TargetOver => TargetOver')
      BY <1>1, <1>2, <2>1 DEF TargetShape, TargetOver
    <2>3. CASE Failed
      BY <1>1, <2>1, <2>2, <2>3, FailedKeeps, DownAgentKeeps
    <2>4. CASE a' = Acked([a EXCEPT !.conn = "open", !.go["reader"] = "run"]) /\ down' = down
      <3>1. a'.dc = a.dc /\ a'.go["reader"] = "run"
        <4>. DEFINE r == [a EXCEPT !.conn = "open", !.go["reader"] = "run"]
        <4>1. DOMAIN r = AgentFields /\ r.dc = a.dc /\ r.go["reader"] = "run"
          OBVIOUS
        <4>. HIDE DEF r
        <4>2. a' = Acked(r)
          BY <2>4 DEF r
        <4>. QED  BY <4>1, <4>2, AckedFields
      <3>2. Forwards(a') => Forwards(a)
        BY <3>1 DEF Forwards
      <3>. QED  BY <1>1, <2>1, <2>2, <2>4, <3>1, <3>2, DownAgentKeeps
    <2>. QED  BY <1>4, <2>3, <2>4 DEF ShellOpenReceived
  <1>5. CASE ShellInputReceived \/ ShellResizeReceived \/ ShellDying \/ ShellKilled
    <2>1. /\ target' = target \/ \E ns : Delivered(ns)
          /\ down' = down \/ Failed
      BY <1>5 DEF ShellInputReceived, ShellResizeReceived, ShellDying, ShellKilled, AgentDying
    <2>2. /\ TargetShape' /\ target'.sent = target.sent /\ (TargetOver => TargetOver')
      BY <1>1, <1>2, <2>1 DEF TargetShape, TargetOver, Delivered
    <2>3. CASE Failed
      BY <1>1, <2>2, <2>3, FailedKeeps, DownAgentKeeps
    <2>4. CASE ~Failed
      <3>1. a'.go = a.go /\ (a'.dc = a.dc \/ a.dc = "run" \/ a'.dc = "gone")
        <4>1. CASE a' = Acked(a)
          BY <4>1, AckedFields
        <4>2. CASE ShellDying \/ ShellKilled
          BY <4>2 DEF ShellDying, ShellKilled, AgentDying
        <4>. QED  BY <1>5, <2>4, <4>1, <4>2 DEF ShellInputReceived, ShellResizeReceived
      <3>2. Forwards(a') => Forwards(a)
        BY <3>1 DEF Forwards
      <3>. QED  BY <1>1, <2>1, <2>2, <2>4, <3>1, <3>2, DownAgentKeeps
    <2>. QED  BY <2>3, <2>4
  <1>6. CASE ShellPumpRead
    <2>1. /\ down' = down /\ a.go["reader"] = "run" /\ FromTarget
          /\ a'.go["reader"] = "put" /\ a'.dc = a.dc
      BY <1>6 DEF ShellPumpRead
    <2>2. /\ target'.sent = target.sent + 1 /\ TargetShape' /\ target.sent < scene.downs
      BY <1>2, <2>1 DEF FromTarget, TargetHas, TargetShape
    <2>3. /\ target'.sent \in 0..scene.downs /\ target'.sent > 0 /\ LastSent' = LastSent
      BY <1>2, <2>1, <2>2 DEF LastSent
    <2>4. Forwards(a') => Forwards(a)
      BY <2>1 DEF Forwards
    <2>. QED  BY <1>1, <2>1, <2>2, <2>3, <2>4, DownSentNone
  <1>7. CASE ShellPumpSend
    <2>. DEFINE m == Smsg("StdOut", 0, <<target.sent>>, TRUE)
    <2>1. /\ a.go["reader"] = "put" /\ target' = target
          /\ down' = IF Forwards(a) THEN Append(down, m) ELSE down
          /\ a' = [a EXCEPT !.go["reader"] = "run"]
      BY <1>7 DEF ShellPumpSend, Send
    <2>2. m.t \in Shows /\ m.ns = <<target.sent>> /\ m.more
      BY DEF Smsg, Shows
    <2>. HIDE DEF m
    <2>3. a'.go["reader"] = "run" /\ a'.dc = a.dc
      BY <2>1
    <2>4. LastSent + 1 = target'.sent /\ TargetShape' /\ (Forwards(a') => Forwards(a))
      BY <1>2, <2>1, <2>3 DEF LastSent, TargetShape, Forwards
    <2>. QED  BY <1>1, <1>2, <2>1, <2>2, <2>3, <2>4, DownSentChunk
  <1>8. CASE ShellPumpEnds
    <2>1. /\ target' = target /\ a' = PumpReturns
          /\ \/ down' = down
             \/ \E m : m.ns = <<>> /\ ~Final(m, DownWay) /\ down' = Append(down, m)
      BY <1>8 DEF ShellPumpEnds, Send, Smsg, Final, Shows, DownWay
    <2>2. a'.go["reader"] = "end" /\ a'.dc = a.dc
      <3>. DEFINE r == [a EXCEPT !.go["reader"] = "end", !.conn = "closed"]
      <3>1. DOMAIN r = AgentFields /\ r.go["reader"] = "end" /\ r.dc = a.dc
        OBVIOUS
      <3>2. a' = CloseDone(r)
        BY <2>1 DEF PumpReturns
      <3>. HIDE DEF r
      <3>. QED  BY <3>1, <3>2, CloseDoneFields
    <2>3. TargetShape' /\ (TargetOver => TargetOver') /\ (Forwards(a') => Forwards(a))
      BY <1>1, <1>2, <2>1, <2>2 DEF TargetShape, TargetOver, Forwards
    <2>. QED  BY <1>1, <2>1, <2>2, <2>3, DownAgentKeeps
  <1>. QED  BY <1>3, <1>4, <1>5, <1>6, <1>7, <1>8

\* Every step of a shell.
LEMMA DownShell ==
  ASSUME DaemonShape, AgentShape, OpenerInv, ReplayInv, DownInv, ~scene.reorder,
         Kind = "shell", ShellNext
  PROVE  DownInv'
  BY DownShellQuiet, DownQuiet, DownShellReceives, DownShellAgent DEF ShellNext

-----------------------------------------------------------------------------
\* The daemon's steps of kubeexec that move no chunk down.
LEMMA DownKubeQuiet ==
  ASSUME DaemonShape, PanicInv, DownInv, Kind = "kubeexec",
         \/ KubeStartRefused \/ KubeExecStart \/ KubeExecClosed \/ KubeExecRead
         \/ KubeExecSend \/ KubeExecResize
  PROVE  QuietDown
  <1>. USE DEF DaemonShape, DaemonFields, Goroutines
  <1>1. DOMAIN client = ClientFields /\ IsSeq(down)
    BY DEF DownInv
  <1>2. UNCHANGED <<scene, a, target, down>>
    BY DEF KubeStartRefused, KubeExecStart, KubeExecClosed, KubeExecRead, KubeExecSend,
       KubeExecResize, DaemonOnly
  <1>3. /\ DOMAIN client' = ClientFields /\ client'.got = client.got
        /\ client'.eof = client.eof
    BY <1>1 DEF KubeStartRefused, KubeExecStart, KubeExecClosed, KubeExecRead, KubeExecSend,
       KubeExecResize, FromClient, Leaves, ClientFields
  <1>. DEFINE Kept == /\ d'.inq = d.inq /\ d'.lost = d.lost /\ d'.ended = d.ended
                      /\ d.go["writer"] = "end" => d'.go["writer"] = "end"
                      /\ d'.dc = d.dc /\ d'.held = d.held
  <1>4. ASSUME NEW r, DOMAIN r = DaemonFields, r.go = d.go, r.inq = d.inq, r.lost = d.lost,
               r.ended = d.ended, r.dc = d.dc, r.held = d.held,
               d' = CloseDone(Returns(r, "writer", FALSE))
        PROVE  Kept
    <2>1. /\ d'.inq = r.inq /\ d'.lost = r.lost /\ d'.ended = r.ended /\ d'.dc = r.dc
          /\ d'.held = r.held /\ d'.go = [r.go EXCEPT !["writer"] = "end"]
      BY <1>4, DaemonEndKeeps
    <2>. QED  BY <1>4, <2>1
  <1>5. CASE KubeStartRefused \/ KubeExecRead \/ KubeExecResize
    <2>1. Kept
      BY <1>5 DEF KubeStartRefused, KubeExecRead, KubeExecResize
    <2>. QED  BY <1>2, <1>3, <2>1 DEF QuietDown
  <1>6. CASE KubeExecStart
    <2>1. d.go["writer"] = "off"
      BY <1>6 DEF KubeExecStart, KubeStarts, PanicInv, Closer
    <2>2. /\ d'.inq = d.inq /\ d'.lost = d.lost /\ d'.ended = d.ended
          /\ d'.dc = d.dc /\ d'.held = d.held
      BY <1>6 DEF KubeExecStart, Leaves, Go
    <2>. QED  BY <1>2, <1>3, <2>1, <2>2 DEF QuietDown
  <1>7. CASE KubeExecClosed
    <2>1. CASE d' = CloseDone(Returns(d, "writer", FALSE))
      BY <1>2, <1>3, <1>4, <2>1 DEF QuietDown
    <2>2. CASE d' = [d EXCEPT !.go["writer"] = "stop"] /\ d.go["writer"] = "run"
      <3>1. Kept
        BY <2>2
      <3>. QED  BY <1>2, <1>3, <3>1 DEF QuietDown
    <2>. QED  BY <1>7, <2>1, <2>2 DEF KubeExecClosed
  <1>8. CASE KubeExecSend
    <2>1. CASE \/ d' = [d EXCEPT !.handler = "run"]
               \/ d' = [d EXCEPT !.handler = "end", !.stopped = TRUE]
      <3>1. Kept
        BY <2>1
      <3>. QED  BY <1>2, <1>3, <3>1 DEF QuietDown
    <2>2. CASE d' = CloseDone(Returns([d EXCEPT !.stopped = TRUE], "writer", FALSE))
      <3>. DEFINE r == [d EXCEPT !.stopped = TRUE]
      <3>1. /\ DOMAIN r = DaemonFields /\ r.go = d.go /\ r.inq = d.inq /\ r.lost = d.lost
            /\ r.ended = d.ended /\ r.dc = d.dc /\ r.held = d.held
        OBVIOUS
      <3>2. d' = CloseDone(Returns(r, "writer", FALSE))
        BY <2>2
      <3>. HIDE DEF r
      <3>. QED  BY <1>2, <1>3, <1>4, <3>1, <3>2 DEF QuietDown
    <2>. QED  BY <1>8, <2>1, <2>2 DEF KubeExecSend
  <1>. QED  BY <1>5, <1>6, <1>7, <1>8

\* What the writer of kubeexec makes of a message.
LEMMA DownKubeWrites ==
  ASSUME DaemonShape, DownInv, Kind = "kubeexec", KubeExecWrite
  PROVE  DownInv'
  <1>. USE DEF DaemonShape, DaemonFields, Goroutines
  <1>1. IsSeq(d.inq) /\ DOMAIN client = ClientFields /\ Kind \in Queued
    BY DEF DownInv, Queued
  <1>2. UNCHANGED <<scene, a, target, down>> /\ d.go["writer"] = "run" /\ d.inq # <<>>
    BY DEF KubeExecWrite, DaemonOnly
  <1>. DEFINE m == Head(d.inq)
              q == [d EXCEPT !.inq = Tail(@)]
              r == [q EXCEPT !.ended = m.t = "StdOut"]
  <1>3. \/ /\ m.t = "StdOut" /\ m.more
           /\ client' = Shown(m) /\ d' = [q EXCEPT !.lost = Unshown(m)]
        \/ /\ m.t = "Error" \/ ~m.more
           /\ d' = CloseDone(Returns(r, "writer", m.t = "Error"))
           /\ client' = [client EXCEPT !.shut = TRUE]
    BY DEF KubeExecWrite
  <1>4. CASE /\ m.t = "StdOut" /\ client' = Shown(m) /\ d' = [q EXCEPT !.lost = Unshown(m)]
    <2>1. /\ d'.inq = Tail(d.inq) /\ d'.dc = d.dc /\ d'.held = d.held /\ d'.go = d.go
          /\ d'.lost = Unshown(m) /\ d'.ended = d.ended /\ d'.act = d.act
      BY <1>4
    <2>2. m.t # "Error"
      BY <1>4
    <2>. HIDE DEF m
    <2>. QED  BY <1>1, <1>2, <1>4, <2>1, <2>2, DownWritten DEF m
  <1>5. CASE /\ m.t = "Error" \/ ~m.more
             /\ d' = CloseDone(Returns(r, "writer", m.t = "Error"))
             /\ client' = [client EXCEPT !.shut = TRUE]
    <2>1. /\ DOMAIN r = DaemonFields /\ r.inq = Tail(d.inq) /\ r.act = d.act /\ r.go = d.go
          /\ r.lost = d.lost /\ r.ended = (m.t = "StdOut")
      OBVIOUS
    <2>2. m.t = "StdOut" => Final(m, DownWay)
      BY <1>5 DEF Final, Shows, DownWay
    <2>. HIDE DEF r, q
    <2>3. /\ d'.inq = r.inq /\ d'.lost = r.lost /\ d'.act = r.act /\ d'.ended = r.ended
          /\ d'.go = [r.go EXCEPT !["writer"] = "end"]
      BY <1>5, <2>1, DaemonEndKeeps
    <2>4. IsSeq(d'.inq) /\ d'.go["writer"] = "end"
      BY <1>1, <1>2, <2>1, <2>3, TailMoves
    <2>5. /\ DOMAIN client' = ClientFields /\ client'.got = client.got
          /\ client'.eof = client.eof
      BY <1>1, <1>5 DEF ClientFields
    <2>6. /\ d'.lost <=> d.lost \/ (Kind = "pwdb" /\ d'.lost)
          /\ d'.ended /\ ~d'.lost => d.inq # <<>> /\ Final(Head(d.inq), DownWay)
      BY <1>2, <2>1, <2>2, <2>3
    <2>. QED  BY <1>1, <1>2, <2>1, <2>3, <2>4, <2>5, <2>6, DownWriterEnds
  <1>. QED  BY <1>3, <1>4, <1>5

-----------------------------------------------------------------------------
\* A step of the agent of kubeexec that reads nothing and sends no chunk.
LEMMA DownKubeKeeps ==
  ASSUME DownInv, Kind = "kubeexec", UNCHANGED <<scene, d, client>>,
         target' = target \/ \E ns : Delivered(ns),
         \/ down' = down
         \/ \E m : m.ns = <<>> /\ ~Final(m, DownWay) /\ down' = Append(down, m),
         Forwards(a') => Forwards(a),
         a'.conn = "closed" => ~Forwards(a') \/ a.conn = "closed",
         \/ a'.go["reader"] = a.go["reader"]
         \/ a'.go["reader"] = "run" /\ a.go["reader"] = "off" /\ a'.conn # "closed"
  PROVE  DownInv'
  <1>1. /\ TargetShape /\ target.sent \in 0..scene.downs /\ EndInv
        /\ a.go["reader"] = "put" => target.sent > 0
    BY DEF DownInv
  <1>2. /\ TargetShape' /\ target'.sent = target.sent
    BY <1>1 DEF TargetShape, Delivered
  <1>3. a'.go["reader"] # "end" => LastSent' = LastSent
    BY <1>2 DEF LastSent
  <1>4. a'.conn = "closed" => ~Forwards(a') \/ a'.go["reader"] = "end"
    BY <1>1 DEF EndInv
  <1>. QED  BY <1>1, <1>2, <1>3, <1>4, DownSentNone

\* The messages that the agent of kubeexec takes, stdin, and the end of the data channel.
LEMMA DownKubeReceives ==
  ASSUME AgentShape, OpenerInv, DownInv, Kind = "kubeexec",
         \/ KubeExecStartReceived \/ KubeExecInputReceived \/ KubeExecStopReceived
         \/ KubeExecResizeReceived \/ KubeExecStdin \/ KubeExecDying \/ KubeExecKilled
  PROVE  DownInv'
  <1>. USE DEF AgentShape, AgentFields, Goroutines
  <1>1. UNCHANGED <<scene, d, client>>
    BY DEF KubeExecStartReceived, KubeExecInputReceived, KubeExecStopReceived,
       KubeExecResizeReceived, KubeExecStdin, KubeExecDying, KubeExecKilled, AgentDying,
       AgentOnly
  <1>2. target' = target \/ \E ns : Delivered(ns)
    BY DEF KubeExecStartReceived, KubeExecInputReceived, KubeExecStopReceived,
       KubeExecResizeReceived, KubeExecStdin, KubeExecDying, KubeExecKilled, AgentDying
  <1>3. ASSUME NEW r, DOMAIN r = AgentFields, r.dc = a.dc, a' = Acked(r)
        PROVE  a'.go = r.go /\ a'.conn = r.conn /\ (Forwards(a') => Forwards(a))
    BY <1>3, AckedKeeps, AckedFields DEF Forwards
  <1>4. CASE KubeExecStartReceived
    <2>1. a.go["reader"] = "off"
      BY <1>4, OpenerFindsOff DEF KubeExecStartReceived, Opener
    <2>2. CASE Failed
      <3>1. a'.conn = a.conn
        BY <2>2 DEF Failed
      <3>. QED  BY <1>1, <1>2, <2>2, <3>1, FailedKeeps, DownKubeKeeps
    <2>3. CASE a' = Acked([a EXCEPT !.conn = "open", !.go["reader"] = "run"]) /\ down' = down
      <3>. DEFINE r == [a EXCEPT !.conn = "open", !.go["reader"] = "run"]
      <3>1. DOMAIN r = AgentFields /\ r.dc = a.dc /\ r.go["reader"] = "run" /\ r.conn = "open"
        OBVIOUS
      <3>2. a' = Acked(r)
        BY <2>3
      <3>. HIDE DEF r
      <3>3. a'.go = r.go /\ a'.conn = r.conn /\ (Forwards(a') => Forwards(a))
        BY <1>3, <3>1, <3>2
      <3>. QED  BY <1>1, <1>2, <2>1, <2>3, <3>1, <3>3, DownKubeKeeps
    <2>. QED  BY <1>4, <2>2, <2>3 DEF KubeExecStartReceived
  <1>5. CASE KubeExecInputReceived \/ KubeExecStopReceived
    <2>1. down' = down
      BY <1>5 DEF KubeExecInputReceived, KubeExecStopReceived
    <2>2. PICK r : /\ DOMAIN r = AgentFields /\ r.dc = a.dc /\ r.go = a.go /\ r.conn = a.conn
                   /\ a' = Acked(r)
      <3>. DEFINE s == [a EXCEPT !.stdin = @ \o Head(up).ns]
                  t == [a EXCEPT !.stopped = TRUE]
      <3>1. /\ DOMAIN s = AgentFields /\ s.dc = a.dc /\ s.go = a.go /\ s.conn = a.conn
            /\ DOMAIN t = AgentFields /\ t.dc = a.dc /\ t.go = a.go /\ t.conn = a.conn
        OBVIOUS
      <3>2. a' = Acked(a) \/ a' = Acked(s) \/ a' = Acked(t)
        BY <1>5 DEF KubeExecInputReceived, KubeExecStopReceived
      <3>. HIDE DEF s, t
      <3>. QED  BY <3>1, <3>2
    <2>. QED  BY <1>1, <1>2, <1>3, <2>1, <2>2, DownKubeKeeps
  <1>6. CASE KubeExecStdin \/ KubeExecDying \/ KubeExecKilled
    <2>1. down' = down
      BY <1>6 DEF KubeExecStdin, KubeExecDying, KubeExecKilled, AgentDying
    <2>2. /\ a'.go = a.go /\ (a'.dc = a.dc \/ a'.dc \in {"kill", "wait", "gone"})
          /\ a'.conn = a.conn \/ a'.dc = "wait"
      BY <1>6 DEF KubeExecStdin, KubeExecDying, KubeExecKilled, AgentDying
    <2>3. Forwards(a') => Forwards(a) /\ a'.conn = a.conn
      BY <2>2 DEF Forwards
    <2>. QED  BY <1>1, <1>2, <2>1, <2>2, <2>3, DownKubeKeeps
  <1>7. CASE KubeExecResizeReceived
    <2>1. down' = down /\ (a' = Acked(a) \/ a' = [a EXCEPT !.input = "stuck"])
      BY <1>7 DEF KubeExecResizeReceived
    <2>2. a'.go = a.go /\ a'.conn = a.conn /\ a'.dc = a.dc
      <3>1. CASE a' = Acked(a)
        BY <3>1, AckedKeeps, AckedFields
      <3>2. CASE a' = [a EXCEPT !.input = "stuck"]
        BY <3>2
      <3>. QED  BY <2>1, <3>1, <3>2
    <2>3. Forwards(a') => Forwards(a)
      BY <2>2 DEF Forwards
    <2>. QED  BY <1>1, <1>2, <2>1, <2>2, <2>3, DownKubeKeeps
  <1>. QED  BY <1>4, <1>5, <1>6, <1>7

\* The output of the command.
LEMMA DownKubeStdout ==
  ASSUME AgentShape, DownInv, Kind = "kubeexec", KubeExecStdout
  PROVE  DownInv'
  <1>. USE DEF AgentShape, AgentFields, Goroutines
  <1>1. /\ TargetShape /\ target.sent \in 0..scene.downs /\ scene.downs \in Nat
    BY DEF DownInv
  <1>. DEFINE m == Smsg("StdOut", a.seq, <<target.sent + 1>>, TRUE)
  <1>2. /\ UNCHANGED <<scene, d, client>> /\ FromTarget /\ a.go["reader"] = "run"
        /\ a.conn = "open" /\ a' = [a EXCEPT !.seq = @ + 1]
        /\ down' = IF Forwards(a) THEN Append(down, m) ELSE down
    BY DEF KubeExecStdout, AgentOnly, Send
  <1>3. m.t \in Shows /\ m.ns = <<target.sent + 1>> /\ m.more
    BY DEF Smsg, Shows
  <1>. HIDE DEF m
  <1>4. a'.go = a.go /\ a'.dc = a.dc /\ a'.conn = a.conn
    BY <1>2
  <1>5. /\ target'.sent = target.sent + 1 /\ TargetShape' /\ target.sent < scene.downs
    BY <1>1, <1>2 DEF FromTarget, TargetHas, TargetShape
  <1>6. /\ LastSent + 1 = target'.sent /\ target'.sent \in 0..scene.downs
        /\ (Forwards(a') => Forwards(a))
    BY <1>1, <1>2, <1>4, <1>5 DEF LastSent, Forwards
  <1>. QED  BY <1>1, <1>2, <1>3, <1>4, <1>5, <1>6, DownSentChunk

\* The command has ended, or broken off.
LEMMA DownKubeEnds ==
  ASSUME AgentShape, DownInv, Kind = "kubeexec", KubeExecEnds
  PROVE  DownInv'
  <1>. USE DEF AgentShape, AgentFields, Goroutines
  <1>1. /\ TargetShape /\ target.sent \in 0..scene.downs /\ scene.downs \in Nat
        /\ EndInv /\ IsSeq(down) /\ DownChunks
    BY DEF DownInv
  <1>. DEFINE end == Smsg("StdOut", a.seq, <<>>, FALSE)
              err == Smsg("Error", 0, <<>>, FALSE)
              r == [a EXCEPT !.go["reader"] = "end", !.conn = "closed"]
  <1>2. /\ UNCHANGED <<scene, d, client, target>> /\ a.go["reader"] = "run"
        /\ TargetOver \/ a.conn = "closed"
        /\ a' = CloseDone(r)
        /\ down' = IF Forwards(a)
                     THEN down \o (IF target.err THEN <<err, end>> ELSE <<end>>) ELSE down
    BY DEF KubeExecEnds, AgentOnly, SendAll
  <1>3. a'.go["reader"] = "end"
    <2>1. DOMAIN r = AgentFields /\ r.go["reader"] = "end"
      OBVIOUS
    <2>. HIDE DEF r
    <2>. QED  BY <1>2, <2>1, CloseDoneFields
  <1>4. /\ end.ns = <<>> /\ err.ns = <<>> /\ err.t = "Error" /\ end.t = "StdOut"
    BY DEF Smsg
  <1>. HIDE DEF end, err, r
  <1>5. LastSent = target.sent
    BY <1>2 DEF LastSent
  <1>6. Forwards(a) => TargetOver
    BY <1>1, <1>2 DEF EndInv
  <1>7. CASE Forwards(a) /\ target.err
    <2>1. down' = Append(Append(down, err), end)
      <3>1. PICK S : down \in Seq(S)
        BY <1>1 DEF IsSeq
      <3>2. down \o <<err, end>> = Append(Append(down, err), end)
        BY <3>1
      <3>. QED  BY <1>2, <1>7, <3>2
    <2>2. IsSeq(Append(down, err)) /\ IsSeq(down')
      BY <1>1, <2>1, AppendMoves
    <2>3. ASSUME NEW q \in Nat, NEW p \in Nat, DownRun(down, q, p)
          PROVE  Run(down', q, scene.downs, DownWay, {scene.downs})
      <3>1. Carries(err, p, scene.downs, DownWay, {scene.downs})
        BY <1>4 DEF Carries, Final, Shows, DownWay
      <3>2. Run(Append(down, err), q, scene.downs, DownWay, {scene.downs})
        BY <1>1, <2>3, <3>1, RunAppend DEF DownRun
      <3>3. Carries(end, scene.downs, scene.downs, DownWay, {scene.downs})
        BY <1>1, <1>4, SegmentNone DEF Carries
      <3>. QED  BY <1>1, <2>1, <2>2, <3>2, <3>3, RunAppend
    <2>4. DownChunks'
      BY <1>1, <1>2, <1>3, <2>3, ChunksSent
    <2>. QED  BY <1>1, <1>2, <1>3, <2>2, <2>4, DownAgent DEF TargetShape
  <1>8. CASE ~(Forwards(a) /\ target.err)
    <2>1. down' = IF Forwards(a) THEN Append(down, end) ELSE down
      <3>1. PICK S : down \in Seq(S)
        BY <1>1 DEF IsSeq
      <3>2. down \o <<end>> = Append(down, end)
        BY <3>1
      <3>. QED  BY <1>2, <1>8, <3>2
    <2>2. Forwards(a) => LastSent = scene.downs
      BY <1>5, <1>6, <1>8 DEF TargetOver
    <2>. QED  BY <1>1, <1>2, <1>3, <1>4, <2>1, <2>2, DownSentLast
  <1>. QED  BY <1>7, <1>8

\* Every step of kubeexec.
LEMMA DownKube ==
  ASSUME DaemonShape, AgentShape, OpenerInv, PanicInv, DownInv, Kind = "kubeexec",
         KubeExecSteps
  PROVE  DownInv'
  BY DownKubeQuiet, DownQuiet, DownKubeWrites, DownKubeReceives, DownKubeStdout,
     DownKubeEnds DEF KubeExecSteps

-----------------------------------------------------------------------------
(* Sessions without reordering.                                            *)

\* An action of a kind takes only the steps of its kind.
LEMMA StepKinds ==
  ASSUME Kind \in Careful
  PROVE  /\ DbNext => Kind \in DbKinds
         /\ OpaqueSteps => Kind = "opaque"
         /\ ShellNext => Kind \in ShellKinds
         /\ WebDialSteps => Kind = "webdial"
         /\ KubeExecSteps => Kind = "kubeexec"
  <1>1. DbNext => Kind \in DbKinds
    BY DEF DbNext, DbKinds, DbStartRefused, DialStart, LocalRead, LocalReadDying,
       LocalInput, DialStopSent, DialTake, DialProcess, WriterDying, PwdbStart,
       PwdbStartFails, PwdbReceiveMrtap, PwdbProcess, PwdbCloseSent,
       DialStartReceived, DialInputReceived, PwdbConnectReceived, PwdbInputReceived,
       DbCloseReceived, RemoteRead, RemoteStream, RemoteEnd, RemoteReadDying, DbDying
  <1>2. OpaqueSteps => Kind = "opaque"
    BY DEF OpaqueSteps, OpaqueStart, OpaqueRead, OpaqueSend, OpaqueReceiveStream, OpaqueDone,
       OpaqueKill, OpaqueOpenReceived, OpaqueInputReceived, OpaqueCloseReceived,
       OpaqueRemoteRead, OpaqueRemoteSend, OpaqueDying
  <1>3. ShellNext => Kind \in ShellKinds
    BY DEF ShellNext, ShellStart, ShellResize, ShellKey, ShellInput, ShellDone, ShellReceive,
       ShellKill, ShellOpenReceived, ShellInputReceived, ShellResizeReceived,
       ShellReplayReceived, ShellPumpRead, ShellPumpSend, ShellPumpEnds, ShellDying,
       ShellKilled
  <1>4. WebDialSteps => Kind = "webdial"
    BY DEF Careful, WebDialSteps, WebKinds, WebStartRefused, WebDialStart, WebDialBody,
       WebDialCancelled, WebDialDying, WebDialTake, WebDialProcess, WebDialStartReceived,
       WebDialInputReceived, WebDialLastReceived, WebDialInterruptReceived,
       WebDialReads, WebDialResponse, WebAgentDying
  <1>5. KubeExecSteps => Kind = "kubeexec"
    BY DEF Careful, KubeExecSteps, KubeKinds, KubeStartRefused, KubeExecStart,
       KubeExecWrite, KubeExecClosed, KubeExecRead, KubeExecSend, KubeExecResize,
       KubeExecResizeReceived, KubeExecStartReceived,
       KubeExecInputReceived, KubeExecStopReceived, KubeExecStdin, KubeExecStdout,
       KubeExecEnds, KubeExecDying, KubeExecKilled
  <1>. QED  BY <1>1, <1>2, <1>3, <1>4, <1>5

\* At the start nothing has moved.
LEMMA DownInitially ==
  ASSUME Init, Kind \in Fifo
  PROVE  DownInv /\ FreshInv /\ ReplayInv
  <1>1. /\ outbox = <<>> /\ up = <<>> /\ down = <<>> /\ DOMAIN client = ClientFields
        /\ client.got = <<>> /\ TargetShape /\ target.sent = 0
    BY DEF Init, SessionInit, ClientFields, TargetShape, NewTarget, Fifo
  <1>2. /\ d.keys = <<>> /\ d.act = "none" /\ d.go["writer"] = "off" /\ ~d.ended /\ ~d.lost
        /\ d.inq = <<>> /\ d.dc = IF Kind \in Early THEN "none" ELSE "run"
    BY DEF Init, DaemonInit, Goroutines
  <1>3. scene \in Scenes /\ a.go["reader"] = "off"
    BY InitShapes DEF Fifo
  <1>4. scene.downs \in Nat
    BY <1>3, SceneAssumption DEF SceneOK
  <1>5. a.conn # "closed"
    <2>1. a = AgentInit(Kind \in SshKinds, Ring!New(RingSize))
      BY DEF Init, Fifo
    <2>. QED  BY <2>1 DEF AgentInit
  <1>6. IsSeq(<<>>)
    BY DEF IsSeq
  <1>7. EndInv
    BY <1>2, <1>3, <1>5 DEF EndInv
  <1>8. DownChunks
    <2>1. LastSent = 0
      BY <1>1, <1>3 DEF LastSent
    <2>2. DownRun(<<>>, 0, 0)
      BY RunNone DEF DownRun
    <2>3. d.dc # "push"
      BY <1>2
    <2>4. DownFlow(0)
      BY <1>1, <1>2, <2>1, <2>2, <2>3 DEF DownFlow
    <2>5. Segment(client.got, 0, 0)
      BY <1>1, SegmentNone
    <2>. QED  BY <2>4, <2>5 DEF DownChunks
  <1>9. DownInv
    BY <1>1, <1>2, <1>3, <1>4, <1>6, <1>7, <1>8 DEF DownInv
  <1>10. FreshInv
    BY <1>1, <1>2 DEF FreshInv, Fifo, Early, SshKinds, ShellKinds
  <1>11. ReplayInv
    BY <1>1 DEF ReplayInv, NoReplay
  <1>. QED  BY <1>9, <1>10, <1>11

\* The chunks on their way down are in order in every state that a session reaches in
\* which messages keep their order.
LEMMA DownAlways ==
  Spec => [](Kind \in Fifo /\ ~scene.reorder => DownInv /\ FreshInv /\ ReplayInv)
  <1>. DEFINE I == Kind \in Fifo /\ ~scene.reorder => DownInv /\ FreshInv /\ ReplayInv
  <1>1. Init => I
    BY DownInitially
  <1>2. NoPanicInv /\ I /\ [Next]_vars => I'
    <2>. SUFFICES ASSUME NoPanicInv, I, [Next]_vars, Kind' \in Fifo, ~scene'.reorder
                  PROVE  DownInv' /\ FreshInv' /\ ReplayInv'
      OBVIOUS
    <2>1. CASE Next
      <3>1. Kind \in Fifo /\ ~scene.reorder /\ Kind \in Careful
        BY <2>1, SceneStays DEF Kind, Fifo, Careful
      <3>2. /\ DaemonShape /\ AgentShape /\ OpenerInv /\ PanicInv
            /\ DownInv /\ FreshInv /\ ReplayInv
        BY <3>1 DEF NoPanicInv
      <3>3. SharedSteps \/ DbNext \/ OpaqueSteps \/ ShellNext \/ WebDialSteps
            \/ KubeExecSteps
        BY <2>1, <3>1, CarefulSteps
      <3>4. FreshInv' /\ ReplayInv'
        BY <2>1, <3>1, <3>2, FreshStep, ReplayStep
      <3>5. CASE SharedSteps
        BY <3>1, <3>2, <3>4, <3>5, DownShared, DownSharedAgent DEF SharedSteps
      <3>6. CASE DbNext \/ OpaqueSteps \/ ShellNext \/ WebDialSteps \/ KubeExecSteps
        <4>1. \/ DbNext /\ Kind = "pwdb"
              \/ OpaqueSteps /\ Kind = "opaque"
              \/ ShellNext /\ Kind = "shell"
              \/ KubeExecSteps /\ Kind = "kubeexec"
          BY <3>1, <3>6, StepKinds DEF Fifo, DbKinds, ShellKinds
        <4>. QED
          BY <3>1, <3>2, <3>4, <4>1, DownDb, DownOpaque, DownShell, DownKube
      <3>. QED  BY <3>3, <3>5, <3>6
    <2>2. CASE UNCHANGED vars
      <3>1. DownInv /\ FreshInv /\ ReplayInv
        BY <2>2 DEF vars, Kind
      <3>2. QuietDown
        BY <2>2, <3>1 DEF vars, QuietDown, DownInv
      <3>3. FreshInv' /\ ReplayInv'
        BY <2>2, <3>1 DEF vars, FreshInv, ReplayInv, NoReplay, Kind
      <3>. QED  BY <3>1, <3>2, <3>3, DownQuiet
    <2>. QED  BY <2>1, <2>2
  <1>. QED  BY <1>1, <1>2, NeverPanics, PTL DEF Spec

-----------------------------------------------------------------------------
(* Messages that are numbered.                                             *)

\* A sequence is one over its elements.
LEMMA RangeSeq ==
  ASSUME NEW s, IsSeq(s)
  PROVE  /\ s \in Seq(Range(s)) /\ \A i \in DOMAIN s : s[i] \in Range(s)
         /\ \A R : s \in Seq(R) => Range(s) \subseteq R
  <1>1. PICK S : s \in Seq(S)
    BY DEF IsSeq
  <1>2. s \in Seq(Range(s))
    BY <1>1 DEF Range
  <1>. QED  BY <1>2 DEF Range

\* One more.
LEMMA RangeAppend ==
  ASSUME NEW s, IsSeq(s), NEW m
  PROVE  IsSeq(Append(s, m)) /\ Range(Append(s, m)) \subseteq Range(s) \cup {m}
  <1>1. s \in Seq(Range(s) \cup {m})
    BY RangeSeq
  <1>2. Append(s, m) \in Seq(Range(s) \cup {m})
    BY <1>1
  <1>3. IsSeq(Append(s, m))
    BY <1>2 DEF IsSeq
  <1>. QED  BY <1>2, <1>3, RangeSeq

\* A message was sent, or none.
LEMMA RangeSent ==
  ASSUME NEW s, IsSeq(s), NEW m, NEW t, t = s \/ t = Append(s, m)
  PROVE  IsSeq(t) /\ \A n \in Range(t) : n \in Range(s) \/ n = m
  <1>1. CASE t = s
    BY <1>1
  <1>2. CASE t = Append(s, m)
    <2>1. IsSeq(Append(s, m)) /\ Range(Append(s, m)) \subseteq Range(s) \cup {m}
      BY RangeAppend
    <2>. QED  BY <1>2, <2>1
  <1>. QED  BY <1>1, <1>2

\* The first is taken,
LEMMA RangeTail ==
  ASSUME NEW s, IsSeq(s), s # <<>>
  PROVE  IsSeq(Tail(s)) /\ Range(Tail(s)) \subseteq Range(s) /\ Head(s) \in Range(s)
  <1>1. s \in Seq(Range(s))
    BY RangeSeq
  <1>2. Tail(s) \in Seq(Range(s)) /\ Head(s) \in Range(s)
    BY <1>1
  <1>3. IsSeq(Tail(s))
    BY <1>2 DEF IsSeq
  <1>. QED  BY <1>2, <1>3, RangeSeq

\* or another one.
LEMMA RangeRemoved ==
  ASSUME NEW s, IsSeq(s), NEW i \in DOMAIN s
  PROVE  IsSeq(RemoveAt(s, i)) /\ Range(RemoveAt(s, i)) \subseteq Range(s)
  <1>1. s \in Seq(Range(s)) /\ Len(s) \in Nat /\ i \in 1..Len(s)
    BY RangeSeq
  <1>. DEFINE t == SubSeq(s, 1, i - 1)
              u == SubSeq(s, i + 1, Len(s))
  <1>2. t \in Seq(Range(s))
    BY <1>1
  <1>3. u \in Seq(Range(s))
    BY <1>1
  <1>4. RemoveAt(s, i) = t \o u
    BY DEF RemoveAt
  <1>. HIDE DEF t, u
  <1>5. RemoveAt(s, i) \in Seq(Range(s))
    BY <1>2, <1>3, <1>4
  <1>6. IsSeq(RemoveAt(s, i))
    BY <1>5 DEF IsSeq
  <1>. QED  BY <1>5, <1>6, RangeSeq

\* The main goroutine takes one of the messages that are on their way.
LEMMA TakesOne ==
  ASSUME IsSeq(down), NEW m, Takes(m)
  PROVE  IsSeq(down') /\ Range(down') \subseteq Range(down) /\ m \in Range(down)
  <1>1. PICK i \in DOMAIN down : m = down[i] /\ down' = RemoveAt(down, i)
    BY DEF Takes
  <1>. QED  BY <1>1, RangeRemoved, RangeSeq

\* A message keeps its place while the target sends more.
LEMMA PlacedStays ==
  ASSUME UNCHANGED scene, SendingOver => SendingOver', scene.downs \in Nat,
         target.sent \in 0..scene.downs, target'.sent \in 0..scene.downs,
         target'.sent = target.sent \/ (target'.sent > target.sent /\ ~SendingOver),
         NEW m, Placed(m)
  PROVE  Placed(m)'
  <1>1. Kind' = Kind
    BY DEF Kind
  <1>. QED  BY <1>1 DEF Placed

\* A step of the daemon that shows nothing.
LEMMA NumberQuiet ==
  ASSUME NumberInv, QuietNumber, Kind \in Numbered
  PROVE  NumberInv'
  <1>. USE DEF QuietNumber
  <1>1. Kind' = Kind /\ Complete' = Complete /\ SendingOver' = SendingOver
    BY DEF Kind, Complete, SendingOver
  <1>2. SeqInv'
    BY <1>1 DEF NumberInv, SeqInv, LastSent, TargetOver
  <1>3. NextInv'
    <2>1. /\ NextInv /\ \A k : Segment(client.got, 0, k) <=> Segment(client.got, 0, k)'
      BY DEF NumberInv, Segment
    <2>2. /\ d'.next \in Nat
          /\ Kind' = "dial" /\ d'.act = "none" => d'.go["writer"] = "off"
          /\ Kind' = "webdial" => \A m \in d'.buf : m.t = "Stream"
          /\ d'.lost => client'.eof
          /\ d'.ended => IF Kind' = "dial" THEN d'.go["writer"] = "end"
                         ELSE d'.handler = "end"
          /\ d'.ended /\ ~d'.lost => Complete'
      BY <1>1, <2>1 DEF NextInv, Numbered
    <2>3. (\E k \in Nat :
             /\ Segment(client.got, 0, k)
             /\ d.lost \/ d.next = k \/ (SendingOver /\ d.next > target.sent))'
      BY <1>1, <2>1 DEF NextInv
    <2>. QED  BY <2>2, <2>3 DEF NextInv
  <1>4. \A m \in Flying' : Placed(m)'
    BY <1>1 DEF NumberInv, Placed
  <1>. QED  BY <1>2, <1>3, <1>4 DEF NumberInv, TargetShape

\* A step of the agent.
LEMMA NumberAgent ==
  ASSUME NumberInv, UNCHANGED <<scene, d, client>>, Kind \in Numbered,
         TargetShape', SeqInv', SendingOver => SendingOver',
         target'.sent = target.sent \/ (target'.sent > target.sent /\ ~SendingOver),
         IsSeq(down'), \A m \in Range(down') : m \in Range(down) \/ Placed(m)'
  PROVE  NumberInv'
  <1>1. Kind' = Kind /\ Complete' = Complete
    BY DEF Kind, Complete
  <1>2. /\ scene.downs \in Nat /\ target.sent \in 0..scene.downs
        /\ target'.sent \in 0..scene.downs
    BY DEF NumberInv, SeqInv
  <1>3. NextInv'
    <2>1. /\ NextInv /\ \A k : Segment(client.got, 0, k) <=> Segment(client.got, 0, k)'
      BY DEF NumberInv, Segment
    <2>2. (\E k \in Nat :
             /\ Segment(client.got, 0, k)
             /\ d.lost \/ d.next = k \/ (SendingOver /\ d.next > target.sent))'
      BY <1>1, <2>1 DEF NextInv
    <2>. QED  BY <1>1, <2>1, <2>2 DEF NextInv
  <1>4. \A m \in Flying' : Placed(m)'
    <2>1. ASSUME NEW m \in Flying PROVE Placed(m)'
      <3>1. Placed(m)
        BY <2>1 DEF NumberInv
      <3>. QED  BY <1>2, <3>1, PlacedStays
    <2>2. \A m \in Flying' : m \in Range(down') \/ m \in Flying
      BY DEF Flying
    <2>3. \A m \in Range(down) : m \in Flying
      BY DEF Flying
    <2>. QED  BY <2>1, <2>2, <2>3
  <1>. QED  BY <1>3, <1>4 DEF NumberInv

-----------------------------------------------------------------------------
\* The message whose turn it is, is shown.
LEMMA NumberShown ==
  ASSUME NumberInv, Kind \in Numbered, UNCHANGED <<scene, a, target, down>>,
         NEW m \in d.buf, m.seq = d.next, m.t = "Stream", m.more \/ Kind = "webdial",
         DOMAIN client' = ClientFields, client'.eof = client.eof,
         client'.got = Shown(m).got, d'.lost <=> Unshown(m), d'.next = d.next + 1,
         d'.buf \subseteq d.buf, d'.inq = d.inq, d'.dc = d.dc, d'.held = d.held,
         ~d.ended, d'.ended => ~m.more /\ Kind = "webdial" /\ d'.handler = "end",
         Kind = "dial" => d'.act # "none"
  PROVE  NumberInv'
  <1>1. /\ Kind' = Kind /\ SendingOver' = SendingOver
        /\ Flying' \subseteq Flying
    BY DEF Kind, SendingOver, Flying
  <1>2. /\ SeqInv /\ NextInv /\ DOMAIN client = ClientFields /\ scene.downs \in Nat
        /\ target.sent \in 0..scene.downs /\ d.next \in Nat
    BY DEF NumberInv, SeqInv, NextInv
  <1>3. Placed(m)
    BY DEF NumberInv, Flying
  <1>4. SeqInv'
    BY <1>1, <1>2 DEF SeqInv, LastSent, TargetOver
  <1>5. /\ Shown(m).got = IF client.eof THEN client.got ELSE client.got \o m.ns
    BY <1>2 DEF Shown, ClientFields
  <1>6. PICK k \in Nat :
          /\ Segment(client.got, 0, k)
          /\ d.lost \/ d.next = k \/ (SendingOver /\ d.next > target.sent)
    BY <1>2 DEF NextInv
  <1>7. d'.lost => client'.eof
    BY <1>2 DEF NextInv, Unshown
  <1>8. NextInv'
    <2>1. ASSUME NEW j \in Nat, Segment(client'.got, 0, j),
                 d'.lost \/ d'.next = j \/ (SendingOver /\ d'.next > target.sent),
                 d'.ended /\ ~d'.lost => j = scene.downs
          PROVE  NextInv'
      <3>1. Segment(client.got, 0, j)'
        BY <2>1 DEF Segment
      <3>2. d'.ended /\ ~d'.lost => Complete'
        BY <2>1, SegmentFirst DEF Complete
      <3>3. (\E n \in Nat :
               /\ Segment(client.got, 0, n)
               /\ d.lost \/ d.next = n \/ (SendingOver /\ d.next > target.sent))'
        BY <1>1, <2>1, <3>1
      <3>. QED  BY <1>1, <1>2, <1>7, <3>2, <3>3 DEF NextInv, Numbered
    <2>2. CASE d'.lost
      <3>1. client'.got = client.got
        BY <1>5, <1>7, <2>2
      <3>. QED  BY <1>6, <2>1, <2>2, <3>1
    <2>3. CASE ~d'.lost
      <3>1. ~d.lost /\ (m.ns = <<>> \/ ~client.eof)
        BY <2>3 DEF Unshown
      <3>2. CASE m.seq < target.sent /\ m.ns = <<m.seq + 1>>
        <4>1. d.next = k
          BY <1>2, <1>6, <3>1, <3>2
        <4>2. Segment(m.ns, k, k + 1)
          BY <3>2, <4>1, SegmentOne
        <4>3. ~client.eof
          BY <3>1, <3>2
        <4>4. Segment(client'.got, 0, k + 1)
          BY <1>2, <1>6, <4>2, <4>3, ShownChunks
        <4>5. d'.ended => k + 1 = scene.downs
          BY <1>3, <3>2, <4>1 DEF Placed
        <4>. QED  BY <2>1, <4>1, <4>4, <4>5
      <3>3. CASE m.more /\ m.ns = <<>> /\ SendingOver /\ m.seq >= target.sent
        <4>1. client.got \in Seq(Nat)
          BY <1>6, SegmentFirst
        <4>2. client'.got = client.got
          BY <1>5, <3>3, <4>1
        <4>3. d'.next > target.sent
          BY <1>2, <3>3
        <4>. QED  BY <1>6, <2>1, <3>3, <4>2, <4>3
      <3>. QED  BY <1>3, <3>2, <3>3 DEF Placed, Numbered
    <2>. QED  BY <2>2, <2>3
  <1>9. \A n \in Flying' : Placed(n)'
    BY <1>1 DEF NumberInv, Placed
  <1>. QED  BY <1>4, <1>8, <1>9 DEF NumberInv, TargetShape

\* A step of the agent that reads nothing and numbers no message.
LEMMA NumberAgentQuiet ==
  ASSUME NumberInv, Kind \in Numbered, UNCHANGED <<scene, d, client>>, TargetShape',
         target'.sent = target.sent, target.err => target'.err, TargetOver => TargetOver',
         a'.seq = a.seq, IsSeq(down'),
         \A m \in Range(down') :
           \/ m \in Range(down)
           \/ m.seq \in Nat /\ m.t # "Stream" /\ (Kind = "dial" => m.t # "Error"),
         Kind = "dial" => \/ a'.go["reader"] = a.go["reader"]
                          \/ /\ a.go["reader"] \notin {"put", "end"}
                             /\ a'.go["reader"] \in {"run", "end"}
  PROVE  NumberInv'
  <1>1. Kind' = Kind /\ (SendingOver => SendingOver')
    BY DEF Kind, SendingOver
  <1>2. SeqInv'
    BY <1>1 DEF NumberInv, SeqInv, LastSent
  <1>3. \A m \in Range(down') : m \in Range(down) \/ Placed(m)'
    BY <1>1 DEF Placed
  <1>. QED  BY <1>1, <1>2, <1>3, NumberAgent

\* The steps of the data channels, of the client and of the target.
LEMMA NumberShared ==
  ASSUME DaemonShape, AgentShape, NumberInv, Kind \in Numbered, SharedSteps
  PROVE  NumberInv'
  <1>. USE DEF DaemonShape, DaemonFields, AgentShape, AgentFields
  <1>1. /\ IsSeq(down) /\ IsSeq(d.inq) /\ DOMAIN client = ClientFields /\ TargetShape
        /\ Range(down) \cup Range(d.inq) \cup d.buf \subseteq Flying
    BY DEF NumberInv, Flying
  <1>2. CASE ClientEnds \/ Close \/ Zap \/ DaemonChannel
    <2>1. UNCHANGED <<scene, a, target>>
      BY <1>2 DEF ClientEnds, Close, Zap, DaemonChannel, ReceiveError, ReceiveStream,
         PushStream, Undelivered, KillWaiting, KillReturns, PluginDone, Drain, Drained,
         DaemonOnly
    <2>2. /\ DOMAIN client' = ClientFields /\ client'.got = client.got
          /\ client.eof => client'.eof
      BY <1>1, <1>2 DEF ClientEnds, Close, Zap, DaemonChannel, ReceiveError, ReceiveStream,
         PushStream, Undelivered, KillWaiting, KillReturns, PluginDone, Drain, Drained,
         ClientFields
    <2>3. /\ d'.next = d.next /\ d'.lost = d.lost /\ d'.ended = d.ended /\ d'.act = d.act
          /\ d'.go = d.go /\ d'.handler = d.handler /\ d'.buf = d.buf
      <3>1. CASE ReceiveStream(Queueing, Streams) \/ PushStream
        BY <3>1 DEF ReceiveStream, PushStream
      <3>2. CASE KillWaiting(DbKinds \cup WebKinds \cup {"kubeexec"})
        BY <3>2 DEF KillWaiting, KillTomb
      <3>3. CASE ~(\/ ReceiveStream(Queueing, Streams) \/ PushStream
                   \/ KillWaiting(DbKinds \cup WebKinds \cup {"kubeexec"}))
        BY <1>2, <3>3 DEF ClientEnds, Close, Zap, DaemonChannel, ReceiveError,
           Undelivered, KillReturns, PluginDone, Drain, Drained
      <3>. QED  BY <3>1, <3>2, <3>3
    <2>4. \/ down' = down
          \/ \E m : Takes(m)
          \/ down # <<>> /\ down' = Tail(down)
      BY <1>2 DEF ClientEnds, Close, Zap, DaemonChannel, ReceiveError, ReceiveStream,
         PushStream, Undelivered, KillWaiting, KillReturns, PluginDone, Drain, Drained
    <2>5. IsSeq(down') /\ Range(down') \subseteq Range(down)
      BY <1>1, <2>4, TakesOne, RangeTail
    <2>6. CASE PushStream
      <3>1. /\ d.dc = "push" /\ d'.dc = "run" /\ d'.inq = Append(d.inq, d.held)
        BY <2>6 DEF PushStream
      <3>2. IsSeq(d'.inq) /\ Range(d'.inq) \subseteq Range(d.inq) \cup {d.held}
        BY <1>1, <3>1, RangeAppend
      <3>3. Flying' \subseteq Flying
        BY <2>3, <2>5, <3>1, <3>2 DEF Flying
      <3>. QED  BY <2>1, <2>2, <2>3, <2>5, <3>2, <3>3, NumberQuiet DEF QuietNumber
    <2>7. CASE ~PushStream
      <3>1. /\ d'.inq = d.inq
            /\ d'.dc = "push" => \/ d.dc = "push" /\ d'.held = d.held
                                 \/ Takes(d'.held)
        BY <1>2, <2>7 DEF ClientEnds, Close, Zap, DaemonChannel, ReceiveError, ReceiveStream,
           Undelivered, KillWaiting, KillReturns, PluginDone, Drain, Drained, KillTomb
      <3>2. d'.dc = "push" => d'.held \in Flying
        BY <1>1, <3>1, TakesOne DEF Flying
      <3>3. Flying' \subseteq Flying
        BY <1>1, <2>3, <2>5, <3>1, <3>2 DEF Flying
      <3>. QED  BY <1>1, <2>1, <2>2, <2>3, <2>5, <3>1, <3>3, NumberQuiet DEF QuietNumber
    <2>. QED  BY <2>6, <2>7
  <1>3. CASE TargetEnds \/ AgentChannel
    <2>1. UNCHANGED <<scene, d, client, down>>
      BY <1>3 DEF TargetEnds, AgentChannel, ReceiveRefused, AgentClose, AgentKilled,
         InputKilled, AgentPluginDone, AgentOnly
    <2>2. /\ TargetShape' /\ target'.sent = target.sent /\ (target.err => target'.err)
          /\ (TargetOver => TargetOver')
      BY <1>1, <1>3, <2>1 DEF TargetEnds, AgentChannel, ReceiveRefused, AgentClose,
         AgentKilled, InputKilled, AgentPluginDone, TargetShape, TargetOver
    <2>3. a'.go = a.go /\ a'.seq = a.seq
      <3>1. CASE InputKilled
        BY <3>1 DEF InputKilled, Acked
      <3>2. CASE ~InputKilled
        BY <1>3, <3>2 DEF TargetEnds, AgentChannel, ReceiveRefused, AgentClose, AgentKilled,
           AgentPluginDone
      <3>. QED  BY <3>1, <3>2
    <2>. QED  BY <1>1, <2>1, <2>2, <2>3, NumberAgentQuiet
  <1>. QED  BY <1>2, <1>3 DEF SharedSteps

-----------------------------------------------------------------------------
\* The daemon's steps of dial that show nothing.
LEMMA NumberDialQuiet ==
  ASSUME DaemonShape, NumberInv, Kind = "dial",
         \/ DbStartRefused \/ LocalRead \/ LocalReadDying \/ LocalInput \/ WriterDying
         \/ DialStart \/ DialStopSent \/ DialTake
  PROVE  QuietNumber
  <1>. USE DEF DaemonShape, DaemonFields, Goroutines
  <1>1. DOMAIN client = ClientFields /\ IsSeq(down) /\ IsSeq(d.inq) /\ NextInv
    BY DEF NumberInv
  <1>2. UNCHANGED <<scene, a, target, down>>
    BY DEF DbStartRefused, LocalRead, LocalReadDying, LocalInput, WriterDying, DialStart,
       DialStopSent, DialTake, DaemonOnly
  <1>3. /\ DOMAIN client' = ClientFields /\ client'.got = client.got
        /\ client'.eof = client.eof
    BY <1>1 DEF DbStartRefused, LocalRead, LocalReadDying, LocalInput, WriterDying, DialStart,
       DialStopSent, DialTake, FromClient, WriterReturns, ClientFields
  <1>4. CASE DbStartRefused \/ LocalRead \/ LocalInput
    <2>1. /\ d'.inq = d.inq /\ d'.buf = d.buf /\ d'.dc = d.dc /\ d'.held = d.held
          /\ d'.next = d.next /\ d'.lost = d.lost /\ d'.ended = d.ended
          /\ d'.go["writer"] = d.go["writer"] /\ (d.act # "none" => d'.act = d.act)
      BY <1>4 DEF DbStartRefused, LocalRead, LocalInput
    <2>2. Flying' = Flying
      BY <1>2, <2>1 DEF Flying
    <2>. QED  BY <1>1, <1>2, <1>3, <2>1, <2>2 DEF QuietNumber
  <1>5. CASE DialStart
    <2>1. d.act = "none"
      BY <1>5 DEF DialStart, DbStarts
    <2>2. /\ d'.inq = d.inq /\ d'.buf = d.buf /\ d'.dc = d.dc /\ d'.held = d.held
          /\ d'.next = d.next /\ d'.lost = d.lost /\ d'.ended = d.ended
          /\ d'.act = "started"
      BY <1>5 DEF DialStart, Go
    <2>3. Flying' = Flying
      BY <1>2, <2>2 DEF Flying
    <2>4. d.go["writer"] = "off"
      BY <1>1, <2>1 DEF NextInv
    <2>. QED  BY <1>1, <1>2, <1>3, <2>1, <2>2, <2>3, <2>4 DEF QuietNumber
  <1>6. CASE LocalReadDying \/ DialStopSent \/ WriterDying
    <2>1. PICK g \in Goroutines, failed \in BOOLEAN :
            d' = Returns(d, g, failed) \/ d' = CloseDone(Returns(d, g, failed))
      BY <1>6 DEF LocalReadDying, DialStopSent, WriterDying, WriterReturns
    <2>2. /\ d'.inq = d.inq /\ d'.lost = d.lost /\ d'.ended = d.ended /\ d'.act = d.act
          /\ d'.dc = d.dc /\ d'.held = d.held /\ d'.go = [d.go EXCEPT ![g] = "end"]
      BY <2>1, DaemonEndKeeps
    <2>3. d'.buf = d.buf /\ d'.next = d.next
      BY <2>1 DEF Returns, CloseDone
    <2>4. Flying' = Flying
      BY <1>2, <2>2, <2>3 DEF Flying
    <2>5. d.go["writer"] = "run" \/ (d.go["reader"] \in {"run", "stop"} /\ g = "reader")
      <3>1. CASE WriterDying
        BY <3>1 DEF WriterDying
      <3>2. CASE LocalReadDying \/ DialStopSent
        <4>1. /\ d.go["reader"] \in {"run", "stop"}
              /\ \E e \in BOOLEAN : d' = CloseDone(Returns(d, "reader", e))
          BY <3>2 DEF LocalReadDying, DialStopSent
        <4>2. d'.go = [d.go EXCEPT !["reader"] = "end"]
          BY <4>1, DaemonEndKeeps
        <4>3. CASE g = "reader"
          BY <4>1, <4>3
        <4>4. CASE g # "reader"
          <5>1. d'.go["reader"] = "end" /\ d'.go["reader"] = d.go["reader"]
            BY <2>2, <4>2, <4>4
          <5>. QED  BY <4>1, <5>1
        <4>. QED  BY <4>3, <4>4
      <3>. QED  BY <1>6, <3>1, <3>2
    <2>6. /\ d.act = "none" => d'.go["writer"] = d.go["writer"]
          /\ d.go["writer"] = "end" => d'.go["writer"] = "end"
      BY <1>1, <2>2, <2>5 DEF NextInv
    <2>. QED  BY <1>1, <1>2, <1>3, <2>2, <2>3, <2>4, <2>6 DEF QuietNumber
  <1>7. CASE DialTake
    <2>1. /\ d'.inq = Tail(d.inq) /\ d'.buf = d.buf \cup {Head(d.inq)}
          /\ d'.dc = d.dc /\ d'.held = d.held /\ d.inq # <<>>
          /\ d'.next = d.next /\ d'.lost = d.lost /\ d'.ended = d.ended
          /\ d'.go = d.go /\ d'.act = d.act
      BY <1>7 DEF DialTake
    <2>2. /\ IsSeq(d'.inq) /\ Range(d'.inq) \subseteq Range(d.inq)
          /\ Head(d.inq) \in Range(d.inq)
      BY <1>1, <2>1, RangeTail
    <2>3. Flying' \subseteq Flying
      BY <1>2, <2>1, <2>2 DEF Flying
    <2>. QED  BY <1>1, <1>2, <1>3, <2>1, <2>2, <2>3 DEF QuietNumber
  <1>. QED  BY <1>4, <1>5, <1>6, <1>7

\* The writer of dial.
LEMMA NumberDialProcess ==
  ASSUME DaemonShape, NumberInv, Kind = "dial", DialProcess
  PROVE  NumberInv'
  <1>. USE DEF DaemonShape, DaemonFields, Goroutines
  <1>1. /\ DOMAIN client = ClientFields /\ IsSeq(d.inq) /\ NextInv /\ SeqInv
        /\ scene.downs \in Nat /\ IsSeq(down) /\ TargetShape
    BY DEF NumberInv
  <1>2. UNCHANGED <<scene, a, target, down>> /\ d.go["writer"] = "run"
    BY DEF DialProcess, DaemonOnly
  <1>3. ~d.ended /\ d.act # "none"
    BY <1>1, <1>2 DEF NextInv
  <1>4. PICK m \in d.buf :
          /\ m.seq = d.next
          /\ \/ m.t = "Stream" /\ DialStream(m)
             \/ /\ m.t = "Error"
                /\ d' = [d EXCEPT !.buf = @ \ {m}, !.next = @ + 1]
                /\ UNCHANGED client
    BY DEF DialProcess, DialDue
  <1>5. Placed(m)
    BY <1>4 DEF NumberInv, Flying
  <1>. DEFINE r == [d EXCEPT !.lost = Unshown(m),
                             !.tmb = IF m.ns # <<>> /\ client.eof THEN "dying" ELSE @]
  <1>6. /\ DOMAIN r = DaemonFields /\ r.lost = Unshown(m) /\ r.inq = d.inq /\ r.buf = d.buf
        /\ r.dc = d.dc /\ r.held = d.held /\ r.next = d.next /\ r.ended = d.ended
        /\ r.act = d.act /\ r.go = d.go
    OBVIOUS
  <1>7. DialStream(m) =>
          IF m.more
            THEN /\ d' = [r EXCEPT !.buf = @ \ {m}, !.next = @ + 1]
                 /\ client' = Shown(m)
            ELSE WriterReturns([r EXCEPT !.ended = TRUE], FALSE)
    BY DEF DialStream
  <1>. HIDE DEF r
  <1>8. CASE m.t = "Stream" /\ DialStream(m) /\ m.more
    <2>1. /\ d'.lost = Unshown(m) /\ d'.inq = d.inq /\ d'.buf = d.buf \ {m}
          /\ d'.dc = d.dc /\ d'.held = d.held /\ d'.next = d.next + 1 /\ d'.ended = d.ended
          /\ d'.act = d.act /\ client' = Shown(m)
      <3>1. d' = [r EXCEPT !.buf = @ \ {m}, !.next = @ + 1] /\ client' = Shown(m)
        BY <1>7, <1>8
      <3>2. /\ d'.lost = r.lost /\ d'.inq = r.inq /\ d'.buf = r.buf \ {m} /\ d'.dc = r.dc
            /\ d'.held = r.held /\ d'.next = r.next + 1 /\ d'.ended = r.ended
            /\ d'.act = r.act
        BY <1>6, <3>1
      <3>. QED  BY <1>6, <3>1, <3>2
    <2>2. DOMAIN client' = ClientFields /\ client'.eof = client.eof
      BY <1>1, <2>1, ShownKeeps
    <2>. QED
      BY <1>2, <1>3, <1>4, <1>8, <2>1, <2>2, NumberShown DEF Numbered
  <1>9. CASE m.t = "Stream" /\ DialStream(m) /\ ~m.more
    <2>1. m.ns = <<>> /\ target.sent = scene.downs /\ m.seq = scene.downs
      BY <1>5, <1>9 DEF Placed
    <2>. DEFINE s == [r EXCEPT !.ended = TRUE]
    <2>2. /\ DOMAIN s = DaemonFields /\ s.lost = Unshown(m) /\ s.inq = d.inq /\ s.buf = d.buf
          /\ s.dc = d.dc /\ s.held = d.held /\ s.next = d.next /\ s.act = d.act /\ s.go = d.go
      BY <1>6
    <2>3. d' = Returns(s, "writer", FALSE) /\ client' = [client EXCEPT !.shut = TRUE]
      BY <1>7, <1>9 DEF WriterReturns
    <2>. HIDE DEF s
    <2>4. /\ d'.inq = s.inq /\ d'.lost = s.lost /\ d'.act = s.act /\ d'.dc = s.dc
          /\ d'.held = s.held /\ d'.go = [s.go EXCEPT !["writer"] = "end"]
      <3>1. DOMAIN s = DaemonFields /\ DOMAIN s.go = Goroutines
        BY <2>2
      <3>2. "writer" \in Goroutines /\ FALSE \in BOOLEAN
        OBVIOUS
      <3>. QED  BY <2>3, <3>1, <3>2, DaemonEndKeeps
    <2>5. d'.buf = s.buf /\ d'.next = s.next
      BY <2>2, <2>3 DEF Returns
    <2>6. /\ DOMAIN client' = ClientFields /\ client'.got = client.got
          /\ client'.eof = client.eof
      BY <1>1, <2>3 DEF ClientFields
    <2>7. Kind' = Kind /\ SendingOver' = SendingOver /\ Flying' = Flying
      BY <1>2, <2>2, <2>4, <2>5 DEF Kind, SendingOver, Flying
    <2>8. d'.lost <=> d.lost
      BY <2>1, <2>2, <2>4 DEF Unshown
    <2>9. PICK k \in Nat :
            /\ Segment(client.got, 0, k)
            /\ d.lost \/ d.next = k \/ (SendingOver /\ d.next > target.sent)
      BY <1>1 DEF NextInv
    <2>10. ~d.lost => Complete'
      BY <1>1, <1>2, <1>4, <2>1, <2>6, <2>9, SegmentFirst DEF Complete
    <2>11. NextInv'
      <3>1. Segment(client.got, 0, k)'
        BY <2>6, <2>9 DEF Segment
      <3>2. (\E n \in Nat :
               /\ Segment(client.got, 0, n)
               /\ d.lost \/ d.next = n \/ (SendingOver /\ d.next > target.sent))'
        BY <1>2, <2>2, <2>5, <2>7, <2>8, <2>9, <3>1
      <3>3. d'.go["writer"] = "end" /\ d'.act # "none"
        BY <1>3, <2>2, <2>4
      <3>4. d'.next \in Nat /\ (d'.lost => client'.eof)
        BY <1>1, <2>2, <2>5, <2>6, <2>8 DEF NextInv
      <3>. QED  BY <2>7, <2>8, <2>10, <3>2, <3>3, <3>4 DEF NextInv
    <2>12. SeqInv'
      BY <1>1, <1>2, <2>7 DEF SeqInv, LastSent, TargetOver
    <2>13. \A n \in Flying' : Placed(n)'
      BY <1>2, <2>7 DEF NumberInv, Placed
    <2>. QED
      BY <1>1, <1>2, <2>2, <2>4, <2>6, <2>11, <2>12, <2>13 DEF NumberInv, TargetShape
  <1>10. CASE /\ m.t = "Error" /\ d' = [d EXCEPT !.buf = @ \ {m}, !.next = @ + 1]
              /\ UNCHANGED client
    <2>1. /\ d'.lost = d.lost /\ d'.inq = d.inq /\ d'.buf = d.buf \ {m} /\ d'.go = d.go
          /\ d'.dc = d.dc /\ d'.held = d.held /\ d'.next = d.next + 1 /\ d'.ended = d.ended
          /\ d'.act = d.act
      BY <1>10
    <2>2. Kind' = Kind /\ SendingOver' = SendingOver /\ Flying' \subseteq Flying
      BY <1>2, <2>1 DEF Kind, SendingOver, Flying
    <2>3. SendingOver /\ d'.next > target.sent /\ d'.next \in Nat
      BY <1>1, <1>4, <1>5, <1>10, <2>1 DEF Placed, SeqInv, NextInv
    <2>4. NextInv'
      <3>1. PICK k \in Nat : Segment(client.got, 0, k)
        BY <1>1 DEF NextInv
      <3>2. Segment(client.got, 0, k)'
        BY <1>10, <3>1 DEF Segment
      <3>3. (\E n \in Nat :
               /\ Segment(client.got, 0, n)
               /\ d.lost \/ d.next = n \/ (SendingOver /\ d.next > target.sent))'
        BY <1>2, <2>2, <2>3, <3>2
      <3>. QED  BY <1>1, <1>3, <1>10, <2>1, <2>2, <2>3, <3>3 DEF NextInv
    <2>5. SeqInv'
      BY <1>1, <1>2, <2>2 DEF SeqInv, LastSent, TargetOver
    <2>6. \A n \in Flying' : Placed(n)'
      BY <1>2, <2>2 DEF NumberInv, Placed
    <2>. QED
      BY <1>1, <1>2, <1>10, <2>1, <2>4, <2>5, <2>6 DEF NumberInv, TargetShape
  <1>. QED  BY <1>4, <1>8, <1>9, <1>10

-----------------------------------------------------------------------------
\* The agent's steps of dial.
LEMMA NumberDialAgent ==
  ASSUME AgentShape, OpenerInv, NumberInv, Kind = "dial",
         \/ DialStartReceived \/ DialInputReceived \/ DbCloseReceived \/ RemoteRead
         \/ RemoteStream \/ RemoteEnd \/ RemoteReadDying \/ DbDying
  PROVE  NumberInv'
  <1>. USE DEF AgentShape, AgentFields, Goroutines, Numbered
  <1>1. UNCHANGED <<scene, d, client>> /\ Kind' = Kind
    BY DEF DialStartReceived, DialInputReceived, DbCloseReceived, RemoteRead, RemoteStream,
       RemoteEnd, RemoteReadDying, DbDying, AgentDying, AgentOnly, Kind
  <1>2. /\ TargetShape /\ IsSeq(down) /\ SeqInv /\ scene.downs \in Nat
        /\ target.sent \in 0..scene.downs /\ a.seq \in Nat /\ a.seq = LastSent
        /\ a.go["reader"] = "put" => target.sent > 0
        /\ a.go["reader"] = "stop" => TargetOver
    BY DEF NumberInv, SeqInv
  <1>3. ASSUME target' = target \/ \E ns : Delivered(ns)
        PROVE  /\ TargetShape' /\ target'.sent = target.sent /\ (target.err => target'.err)
               /\ (TargetOver => TargetOver')
    BY <1>1, <1>2, <1>3 DEF Delivered, TargetShape, TargetOver
  <1>4. CASE DialStartReceived
    <2>1. a.go["reader"] = "off" /\ target' = target
      BY <1>4, OpenerFindsOff DEF DialStartReceived, Opener
    <2>2. CASE Failed
      <3>1. a'.go = a.go /\ a'.seq = a.seq
        BY <2>2 DEF Failed
      <3>2. Fail.seq \in Nat /\ Fail.t = "Fail"
        BY DEF Fail, Smsg
      <3>3. down' = down \/ down' = Append(down, Fail)
        BY <2>2 DEF Failed
      <3>4. IsSeq(down') /\ \A n \in Range(down') : n \in Range(down) \/ n = Fail
        BY <1>2, <3>3, RangeSent
      <3>. QED  BY <1>1, <1>3, <2>1, <3>1, <3>2, <3>4, NumberAgentQuiet
    <2>3. CASE a' = Acked(Opened) /\ down' = down
      <3>. DEFINE r == Opened
      <3>1. DOMAIN r = AgentFields /\ r.go["reader"] = "run" /\ r.seq = a.seq
        BY DEF Opened, Go
      <3>. HIDE DEF r
      <3>2. a' = Acked(r)
        BY <2>3 DEF r
      <3>3. a'.go["reader"] = "run" /\ a'.seq = a.seq
        BY <3>1, <3>2, AckedKeeps
      <3>. QED  BY <1>1, <1>2, <1>3, <2>1, <2>3, <3>3, NumberAgentQuiet
    <2>. QED  BY <1>4, <2>2, <2>3 DEF DialStartReceived
  <1>5. CASE DialInputReceived \/ DbCloseReceived \/ DbDying
    <2>1. down' = down /\ (target' = target \/ \E ns : Delivered(ns))
      BY <1>5 DEF DialInputReceived, DbCloseReceived, DbDying, AgentDying
    <2>2. a'.go = a.go /\ a'.seq = a.seq
      <3>1. CASE a' = Acked(a)
        BY <3>1, AckedKeeps
      <3>2. CASE a' # Acked(a)
        BY <1>5, <3>2 DEF DialInputReceived, DbCloseReceived, DbDying, AgentDying,
           KillByInput, DbKilled
      <3>. QED  BY <3>1, <3>2
    <2>. QED  BY <1>1, <1>2, <1>3, <2>1, <2>2, NumberAgentQuiet
  <1>6. CASE RemoteRead
    <2>1. down' = down /\ a.go["reader"] = "run" /\ ~SendingOver
      BY <1>6 DEF RemoteRead, SendingOver
    <2>2. CASE FromTarget /\ a' = [a EXCEPT !.go["reader"] = "put"]
      <3>1. /\ target'.sent = target.sent + 1 /\ TargetShape' /\ target.sent < scene.downs
        BY <1>2, <2>2 DEF FromTarget, TargetHas, TargetShape
      <3>2. a'.go["reader"] = "put" /\ a'.seq = a.seq
        BY <2>2
      <3>3. SeqInv'
        BY <1>1, <1>2, <2>1, <3>1, <3>2 DEF SeqInv, LastSent
      <3>. QED  BY <1>1, <1>2, <2>1, <3>1, <3>3, NumberAgent
    <2>3. CASE TargetOver /\ a' = [a EXCEPT !.go["reader"] = "stop"] /\ target' = target
      <3>1. a'.go["reader"] = "stop" /\ a'.seq = a.seq
        BY <2>3
      <3>2. SeqInv' /\ TargetShape'
        BY <1>1, <1>2, <2>1, <2>3, <3>1 DEF SeqInv, LastSent, TargetOver, TargetShape
      <3>. QED  BY <1>1, <1>2, <2>1, <2>3, <3>2, NumberAgent
    <2>. QED  BY <1>6, <2>2, <2>3 DEF RemoteRead
  <1>7. CASE RemoteStream
    <2>0. PICK m : m = Smsg("Stream", a.seq, <<target.sent>>, TRUE)
      OBVIOUS
    <2>1. /\ a.go["reader"] = "put" /\ target' = target
          /\ down' = down \/ down' = Append(down, m)
          /\ a' = [a EXCEPT !.go["reader"] = "run", !.seq = @ + 1]
      BY <1>7, <2>0 DEF RemoteStream, Send
    <2>2. m.t = "Stream" /\ m.ns = <<target.sent>> /\ m.more /\ m.seq = a.seq
      BY <2>0 DEF Smsg
    <2>3. a'.go["reader"] = "run" /\ a'.seq = a.seq + 1
      BY <2>1
    <2>4. a.seq + 1 = target.sent
      BY <1>2, <2>1 DEF LastSent
    <2>5. SeqInv' /\ TargetShape' /\ ~SendingOver
      BY <1>1, <1>2, <2>1, <2>3, <2>4 DEF SeqInv, LastSent, TargetShape, SendingOver
    <2>6. Placed(m)'
      <3>1. m.seq + 1 = target.sent /\ m.seq \in Nat /\ m.more /\ m.t = "Stream"
        BY <1>2, <2>2, <2>4
      <3>2. m.ns = <<m.seq + 1>>
        BY <2>2, <3>1
      <3>3. m.seq < m.seq + 1
        BY <3>1
      <3>4. m.seq < target'.sent
        BY <2>1, <3>1, <3>3
      <3>. QED  BY <3>1, <3>2, <3>4 DEF Placed
    <2>7. IsSeq(down') /\ \A n \in Range(down') : n \in Range(down) \/ n = m
      BY <1>2, <2>1, RangeSent
    <2>. QED  BY <1>1, <2>1, <2>5, <2>6, <2>7, NumberAgent
  <1>8. CASE RemoteEnd
    <2>. PICK m : m = Smsg(IF target.err THEN "Error" ELSE "Stream", a.seq, <<>>, FALSE)
      OBVIOUS
    <2>1. /\ a.go["reader"] = "stop" /\ target' = target
          /\ down' = down \/ down' = Append(down, m)
          /\ a' = CloseDone(Returns(a, "reader", TRUE))
      BY <1>8 DEF RemoteEnd, Send
    <2>2. /\ m.t = (IF target.err THEN "Error" ELSE "Stream") /\ m.ns = <<>> /\ ~m.more
          /\ m.seq = a.seq
      BY DEF Smsg
    <2>3. a'.go["reader"] = "end" /\ a'.seq = a.seq
      BY <2>1, AgentReaderEnds
    <2>4. a.seq = target.sent /\ TargetOver
      BY <1>2, <2>1 DEF LastSent
    <2>5. SeqInv' /\ TargetShape' /\ SendingOver'
      BY <1>1, <1>2, <2>1, <2>3, <2>4 DEF SeqInv, LastSent, TargetShape, SendingOver
    <2>6. Placed(m)'
      BY <1>1, <1>2, <2>1, <2>2, <2>4, <2>5 DEF Placed, TargetOver
    <2>7. IsSeq(down') /\ \A n \in Range(down') : n \in Range(down) \/ n = m
      BY <1>2, <2>1, RangeSent
    <2>. QED  BY <1>1, <2>1, <2>5, <2>6, <2>7, NumberAgent
  <1>9. CASE RemoteReadDying
    <2>1. /\ a.go["reader"] = "run" /\ UNCHANGED <<down, target>>
          /\ a' = CloseDone(Returns(a, "reader", FALSE))
      BY <1>9 DEF RemoteReadDying
    <2>2. a'.go["reader"] = "end" /\ a'.seq = a.seq
      BY <2>1, AgentReaderEnds
    <2>. QED  BY <1>1, <1>2, <1>3, <2>1, <2>2, NumberAgentQuiet
  <1>. QED  BY <1>4, <1>5, <1>6, <1>7, <1>8, <1>9

\* Every step of dial.
LEMMA NumberDial ==
  ASSUME DaemonShape, AgentShape, OpenerInv, NumberInv, Kind = "dial", DbNext
  PROVE  NumberInv'
  <1>1. ~(PwdbStart \/ PwdbReceiveMrtap \/ PwdbStartFails \/ PwdbCloseSent \/ PwdbProcess
          \/ PwdbConnectReceived \/ PwdbInputReceived)
    BY DEF PwdbStart, PwdbReceiveMrtap, PwdbStartFails, PwdbCloseSent, PwdbProcess,
       PwdbConnectReceived, PwdbInputReceived
  <1>. QED
    BY <1>1, NumberDialQuiet, NumberQuiet, NumberDialProcess, NumberDialAgent
    DEF DbNext, Numbered

-----------------------------------------------------------------------------
\* The daemon's steps of webdial that show nothing.
LEMMA NumberWebQuiet ==
  ASSUME DaemonShape, PanicInv, NumberInv, Kind = "webdial",
         \/ WebStartRefused \/ WebDialStart \/ WebDialBody \/ WebDialCancelled
         \/ WebDialDying \/ WebDialTake
  PROVE  QuietNumber
  <1>. USE DEF DaemonShape, DaemonFields, Goroutines
  <1>1. DOMAIN client = ClientFields /\ IsSeq(down) /\ IsSeq(d.inq)
    BY DEF NumberInv
  <1>2. UNCHANGED <<scene, a, target, down>>
    BY DEF WebStartRefused, WebDialStart, WebDialBody, WebDialCancelled, WebDialDying,
       WebDialTake, DaemonOnly
  <1>3. /\ DOMAIN client' = ClientFields /\ client'.got = client.got
        /\ client'.eof = client.eof
    BY <1>1 DEF WebStartRefused, WebDialStart, WebDialBody, WebDialCancelled, WebDialDying,
       WebDialTake, FromClient, HandlerReturns, ClientFields
  <1>4. CASE ~WebDialTake
    <2>1. /\ d'.inq = d.inq /\ d'.buf = d.buf /\ d'.dc = d.dc /\ d'.held = d.held
          /\ d'.next = d.next /\ d'.lost = d.lost /\ d'.ended = d.ended
      BY <1>4 DEF WebStartRefused, WebDialStart, WebDialBody, WebDialCancelled,
         WebDialDying, HandlerReturns
    <2>2. d.handler = "end" => d'.handler = "end"
      BY <1>4 DEF WebStartRefused, WebDialStart, WebStarts, WebDialBody, WebDialCancelled,
         WebDialDying, HandlerReturns, PanicInv
    <2>3. Flying' = Flying
      BY <1>2, <2>1 DEF Flying
    <2>. QED  BY <1>1, <1>2, <1>3, <2>1, <2>2, <2>3 DEF QuietNumber
  <1>5. CASE WebDialTake
    <2>1. /\ d'.inq = Tail(d.inq) /\ d.inq # <<>>
          /\ \/ d'.buf = d.buf
             \/ Head(d.inq).t = "Stream" /\ d'.buf = d.buf \cup {Head(d.inq)}
          /\ d'.dc = d.dc /\ d'.held = d.held
          /\ d'.next = d.next /\ d'.lost = d.lost /\ d'.ended = d.ended
          /\ d'.handler = d.handler
      BY <1>5 DEF WebDialTake
    <2>2. /\ IsSeq(d'.inq) /\ Range(d'.inq) \subseteq Range(d.inq)
          /\ Head(d.inq) \in Range(d.inq)
      BY <1>1, <2>1, RangeTail
    <2>3. Flying' \subseteq Flying
      BY <1>2, <2>1, <2>2 DEF Flying
    <2>. QED  BY <1>1, <1>2, <1>3, <2>1, <2>2, <2>3 DEF QuietNumber
  <1>. QED  BY <1>4, <1>5

\* The handler of webdial shows a part of the response.
LEMMA NumberWebProcess ==
  ASSUME DaemonShape, NumberInv, Kind = "webdial", WebDialProcess
  PROVE  NumberInv'
  <1>. USE DEF DaemonShape, DaemonFields, Goroutines
  <1>1. DOMAIN client = ClientFields /\ NextInv
    BY DEF NumberInv
  <1>2. UNCHANGED <<scene, a, target, down>> /\ d.handler = "run"
    BY DEF WebDialProcess, DaemonOnly
  <1>3. ~d.ended /\ \A m \in d.buf : m.t = "Stream"
    BY <1>1, <1>2 DEF NextInv
  <1>4. PICK m \in d.buf :
          /\ m.seq = d.next
          /\ LET r == [d EXCEPT !.lost = Unshown(m), !.next = @ + 1, !.buf = @ \ {m}]
             IN IF m.more THEN d' = r /\ client' = Shown(m)
                ELSE /\ d' = [r EXCEPT !.handler = "end", !.done = TRUE, !.ended = TRUE]
                     /\ client' = [Shown(m) EXCEPT !.shut = TRUE]
    BY DEF WebDialProcess, WebDialDue
  <1>5. /\ d'.lost = Unshown(m) /\ d'.next = d.next + 1 /\ d'.buf = d.buf \ {m}
        /\ d'.inq = d.inq /\ d'.dc = d.dc /\ d'.held = d.held
        /\ IF m.more THEN d'.ended = d.ended ELSE d'.handler = "end"
    BY <1>4
  <1>6. DOMAIN Shown(m) = ClientFields /\ Shown(m).eof = client.eof
    BY <1>1, ShownKeeps
  <1>7. client' = Shown(m) \/ client' = [Shown(m) EXCEPT !.shut = TRUE]
    BY <1>4
  <1>8. /\ DOMAIN client' = ClientFields /\ client'.eof = client.eof
        /\ client'.got = Shown(m).got
    BY <1>6, <1>7 DEF ClientFields
  <1>9. d'.ended => ~m.more /\ d'.handler = "end"
    BY <1>3, <1>5
  <1>. QED  BY <1>2, <1>3, <1>4, <1>5, <1>8, <1>9, NumberShown DEF Numbered

\* Two messages are sent.
LEMMA RangeTwo ==
  ASSUME NEW s, IsSeq(s), NEW m, NEW n
  PROVE  /\ IsSeq(s \o <<m, n>>)
         /\ \A x \in Range(s \o <<m, n>>) : x \in Range(s) \/ x = m \/ x = n
  <1>1. s \in Seq(Range(s) \cup {m, n})
    BY RangeSeq
  <1>2. <<m, n>> \in Seq(Range(s) \cup {m, n})
    OBVIOUS
  <1>. DEFINE t == s \o <<m, n>>
  <1>3. t \in Seq(Range(s) \cup {m, n})
    BY <1>1, <1>2
  <1>. HIDE DEF t
  <1>4. IsSeq(t)
    BY <1>3 DEF IsSeq
  <1>5. \A x \in Range(t) : x \in Range(s) \/ x = m \/ x = n
    BY <1>3, <1>4, RangeSeq
  <1>. QED  BY <1>4, <1>5 DEF t

\* The agent's steps of webdial.
LEMMA NumberWebAgent ==
  ASSUME AgentShape, NumberInv, Kind = "webdial",
         \/ WebDialStartReceived \/ WebDialInputReceived \/ WebDialLastReceived
         \/ WebDialInterruptReceived \/ WebDialReads \/ WebDialResponse \/ WebAgentDying
  PROVE  NumberInv'
  <1>. USE DEF AgentShape, AgentFields, Goroutines, Numbered
  <1>1. UNCHANGED <<scene, d, client>> /\ Kind' = Kind
    BY DEF WebDialStartReceived, WebDialInputReceived, WebDialLastReceived,
       WebDialInterruptReceived, WebDialReads, WebDialResponse, WebAgentDying, AgentDying,
       AgentOnly, Kind
  <1>2. /\ TargetShape /\ IsSeq(down) /\ SeqInv /\ scene.downs \in Nat
        /\ target.sent \in 0..scene.downs /\ a.seq \in Nat /\ a.seq >= target.sent
        /\ a.seq = target.sent \/ target.err
    BY DEF NumberInv, SeqInv, SendingOver
  <1>3. ASSUME target' = target \/ \E ns : Delivered(ns)
        PROVE  /\ TargetShape' /\ target'.sent = target.sent /\ (target.err => target'.err)
               /\ (TargetOver => TargetOver')
    BY <1>1, <1>2, <1>3 DEF Delivered, TargetShape, TargetOver
  <1>4. CASE \/ WebDialStartReceived \/ WebDialInputReceived \/ WebDialInterruptReceived
             \/ WebAgentDying
    <2>1. down' = down /\ target' = target
      BY <1>4 DEF WebDialStartReceived, WebDialInputReceived, WebDialInterruptReceived,
         WebAgentDying, AgentDying
    <2>2. a'.seq = a.seq
      BY <1>4 DEF WebDialStartReceived, WebDialInputReceived, WebDialInterruptReceived,
         WebAgentDying, AgentDying, Acked, KillTomb
    <2>. QED  BY <1>1, <1>2, <1>3, <2>1, <2>2, NumberAgentQuiet
  <1>5. CASE WebDialLastReceived
    <2>. PICK m : m = Smsg("Error", 0, <<>>, FALSE)
      OBVIOUS
    <2>1. /\ down' = down \/ down' = down \o <<m, Fail>>
          /\ target' = target \/ \E ns : Delivered(ns)
      BY <1>5 DEF WebDialLastReceived, SendAll
    <2>2. m.seq \in Nat /\ m.t # "Stream" /\ Fail.seq \in Nat /\ Fail.t # "Stream"
      BY DEF Smsg, Fail
    <2>3. IsSeq(down') /\ \A x \in Range(down') : x \in Range(down) \/ x = m \/ x = Fail
      <3>1. CASE down' = down
        BY <1>2, <3>1
      <3>2. CASE down' = down \o <<m, Fail>>
        BY <1>2, <3>2, RangeTwo
      <3>. QED  BY <2>1, <3>1, <3>2
    <2>4. a'.seq = a.seq
      BY <1>5 DEF WebDialLastReceived, Acked, Go
    <2>. QED  BY <1>1, <1>3, <2>1, <2>2, <2>3, <2>4, NumberAgentQuiet
  <1>7. CASE WebDialReads
    <2>1. a'.seq = a.seq
      <3>1. CASE a' = CloseDone(Returns(a, "reader", FALSE))
        BY <3>1, AgentReaderEnds
      <3>2. CASE a' = [a EXCEPT !.go["reader"] = "read"]
        BY <3>2
      <3>. QED  BY <1>7, <3>1, <3>2 DEF WebDialReads
    <2>2. UNCHANGED <<down, target>>
      BY <1>7 DEF WebDialReads
    <2>. QED  BY <1>1, <1>2, <1>3, <2>1, <2>2, NumberAgentQuiet
  <1>6. CASE WebDialResponse
    <2>2. CASE /\ target.err /\ target' = target
               /\ a' = [a EXCEPT !.go["reader"] = "run", !.seq = @ + 1]
               /\ SendAll(<<Smsg("Error", a.seq, <<>>, FALSE),
                            Smsg("Stream", a.seq, <<>>, TRUE)>>)
      <3>. PICK m : m = Smsg("Error", a.seq, <<>>, FALSE)
        OBVIOUS
      <3>. PICK n : n = Smsg("Stream", a.seq, <<>>, TRUE)
        OBVIOUS
      <3>1. down' = down \/ down' = down \o <<m, n>>
        BY <2>2 DEF SendAll
      <3>2. /\ m.seq = a.seq /\ m.t = "Error" /\ n.seq = a.seq /\ n.t = "Stream"
            /\ n.ns = <<>> /\ n.more
        BY DEF Smsg
      <3>3. IsSeq(down') /\ \A x \in Range(down') : x \in Range(down) \/ x = m \/ x = n
        <4>1. CASE down' = down
          BY <1>2, <4>1
        <4>2. CASE down' = down \o <<m, n>>
          BY <1>2, <4>2, RangeTwo
        <4>. QED  BY <3>1, <4>1, <4>2
      <3>4. a'.seq = a.seq + 1
        BY <2>2
      <3>5. SeqInv' /\ TargetShape' /\ SendingOver'
        BY <1>1, <1>2, <2>2, <3>4 DEF SeqInv, SendingOver, TargetShape
      <3>6. Placed(m)' /\ Placed(n)'
        BY <1>1, <1>2, <2>2, <3>2, <3>5 DEF Placed
      <3>. QED  BY <1>1, <2>2, <3>3, <3>5, <3>6, NumberAgent
    <2>3. ASSUME NEW last \in BOOLEAN, last <=> target.sent + 1 = scene.downs, FromTarget,
                 Send(Smsg("Stream", a.seq, <<target.sent + 1>>, ~last)),
                 a' = [(IF last THEN CloseDone(Returns(a, "reader", FALSE))
                         ELSE [a EXCEPT !.go["reader"] = "run"]) EXCEPT !.seq = @ + 1]
          PROVE  NumberInv'
      <3>. PICK m : m = Smsg("Stream", a.seq, <<target.sent + 1>>, ~last)
        OBVIOUS
      <3>1. down' = down \/ down' = Append(down, m)
        BY <2>3 DEF Send
      <3>2. /\ m.t = "Stream" /\ m.ns = <<target.sent + 1>> /\ (m.more <=> ~last)
            /\ m.seq = a.seq
        BY DEF Smsg
      <3>3. /\ target'.sent = target.sent + 1 /\ TargetShape' /\ target.sent < scene.downs
            /\ ~target.err
        BY <1>2, <2>3 DEF FromTarget, TargetHas, TargetShape
      <3>4. a'.seq = a.seq + 1
        <4>. DEFINE r == CloseDone(Returns(a, "reader", FALSE))
        <4>1. DOMAIN r = AgentFields /\ r.seq = a.seq
          BY DEF CloseDone, Returns
        <4>. HIDE DEF r
        <4>2. CASE last
          <5>1. a' = [r EXCEPT !.seq = @ + 1]
            BY <2>3, <4>2 DEF r
          <5>. QED  BY <4>1, <5>1
        <4>3. CASE ~last
          <5>1. a' = [[a EXCEPT !.go["reader"] = "run"] EXCEPT !.seq = @ + 1]
            BY <2>3, <4>3
          <5>. QED  BY <5>1
        <4>. QED  BY <4>2, <4>3
      <3>5. a.seq = target.sent /\ ~SendingOver
        BY <1>2, <3>3 DEF SendingOver
      <3>6. SeqInv'
        BY <1>1, <1>2, <3>3, <3>4, <3>5 DEF SeqInv
      <3>7. Placed(m)'
        <4>1. m.seq \in Nat /\ m.seq < target'.sent /\ m.ns = <<m.seq + 1>>
          BY <1>2, <3>2, <3>3, <3>5
        <4>2. ~m.more => target'.sent = scene'.downs /\ m.seq + 1 = scene'.downs
          BY <1>1, <2>3, <3>2, <3>3, <3>5
        <4>. QED  BY <1>1, <3>2, <4>1, <4>2 DEF Placed
      <3>8. IsSeq(down') /\ \A n \in Range(down') : n \in Range(down) \/ n = m
        BY <1>2, <3>1, RangeSent
      <3>. QED  BY <1>1, <1>2, <3>3, <3>5, <3>6, <3>7, <3>8, NumberAgent
    <2>4. FromTarget => (target.sent + 1 = scene.downs) \in BOOLEAN
      OBVIOUS
    <2>. QED  BY <1>6, <2>2, <2>3, <2>4 DEF WebDialResponse
  <1>. QED  BY <1>4, <1>5, <1>6, <1>7

\* Every step of webdial.
LEMMA NumberWeb ==
  ASSUME DaemonShape, AgentShape, PanicInv, NumberInv, Kind = "webdial", WebDialSteps
  PROVE  NumberInv'
  BY NumberWebQuiet, NumberQuiet, NumberWebProcess, NumberWebAgent
  DEF WebDialSteps, Numbered

-----------------------------------------------------------------------------
(* What the client and the target get.                                     *)

\* At the start no message is on its way.
LEMMA NumberInitially ==
  ASSUME Init, Kind \in Numbered
  PROVE  NumberInv
  <1>1. /\ down = <<>> /\ DOMAIN client = ClientFields /\ client.got = <<>> /\ TargetShape
        /\ target.sent = 0
    BY DEF Init, SessionInit, ClientFields, TargetShape, NewTarget, Numbered
  <1>2. /\ d.act = "none" /\ d.go["writer"] = "off" /\ ~d.ended /\ ~d.lost /\ d.inq = <<>>
        /\ d.buf = {} /\ d.next = 0 /\ d.dc # "push"
    BY DEF Init, DaemonInit, Goroutines
  <1>3. scene \in Scenes /\ a.go["reader"] = "off"
    BY InitShapes DEF Numbered
  <1>4. scene.downs \in Nat
    BY <1>3, SceneAssumption DEF SceneOK
  <1>5. a.seq = 0
    <2>1. a = AgentInit(Kind \in SshKinds, Ring!New(RingSize))
      BY DEF Init, Numbered
    <2>. QED  BY <2>1 DEF AgentInit
  <1>6. IsSeq(<<>>) /\ Range(<<>>) = {}
    BY DEF IsSeq, Range
  <1>7. SeqInv
    BY <1>1, <1>3, <1>4, <1>5 DEF SeqInv, LastSent
  <1>8. NextInv
    <2>1. Segment(client.got, 0, 0)
      BY <1>1, SegmentNone
    <2>. QED  BY <1>2, <2>1 DEF NextInv
  <1>9. Flying = {}
    BY <1>1, <1>2, <1>6 DEF Flying
  <1>. QED  BY <1>1, <1>2, <1>4, <1>6, <1>7, <1>8, <1>9 DEF NumberInv

\* The numbers say the order in every state that a session reaches, whatever overtakes
\* what.
LEMMA NumberAlways == Spec => [](Kind \in Numbered => NumberInv)
  <1>. DEFINE I == Kind \in Numbered => NumberInv
  <1>1. Init => I
    BY NumberInitially
  <1>2. NoPanicInv /\ I /\ [Next]_vars => I'
    <2>. SUFFICES ASSUME NoPanicInv, I, [Next]_vars, Kind' \in Numbered
                  PROVE  NumberInv'
      OBVIOUS
    <2>1. CASE Next
      <3>1. Kind \in Numbered /\ Kind \in Careful
        BY <2>1, SceneStays DEF Kind, Numbered, Careful
      <3>2. DaemonShape /\ AgentShape /\ OpenerInv /\ PanicInv /\ NumberInv
        BY <3>1 DEF NoPanicInv
      <3>3. SharedSteps \/ DbNext \/ OpaqueSteps \/ ShellNext \/ WebDialSteps
            \/ KubeExecSteps
        BY <2>1, <3>1, CarefulSteps
      <3>4. CASE SharedSteps
        BY <3>1, <3>2, <3>4, NumberShared
      <3>5. CASE ~SharedSteps
        <4>1. \/ DbNext /\ Kind = "dial"
              \/ WebDialSteps /\ Kind = "webdial"
          BY <3>1, <3>3, <3>5, StepKinds DEF Numbered, DbKinds, ShellKinds
        <4>. QED  BY <3>2, <4>1, NumberDial, NumberWeb
      <3>. QED  BY <3>4, <3>5
    <2>2. CASE UNCHANGED vars
      <3>1. NumberInv /\ Kind \in Numbered
        BY <2>2 DEF vars, Kind
      <3>2. Flying' = Flying
        BY <2>2 DEF vars, Flying
      <3>3. QuietNumber
        BY <2>2, <3>1, <3>2 DEF vars, QuietNumber, NumberInv
      <3>. QED  BY <3>1, <3>3, NumberQuiet
    <2>. QED  BY <2>1, <2>2
  <1>. QED  BY <1>1, <1>2, NeverPanics, PTL DEF Spec

\* In a session of a careful kind the target gets what the client wrote and the client
\* what the target wrote, in order and once, however long it is, however the daemon and
\* the agent interleave and whatever ends it: of dial and webdial also when stream
\* messages overtake each other, of the others when they keep their order.  (InOrder)
THEOREM SessionsAreInOrder ==
  Spec => [](Kind \in Careful /\ (scene.reorder => Kind \notin Fifo) => InOrder)
  <1>. DEFINE Fine == Kind \in Fifo /\ ~scene.reorder => DownInv /\ FreshInv /\ ReplayInv
              Num == Kind \in Numbered => NumberInv
              Top == Kind \in Careful => UpInv
  <1>1. ASSUME Fine, Num, Top
        PROVE  Kind \in Careful /\ (scene.reorder => Kind \notin Fifo) => InOrder
    <2>. SUFFICES ASSUME Kind \in Careful, scene.reorder => Kind \notin Fifo PROVE InOrder
      OBVIOUS
    <2>1. \A i \in DOMAIN target.got : target.got[i] = i
      <3>1. PICK k \in Nat : Segment(target.got, 0, k)
        BY <1>1 DEF UpInv, UpChunks
      <3>. QED  BY <3>1, SegmentFirst
    <2>2. ASSUME Kind # "attach" PROVE \A i \in DOMAIN client.got : client.got[i] = i
      <3>1. (Kind \in Fifo /\ ~scene.reorder) \/ Kind \in Numbered
        BY <2>2 DEF Careful, Fifo, Numbered
      <3>2. Kind \in Fifo /\ ~scene.reorder => \E k \in Nat : Segment(client.got, 0, k)
        BY <1>1 DEF DownInv, DownChunks
      <3>3. Kind \in Numbered => \E k \in Nat : Segment(client.got, 0, k)
        BY <1>1 DEF NumberInv, NextInv
      <3>4. PICK k \in Nat : Segment(client.got, 0, k)
        BY <3>1, <3>2, <3>3
      <3>. QED  BY <3>4, SegmentFirst
    <2>. QED  BY <2>1, <2>2 DEF InOrder
  <1>. QED  BY <1>1, DownAlways, NumberAlways, UpAlways, PTL

\* When the daemon's action of a careful kind takes the stream to be over, and every write
\* to the client went well, the client has all that the target wrote: no chunk is lost or
\* overtaken by the end, however long the session and whatever the client, the target and
\* the data channels do at the same time.  (EndIsEnd)
THEOREM EndsAreComplete ==
  Spec => [](Kind \in Careful /\ (scene.reorder => Kind \notin Fifo) => EndIsEnd)
  <1>. DEFINE Fine == Kind \in Fifo /\ ~scene.reorder => DownInv /\ FreshInv /\ ReplayInv
              Num == Kind \in Numbered => NumberInv
  <1>1. ASSUME Fine, Num
        PROVE  Kind \in Careful /\ (scene.reorder => Kind \notin Fifo) => EndIsEnd
    <2>. SUFFICES ASSUME Kind \in Careful, scene.reorder => Kind \notin Fifo,
                         d.ended, ~d.lost, Kind \notin ShellKinds
                  PROVE  Complete
      BY DEF EndIsEnd
    <2>1. (Kind \in Fifo /\ ~scene.reorder) \/ Kind \in Numbered
      BY DEF Careful, Fifo, Numbered, ShellKinds
    <2>2. CASE Kind \in Fifo /\ ~scene.reorder
      BY <1>1, <2>2 DEF DownInv, EndInv, ShellKinds
    <2>3. CASE Kind \in Numbered
      BY <1>1, <2>3 DEF NumberInv, NextInv
    <2>. QED  BY <2>1, <2>2, <2>3
  <1>. QED  BY <1>1, DownAlways, NumberAlways, PTL
=============================================================================
