-------------------------------- MODULE Plugins --------------------------------
(***************************************************************************)
(* A session of any of the plugins: the frame of Session with the actions  *)
(* of every plugin, and what a session promises its client and its target. *)
(***************************************************************************)
EXTENDS DbPlugin, SshPlugin, ShellPlugin, WebPlugin, KubePortForward

\* StartAction runs before the data channel is made, or when it is ready.
Early == SshKinds \cup ShellKinds
Flushing == DbKinds \cup WebKinds \cup KubeKinds
Queueing == Flushing \ {"restapi", "portforward"}

ASSUME SceneAssumption ==
  \A s \in Scenes : SceneOK(s) /\ s.kind \in Early \cup Flushing

Init ==
  /\ SessionInit
  /\ d = DaemonInit(Kind \in Early)
  /\ LET a0 == AgentInit(Kind \in SshKinds, Ring!New(RingSize))
     IN a = IF Kind = "attach" THEN Attachable(a0) ELSE a0
  /\ target = [NewTarget EXCEPT !.sent = IF Kind = "attach" THEN 1 ELSE 0]

Streams == {"Stream", "Data", "Head", "StdOut", "Stop", "Error"}

\* The main goroutine of the daemon's data channel.
DaemonChannel ==
  \/ ReceiveError \/ ReceiveStream(Queueing, Streams) \/ PushStream \/ Undelivered
  \/ KillWaiting(DbKinds \cup WebKinds \cup {"kubeexec"}) \/ KillReturns
  \/ PluginDone(Kind \in Flushing) \/ Drain \/ Drained

\* The agent's data channel.
AgentChannel ==
  \/ ReceiveRefused \/ AgentClose \/ AgentKilled \/ InputKilled \/ AgentPluginDone

Next ==
  \/ ClientEnds \/ TargetEnds \/ Close
  \/ Zap \/ DaemonChannel \/ AgentChannel
  \/ DbNext \/ SshNext \/ ShellNext \/ WebNext \/ KubeNext \/ PfNext

Spec == Init /\ [][Next]_vars

-----------------------------------------------------------------------------
(* Fairness: a goroutine that can go on does.  The client and the target   *)
(* owe nothing, and nobody has to call Close.                              *)

Fairness ==
  /\ WF_vars(Zap)
  /\ WF_vars(DaemonChannel \/ PwdbReceiveMrtap \/ OpaqueReceiveStream
             \/ OpaqueKill \/ ShellReceive \/ ShellKill \/ KubeKill)
  /\ WF_vars(DbStartRefused \/ DialStart \/ PwdbStart \/ PwdbStartFails
             \/ OpaqueStart \/ ShellStart
             \/ KubeStreamStart \/ KubeExecStart \/ KubeStartRefused)
  /\ WF_vars(LocalRead \/ LocalReadDying \/ LocalInput \/ DialStopSent
             \/ PwdbCloseSent \/ OpaqueRead \/ OpaqueSend \/ ShellKey)
  /\ WF_vars(DialTake \/ DialProcess \/ WriterDying \/ PwdbProcess
             \/ ShellInput \/ ShellDone \/ OpaqueDone
             \/ KubeExecWrite \/ KubeExecClosed)
  /\ WF_vars(KubeStreamHead \/ KubeStreamKept \/ KubeStreamTake
             \/ KubeStreamCancelled \/ KubeHandlerDone
             \/ KubeExecRead)
  /\ WF_vars(KubeExecSend)
  /\ WF_vars(ShellResize)
  /\ WF_vars(AgentClose) /\ WF_vars(AgentKilled \/ AgentPluginDone \/ DbDying
                                    \/ OpaqueDying \/ ShellDying \/ ShellKilled
                                    \/ KubeStreamDying \/ KubeExecDying
                                    \/ KubeExecKilled)
  /\ WF_vars(ReceiveRefused \/ InputKilled
             \/ DialStartReceived \/ DialInputReceived \/ DbCloseReceived
             \/ PwdbConnectReceived \/ PwdbInputReceived
             \/ OpaqueOpenReceived \/ OpaqueInputReceived \/ OpaqueCloseReceived
             \/ ShellOpenReceived \/ ShellInputReceived \/ ShellResizeReceived
             \/ ShellReplayReceived
             \/ KubeStreamStartReceived \/ KubeStreamStopReceived
             \/ KubeExecStartReceived \/ KubeExecInputReceived
             \/ KubeExecResizeReceived \/ KubeExecStopReceived)
  /\ WF_vars(RemoteRead \/ RemoteStream \/ RemoteEnd \/ RemoteReadDying
             \/ OpaqueRemoteRead \/ OpaqueRemoteSend
             \/ ShellPumpRead \/ ShellPumpSend \/ ShellPumpEnds
             \/ KubeStreamRead \/ KubeStreamSend \/ KubeStreamLastLog
             \/ KubeExecStdout \/ KubeExecEnds)
  /\ WF_vars(KubeExecStdin)

FairSpec == Spec /\ Fairness

-----------------------------------------------------------------------------
(* Safety.                                                                 *)

\* The sessions whose stream messages the daemon does not put back in order:
\* portforward counts a message that it had kept twice (see PfTakeKept).
Scrambled == Kind = "portforward" /\ scene.reorder

\* What reaches the client is what the target wrote, in order and once, and
\* what reaches the target is what the client wrote, though the stream
\* messages of dial, webdial and kubestream may overtake each other.  (An
\* attached shell may show a chunk both from the ring buffer and from the
\* stream: see NoGap.  For portforward it is said of messages in order.)
InOrder ==
  /\ Kind # "attach" /\ ~Scrambled =>
       \A i \in DOMAIN client.got : client.got[i] = i
  /\ \A i \in DOMAIN target.got : target.got[i] = i

Complete == Len(client.got) = scene.downs

\* When the daemon's action takes the stream to be over, and every write to
\* the client went well, the client has all that the target wrote.  (For
\* portforward it is said of messages in order.)
EndIsEnd ==
  d.ended /\ ~d.lost /\ ~Scrambled =>
    \/ Complete
    \/ Kind \in ShellKinds \cup {"transparent"}     \* see DownloadComplete
    \/ Kind = "webws" /\ (target.err \/ a.conn # "open")

\* When the agent's action takes the client to be done, the target has got
\* all the daemon has read from the client, unless the target went first or
\* the daemon's data channel is gone: CloseDataChannel overtakes what is still
\* in the pipe.  (kubeexec has it or will read it from a.stdin, unless
\* kubectl is gone.)
CloseIsEnd ==
  a.stopped /\ Kind # "transparent" =>
    \/ Len(target.got) = client.sent \/ TargetGone \/ a.dying
    \/ Kind = "portforward" /\ d.lost
    \/ /\ Kind = "kubeexec"
       /\ client.eof \/ Len(target.got \o a.stdin) = client.sent

\* doneChan is closed once, though the client, the target, the data channel
\* and Close may all end the action at the same time, and nothing that is
\* gone is used.  (The actions left out do panic.)
NoPanic ==
  Kind \notin {"transparent", "webws", "restapi", "kubestream", "portforward"} =>
    ~d.panic /\ ~a.panic

\* The daemon has taken every host key that the agent could read, be it none or
\* several, before it shows the first byte that the local ssh checks against
\* them: no key comes late or is lost while the output goes on.
HostKeysFirst == Kind = "opaque" /\ client.got # <<>> => d.next = a.seq

\* A daemon that attaches sees no gap between the replayed output and what
\* the shell writes while it attaches.
NoGap ==
  Kind = "attach" /\ d.replayed =>
    \A i, j \in Range(client.got) : i..j \subseteq Range(client.got)

\* The ring buffer holds the last RingSize chunks of the shell's output.
RingHolds ==
  Kind \in ShellKinds =>
    LET written == [i \in 1..target.sent |-> i]
    IN /\ Ring!RingOK(a.ring, RingSize, written)
       /\ Ring!ReadAll(a.ring, RingSize) = Ring!LastOf(written, RingSize)

\* What the daemon tells the local scp or sftp: "when DOWNLOADING, we rely
\* on Agent to tell us it's done; if we've reached this point we assume
\* success".  Success means that all of what the command writes has come.
DownloadComplete ==
  Kind = "transparent" /\ d.ended /\ ~d.lost => Complete

-----------------------------------------------------------------------------
(* Liveness.                                                               *)

\* A client that goes away takes the connection to the target with it, if
\* the target has not ended it and nobody closes the data channel, which may
\* get stuck: see CloseKills.  (A command run by kubeexec only sees the end
\* of its stdin.)
TargetFreed ==
  client.eof ~> a.conn # "open" \/ TargetGone \/ d.dying \/ Kind = "kubeexec"

\* A target that goes away ends the session on the daemon.  (When a write to
\* the target fails the agent's action ends without a word to the daemon.)
Unwritten == Len(target.got) < client.sent
SessionOver ==
  target.eof ~> \/ d.dc = "gone" \/ d.dying \/ Unwritten
                \/ Kind = "kubestream"                    \* see StreamEnds

\* "Let the daemon know the stream has ended": when the API server has ended
\* a stream, so does the daemon's request, unless its data channel is closed.
StreamEnds ==
  Kind = "kubestream" /\ target.eof ~> d.handler = "end" \/ d.dying

\* Close "kills all datachannel, plugin, and action goroutines": the main
\* goroutine of the data channel, which kills the plugin, returns.
CloseKills == d.dying ~> d.dc = "gone"
=============================================================================
