------------------------------- MODULE SshPlugin -------------------------------
(***************************************************************************)
(* The ssh plugin.  opaque: the bytes of an ssh connection, from the       *)
(* daemon's stdin to the target's sshd.  transparent: the daemon is the    *)
(* ssh server of the local scp or sftp, the agent the client of the        *)
(* target's sshd.  StartAction runs before the data channel is made, and   *)
(* the data channel does not wait for remaining messages when it ends.     *)
(* The agent dials the target when the plugin is made.                     *)
(***************************************************************************)
EXTENDS Session

SshKinds == {"opaque", "transparent"}

SshStarts == d.act = "none" /\ d.dc = "none"
SshStarted == [d EXCEPT !.act = "started", !.dc = "run"]

-----------------------------------------------------------------------------
(* Daemon, opaque: a tomb with the goroutine that reads stdin.             *)

OpaqueStart ==
  /\ Kind = "opaque" /\ SshStarts
  /\ Put(Act("Open", <<>>))
  /\ d' = Go(SshStarted, {"reader"})
  /\ DaemonOnly /\ UNCHANGED <<up, down, client>>

\* stdIo.Read: data, the end, an error, or whatever once the tomb is dying.
OpaqueRead ==
  /\ Kind = "opaque" /\ d.go["reader"] = "run"
  /\ \/ /\ Alive(d) /\ FromClient
        /\ d' = [d EXCEPT !.go["reader"] = "put"]
     \/ /\ Alive(d) /\ ClientOver
        /\ d' = [d EXCEPT !.go["reader"] = "stop"] /\ UNCHANGED client
     \/ /\ Alive(d) /\ client.eof /\ Fails("break")
        /\ d' = Returns(d, "reader", TRUE) /\ UNCHANGED client
     \/ /\ ~Alive(d) /\ (ClientHas \/ ClientOver)
        /\ d' = Returns(d, "reader", FALSE) /\ UNCHANGED client
  /\ DaemonOnly /\ UNCHANGED <<outbox, up, down>>

OpaqueSend ==
  /\ Kind = "opaque"
  /\ \/ /\ d.go["reader"] = "put" /\ Put(Act("Input", <<client.sent>>))
        /\ d' = [d EXCEPT !.go["reader"] = "run"]
     \/ /\ d.go["reader"] = "stop" /\ Put(Act("Close", <<>>))
        /\ d' = Returns(d, "reader", TRUE)
  /\ DaemonOnly /\ UNCHANGED <<up, down, client>>

\* The goroutine that waits for the tomb to die and closes doneChan.
OpaqueDone ==
  /\ Kind = "opaque" /\ d.act = "started" /\ ~Alive(d) /\ ~d.done
  /\ d' = CloseDone(d)
  /\ DaemonOnly /\ UNCHANGED <<outbox, up, down, client>>

\* ReceiveStream, on the data channel's main goroutine.  A host key is added to
\* known_hosts, if it can be parsed.
OpaqueReceiveStream ==
  /\ Kind = "opaque" /\ d.dc = "run"
  /\ \E m \in Arrived({"Data", "StdOut", "Error"}) :
       /\ Takes(m)
       /\ \/ m.t = "Data" /\ d' = [d EXCEPT !.next = @ + 1] /\ UNCHANGED client
          \/ /\ m.t = "StdOut" /\ client' = Shown(m)
             /\ d' = [d EXCEPT !.lost = Unshown(m), !.ended = @ \/ ~m.more,
                               !.tmb = IF m.more THEN @ ELSE "dying"]
          \/ m.t = "Error" /\ d' = KillTomb(d) /\ UNCHANGED client
  /\ DaemonOnly /\ UNCHANGED <<outbox, up>>

\* Kill does not wait.
OpaqueKill ==
  /\ Kind = "opaque" /\ d.dc = "run" /\ d.dying
  /\ d' = [KillTomb(d) EXCEPT !.killed = TRUE, !.dc = "gone"]
  /\ DaemonOnly /\ UNCHANGED <<outbox, up, down, client>>

-----------------------------------------------------------------------------
(* Daemon, transparent: no tomb; the reader reads from the ssh channel,    *)
(* the handler is the goroutine that takes the ssh requests.               *)

TransparentStart ==
  /\ Kind = "transparent" /\ SshStarts
  /\ Put(Act("Open", <<>>))
  /\ d' = [SshStarted EXCEPT !.handler = "accept"]
  /\ DaemonOnly /\ UNCHANGED <<up, down, client>>

\* Kill: closes the ssh channel, if there is one, and, each time, doneChan.
TransparentKilled(r) == CloseDone(r)
ChannelClosed == [client EXCEPT !.shut = @ \/ d.ready]

\* The local ssh opens a channel and asks for a command.  exec of a valid scp
\* and the subsystem sftp are accepted: readFromChannel starts before the
\* agent is told.  Anything else is rejected.
TransparentRequest ==
  /\ Kind = "transparent" /\ d.handler = "accept"
  /\ \/ d' = [d EXCEPT !.ready = TRUE, !.handler = "exec",
                       !.go["reader"] = "run"]
        /\ UNCHANGED client
     \/ /\ Fails("refuse")
        /\ d' = TransparentKilled([d EXCEPT !.ready = TRUE, !.handler = "end"])
        /\ client' = [client EXCEPT !.shut = TRUE]
  /\ DaemonOnly /\ UNCHANGED <<outbox, up, down>>

TransparentExec ==
  /\ Kind = "transparent" /\ d.handler = "exec"
  /\ Put(Act("Exec", <<>>))
  /\ d' = [d EXCEPT !.handler = "end"]
  /\ DaemonOnly /\ UNCHANGED <<up, down, client>>

\* readFromChannel: input, or the end, which tells the local ssh that all
\* went well (signalSuccess) and the agent to close.  Read also returns when
\* Kill has closed the channel.
TransparentRead ==
  /\ Kind = "transparent" /\ d.go["reader"] = "run"
  /\ \/ /\ FromClient
        /\ d' = [d EXCEPT !.go["reader"] = "put"]
     \/ /\ ClientOver \/ client.shut
        /\ d' = [d EXCEPT !.go["reader"] = "stop"] /\ UNCHANGED client
  /\ DaemonOnly /\ UNCHANGED <<outbox, up, down>>

TransparentSend ==
  /\ Kind = "transparent"
  /\ \/ /\ d.go["reader"] = "put" /\ Put(Act("Input", <<client.sent>>))
        /\ d' = [d EXCEPT !.go["reader"] = "run"]
     \/ /\ d.go["reader"] = "stop" /\ Put(Act("Close", <<>>))
        /\ d' = [d EXCEPT !.go["reader"] = "end"]
  /\ DaemonOnly /\ UNCHANGED <<up, down, client>>

\* ReceiveStream.  The first end, of stdout or of stderr, is taken for the
\* end of a download: success, and Kill.  Without a channel there is nothing
\* to write to: a nil pointer.
TransparentReceiveStream ==
  /\ Kind = "transparent" /\ d.dc = "run"
  /\ \E m \in Arrived({"StdOut", "StdErr", "Error", "Stop"}) :
       /\ Takes(m)
       /\ \/ /\ m.t \in {"StdOut", "StdErr"} /\ d.ready
             /\ client' = IF d.done THEN client
                          ELSE [Shown(m) EXCEPT !.shut = @ \/ ~m.more]
             /\ LET r == [d EXCEPT !.lost = Unshown(m)]
                IN d' = IF m.more THEN r
                        ELSE TransparentKilled([r EXCEPT !.ended = TRUE])
          \/ /\ m.t \in {"StdOut", "StdErr"} /\ ~d.ready
             /\ d' = [d EXCEPT !.panic = TRUE] /\ UNCHANGED client
          \/ /\ m.t \in {"Error", "Stop"} /\ d' = TransparentKilled(d)
             /\ client' = ChannelClosed
  /\ DaemonOnly /\ UNCHANGED <<outbox, up>>

TransparentKill ==
  /\ Kind = "transparent" /\ d.dc = "run" /\ d.dying
  /\ d' = [TransparentKilled(d) EXCEPT !.killed = TRUE, !.dc = "gone"]
  /\ client' = ChannelClosed
  /\ DaemonOnly /\ UNCHANGED <<outbox, up, down>>

-----------------------------------------------------------------------------
(* Agent, opaque.                                                          *)

\* The files that may hold a host key of the target.
HostKeyFiles == 4
HostKeys(k) == [i \in 1..k |-> Smsg("Data", 0, <<>>, FALSE)]

\* Faulty variant: the target is read before the host keys are sent.
OpaqueOpenLateKeys ==
  /\ Kind = "opaque" /\ Receives("Open")
  /\ \/ /\ \E k \in 0..HostKeyFiles : a' = Acked(Go([a EXCEPT !.seq = k], {"reader"}))
        /\ UNCHANGED <<down, unread>>
     \/ Fails("refuse") /\ Failed
  /\ AgentOnly /\ UNCHANGED target

\* The public key is authorised, the host keys that can be read are sent to the
\* daemon, none perhaps, and the target is read.
OpaqueOpenReceived ==
  /\ Kind = "opaque" /\ Receives("Open")
  /\ \/ \E k \in 0..HostKeyFiles :
          /\ SendAll(HostKeys(k))
          /\ a' = Acked(Go([a EXCEPT !.seq = k], {"reader"}))
     \/ Fails("refuse") /\ Failed
  /\ AgentOnly /\ UNCHANGED target

\* Kill is unconditional: it waits even when nothing was ever started.
OpaqueKilled(r) == [r EXCEPT !.tmb = "dying", !.conn = "closed"]

OpaqueInputReceived ==
  /\ Kind = "opaque" /\ Receives("Input")
  /\ \/ /\ a.conn = "open" /\ ~TargetGone
        /\ Delivered(Head(up).ns)
        /\ a' = Acked(a)
     \/ /\ a.conn # "open" \/ TargetGone
        /\ \/ a' = Acked(a)
           \/ Alive(a) /\ a' = [OpaqueKilled(a) EXCEPT !.input = "kill"]
        /\ UNCHANGED target
  /\ AgentOnly /\ UNCHANGED <<down, unread>>

OpaqueCloseReceived ==
  /\ Kind = "opaque" /\ Receives("Close")
  /\ a' = [OpaqueKilled(a) EXCEPT !.input = "kill", !.stopped = TRUE]
  /\ AgentOnly /\ UNCHANGED <<down, unread, target>>

\* The reader of the target; its end is StdOut without More.
OpaqueRemoteRead ==
  /\ Kind = "opaque" /\ a.go["reader"] = "run"
  /\ \/ /\ Alive(a) /\ FromTarget
        /\ a' = [a EXCEPT !.go["reader"] = "put"]
     \/ Alive(a) /\ TargetOver
        /\ a' = [a EXCEPT !.go["reader"] = "stop"] /\ UNCHANGED target
     \/ ~Alive(a)
        /\ a' = CloseDone(Returns(a, "reader", FALSE)) /\ UNCHANGED target
  /\ AgentOnly /\ UNCHANGED <<up, down, unread>>

OpaqueRemoteSend ==
  /\ Kind = "opaque"
  /\ \/ /\ a.go["reader"] = "put"
        /\ Send(Smsg("StdOut", 0, <<target.sent>>, TRUE))
        /\ a' = [a EXCEPT !.go["reader"] = "run"]
     \/ /\ a.go["reader"] = "stop"
        /\ Send(Smsg(IF target.err THEN "Error" ELSE "StdOut", 0, <<>>, FALSE))
        /\ a' = CloseDone(Returns(a, "reader", TRUE))
  /\ AgentOnly /\ UNCHANGED <<up, target>>

-----------------------------------------------------------------------------
(* Agent, transparent: three goroutines, for stdin (the writer), stdout    *)
(* (the reader) and stderr (errs).  stdin's closes doneChan.               *)

TransparentOpenReceived ==
  /\ Kind = "transparent" /\ Receives("Open")
  /\ \/ /\ a' = Acked(Go(a, Goroutines)) /\ UNCHANGED <<down, unread>>
     \/ Fails("refuse") /\ Failed
  /\ AgentOnly /\ UNCHANGED target

\* stdInChan <- data blocks the input goroutine while the channel is full.
TransparentInputReceived ==
  /\ Kind = "transparent" /\ Receives("Input") /\ Len(a.stdin) < OutboxCap
  /\ a' = Acked([a EXCEPT !.stdin = @ \o Head(up).ns])
  /\ AgentOnly /\ UNCHANGED <<down, unread, target>>

\* The command is checked again; a command that is not allowed is an error
\* for the user and a failed action.
TransparentExecReceived ==
  /\ Kind = "transparent" /\ Receives("Exec")
  /\ \/ a' = Acked([a EXCEPT !.seq = 1]) /\ UNCHANGED <<down, unread>>
     \/ /\ Fails("refuse") /\ SendAll(<<Smsg("Error", 0, <<>>, FALSE), Fail>>)
        /\ a' = [a EXCEPT !.broken = TRUE]
  /\ AgentOnly /\ UNCHANGED target

\* Stop is sent, then Kill: the session is closed before the tomb is killed,
\* so that the pipes may still report their ends.
TransparentCloseReceived ==
  /\ Kind = "transparent" /\ Receives("Close")
  /\ Send(Smsg("Stop", 0, <<>>, FALSE))
  /\ a' = [a EXCEPT !.input = "closing", !.conn = "closed", !.stopped = TRUE]
  /\ AgentOnly /\ UNCHANGED target

TransparentKillsTomb ==
  /\ Kind = "transparent" /\ a.input = "closing"
  /\ a' = IF Alive(a) THEN [KillTomb(a) EXCEPT !.input = "kill"]
                      ELSE Acked([a EXCEPT !.input = "free"])
  /\ AgentOnly /\ UNCHANGED <<up, down, unread, target>>

\* stdin: a failed write ends the goroutine, with an error or without.
TransparentStdin ==
  /\ Kind = "transparent" /\ a.go["writer"] = "run"
  /\ \/ ~Alive(a)
        /\ a' = CloseDone(Returns(a, "writer", FALSE)) /\ UNCHANGED target
     \/ /\ a.stdin # <<>> /\ a.conn = "open" /\ ~TargetGone
        /\ Delivered(<<Head(a.stdin)>>)
        /\ a' = [a EXCEPT !.stdin = Tail(@)]
     \/ /\ a.stdin # <<>> /\ (a.conn # "open" \/ TargetGone)
        /\ \E failed \in BOOLEAN : a' = CloseDone(Returns(a, "writer", failed))
        /\ UNCHANGED target
  /\ AgentOnly /\ UNCHANGED <<up, down, unread>>

\* readPipe for stdout and for stderr.  The program's output comes after
\* Exec; both pipes end with the session.
TransparentPipe(g, t) ==
  /\ Kind = "transparent" /\ a.go[g] = "run"
  /\ \/ ~Alive(a) /\ a' = Returns(a, g, FALSE) /\ UNCHANGED <<down, unread, target>>
     \/ /\ Alive(a) /\ t = "StdOut" /\ a.seq = 1 /\ a.conn = "open"
        /\ FromTarget /\ Send(Smsg(t, 0, <<target.sent + 1>>, TRUE)) /\ UNCHANGED a
     \/ /\ Alive(a)
        /\ \/ a.conn # "open"
           \/ target.eof /\ (t = "StdOut" => target.sent = scene.downs)
        /\ Send(Smsg(t, 0, <<>>, FALSE))
        /\ a' = Returns(a, g, FALSE) /\ UNCHANGED target
     \/ /\ Alive(a) /\ target.err
        /\ a' = Returns(a, g, TRUE) /\ UNCHANGED <<down, unread, target>>
  /\ AgentOnly /\ UNCHANGED up

-----------------------------------------------------------------------------
\* Kill by the data channel.
OpaqueDying == Kind = "opaque" /\ AgentDying(OpaqueKilled(a), TRUE)
TransparentDying ==
  /\ Kind = "transparent"
  /\ AgentDying([KillTomb(a) EXCEPT !.conn = "closed"], Alive(a))

SshNext ==
  \/ OpaqueStart \/ OpaqueRead \/ OpaqueSend \/ OpaqueReceiveStream
  \/ OpaqueDone \/ OpaqueKill
  \/ TransparentStart \/ TransparentRequest \/ TransparentExec
  \/ TransparentRead \/ TransparentSend \/ TransparentReceiveStream
  \/ TransparentKill
  \/ OpaqueOpenReceived \/ OpaqueInputReceived \/ OpaqueCloseReceived
  \/ OpaqueRemoteRead \/ OpaqueRemoteSend \/ OpaqueDying
  \/ TransparentOpenReceived \/ TransparentInputReceived
  \/ TransparentExecReceived \/ TransparentCloseReceived
  \/ TransparentKillsTomb \/ TransparentStdin
  \/ TransparentPipe("reader", "StdOut") \/ TransparentPipe("errs", "StdErr")
  \/ TransparentDying
=============================================================================
