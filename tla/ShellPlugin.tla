------------------------------ MODULE ShellPlugin ------------------------------
(***************************************************************************)
(* The shell plugin: a terminal on the target.  Kind "shell" opens one,    *)
(* kind "attach" attaches to one that a daemon before has opened and whose *)
(* recent output the agent keeps in a ring buffer.  The agent's action has *)
(* no tomb: its reader is writePump, and the terminal (conn) is set to nil *)
(* by whoever kills it.                                                    *)
(***************************************************************************)
EXTENDS Session

CONSTANT RingSize   \* shellStdOutBuffCapacity

ASSUME RingAssumption == RingSize \in Nat \ {0}

Ring == INSTANCE RingBuffer

ShellKinds == {"shell", "attach"}
ShellOpen == Kind = "shell"

\* What the agent's terminal has written before the daemon attaches.
Attachable(r) ==
  [r EXCEPT !.conn = "open", !.go["reader"] = "run",
            !.ring = Ring!Write(Ring!New(RingSize), RingSize, <<1>>)]

-----------------------------------------------------------------------------
(* Daemon.                                                                 *)

ShellStart ==
  /\ Kind \in ShellKinds /\ d.act = "none" /\ d.dc = "none"
  /\ Put(Act(IF ShellOpen THEN "Open" ELSE "Replay", <<>>))
  /\ d' = Go([d EXCEPT !.act = "started", !.dc = "run", !.handler = "resize"],
             {"reader"})
  /\ DaemonOnly /\ UNCHANGED <<up, down, client>>

\* listenForTerminalSizeChanges: the size is sent at the start.
ShellResize ==
  /\ Kind \in ShellKinds /\ d.handler = "resize"
  /\ Put(Act("Resize", <<>>))
  /\ d' = [d EXCEPT !.handler = "end"]
  /\ DaemonOnly /\ UNCHANGED <<up, down, client>>

\* readFromStdIn: a keypress goes to stdInChan; one that cancels ends the
\* shell, unless it is connected; so does the end of stdin.
ShellKey ==
  /\ Kind \in ShellKinds /\ d.go["reader"] = "run"
  /\ \/ /\ Alive(d) /\ FromClient
        /\ d' = [d EXCEPT !.keys = Append(@, client.sent + 1)]
     \/ /\ Alive(d) /\ FromClient /\ ~d.ready
        /\ d' = Returns(d, "reader", TRUE)
     \/ /\ Alive(d) /\ ClientOver
        /\ d' = Returns(d, "reader", TRUE) /\ UNCHANGED client
     \/ /\ ~Alive(d) /\ (ClientHas \/ ClientOver)
        /\ d' = Returns(d, "reader", FALSE) /\ UNCHANGED client
  /\ DaemonOnly /\ UNCHANGED <<outbox, up, down>>

\* sendStdIn: the keys of a debounce interval in one message.
ShellInput ==
  /\ Kind \in ShellKinds /\ Alive(d) /\ d.keys # <<>>
  /\ Put(Act("Input", d.keys))
  /\ d' = [d EXCEPT !.keys = <<>>]
  /\ DaemonOnly /\ UNCHANGED <<up, down, client>>

ShellDone ==
  /\ Kind \in ShellKinds /\ d.act = "started" /\ ~Alive(d) /\ ~d.done
  /\ d' = CloseDone(d)
  /\ DaemonOnly /\ UNCHANGED <<outbox, up, down, client>>

\* ReceiveStream and, for the ack of Replay, ReceiveMrtap.
ShellReceive ==
  /\ Kind \in ShellKinds /\ d.dc = "run"
  /\ \E m \in Arrived({"StdOut", "Stop", "Replay"}) :
       /\ Takes(m)
       /\ \/ /\ m.t = "StdOut" /\ client' = Shown(m)
             /\ d' = [d EXCEPT !.ready = TRUE, !.lost = Unshown(m)]
          \/ /\ m.t = "Replay"
             /\ client' = Shown(m)
             /\ d' = [d EXCEPT !.lost = @ \/ client.eof, !.replayed = TRUE]
          \/ /\ m.t = "Stop" /\ UNCHANGED client
             /\ d' = [KillTomb(d) EXCEPT !.ready = TRUE, !.ended = TRUE]
  /\ DaemonOnly /\ UNCHANGED <<outbox, up>>

\* Kill does not wait.
ShellKill ==
  /\ Kind \in ShellKinds /\ d.dc = "run" /\ d.dying
  /\ d' = [KillTomb(d) EXCEPT !.killed = TRUE, !.dc = "gone"]
  /\ DaemonOnly /\ UNCHANGED <<outbox, up, down, client>>

-----------------------------------------------------------------------------
(* Agent.                                                                  *)

\* open: a second one is refused.
ShellOpenReceived ==
  /\ Kind \in ShellKinds /\ Receives("Open")
  /\ \/ /\ a.conn # "open" /\ UNCHANGED <<down, unread>>
        /\ a' = Acked([a EXCEPT !.conn = "open", !.go["reader"] = "run"])
     \/ (a.conn = "open" \/ Fails("refuse")) /\ Failed
  /\ AgentOnly /\ UNCHANGED target

\* writeToTerminal, setSize: without a terminal, an error.
ShellInputReceived ==
  /\ Kind \in ShellKinds /\ Receives("Input")
  /\ \/ /\ a.conn = "open" /\ ~TargetGone
        /\ Delivered(Head(up).ns) /\ a' = Acked(a) /\ UNCHANGED <<down, unread>>
     \/ a.conn # "open" /\ Failed /\ UNCHANGED target
     \/ /\ a.conn = "open" /\ TargetGone /\ UNCHANGED target
        /\ \/ a' = Acked(a) /\ UNCHANGED <<down, unread>>
           \/ Failed
  /\ AgentOnly

ShellResizeReceived ==
  /\ Kind \in ShellKinds /\ Receives("Resize")
  /\ \/ a.conn = "open" /\ a' = Acked(a) /\ UNCHANGED <<down, unread>>
     \/ a.conn # "open" /\ Failed
  /\ AgentOnly /\ UNCHANGED target

\* Faulty variant: one byte too few is read.
ShellReplayShort ==
  /\ Kind \in ShellKinds /\ Receives("Replay")
  /\ a' = Acked(a)
  /\ down' = IF Forwards(a)
               THEN Append(down, Smsg("Replay", 0,
                                      Ring!Read(a.ring, RingSize, RingSize - 1), FALSE))
               ELSE down
  /\ AgentOnly /\ UNCHANGED <<unread, target>>

\* Replay: the ack carries what is in the ring buffer.
ShellReplayReceived ==
  /\ Kind \in ShellKinds /\ Receives("Replay")
  /\ a' = Acked(a)
  /\ down' = IF Forwards(a)
               THEN Append(down, Smsg("Replay", 0, Ring!ReadAll(a.ring, RingSize), FALSE))
               ELSE down
  /\ AgentOnly /\ UNCHANGED <<unread, target>>

\* writePump.  The terminal is looked at before each read: when the command
\* has exited, or the file is closed, Stop is sent, whatever is unread; when
\* Kill has taken the terminal away there is a nil pointer, recovered.
ShellPumpRead ==
  /\ Kind \in ShellKinds /\ a.go["reader"] = "run" /\ a.conn = "open"
  /\ FromTarget
  /\ a' = [a EXCEPT !.go["reader"] = "put",
                    !.ring = Ring!Write(@, RingSize, <<target.sent + 1>>)]
  /\ AgentOnly /\ UNCHANGED <<up, down, unread>>

ShellPumpSend ==
  /\ Kind \in ShellKinds /\ a.go["reader"] = "put"
  /\ Send(Smsg("StdOut", 0, <<target.sent>>, TRUE))
  /\ a' = [a EXCEPT !.go["reader"] = "run"]
  /\ AgentOnly /\ UNCHANGED <<up, target>>

\* Its deferred calls: doneChan is closed, then Kill, which finds doneChan
\* closed or no terminal.
PumpReturns == CloseDone([a EXCEPT !.go["reader"] = "end", !.conn = "closed"])

ShellPumpEnds ==
  /\ Kind \in ShellKinds /\ a.go["reader"] = "run"
  /\ \/ (TargetGone \/ a.conn = "closed") /\ Send(Smsg("Stop", 0, <<>>, FALSE))
     \/ a.conn = "closed" /\ UNCHANGED <<down, unread>>
  /\ a' = PumpReturns
  /\ AgentOnly /\ UNCHANGED <<up, target>>

\* Kill by the data channel: the terminal is killed and forgotten, and the
\* caller waits for writePump to close doneChan.
ShellDying ==
  /\ Kind \in ShellKinds
  /\ AgentDying([a EXCEPT !.conn = IF @ = "open" THEN "closed" ELSE @],
                a.conn = "open")

ShellKilled ==
  /\ Kind \in ShellKinds /\ a.dc = "kill" /\ a.done
  /\ a' = [a EXCEPT !.dc = "gone"]
  /\ AgentOnly /\ UNCHANGED <<up, down, unread, target>>

-----------------------------------------------------------------------------
ShellNext ==
  \/ ShellStart \/ ShellResize \/ ShellKey \/ ShellInput \/ ShellDone
  \/ ShellReceive \/ ShellKill
  \/ ShellOpenReceived \/ ShellInputReceived \/ ShellResizeReceived
  \/ ShellReplayReceived \/ ShellPumpRead \/ ShellPumpSend \/ ShellPumpEnds
  \/ ShellDying \/ ShellKilled
=============================================================================
