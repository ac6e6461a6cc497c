------------------------------ MODULE KubePlugin ------------------------------
(***************************************************************************)
(* The kube plugin: restapi carries one request of kubectl to the API      *)
(* server and its response back in the ack, kubestream a response that     *)
(* goes on (watch, logs -f), kubeexec a command in a pod.  The daemon's    *)
(* action runs in the http handler of kubectl's request (handler here);    *)
(* net/http recovers what panics in it.  A message whose content is the    *)
(* headers of a response is of type "Head" here.  The fourth action of the *)
(* plugin is in KubePortForward.                                           *)
(***************************************************************************)
EXTENDS Session

KubeKinds == {"restapi", "kubestream", "kubeexec", "portforward"}

\* KubeDaemonPlugin.StartAction.
KubeStarts == d.act = "none" /\ ~d.killed

KubeStartRefused ==
  /\ Kind \in KubeKinds /\ d.act = "none" /\ d.killed
  /\ d' = [d EXCEPT !.act = "failed"]
  /\ client' = [client EXCEPT !.shut = TRUE]
  /\ DaemonOnly /\ UNCHANGED <<outbox, up, down>>

\* The whole body of kubectl's request.
Body == [i \in 1..scene.ups |-> i]
FromBody == client' = [client EXCEPT !.sent = scene.ups]

\* The handler returns and leaves doneChan as it is.
Leaves(r) == /\ d' = [r EXCEPT !.handler = "end"]
             /\ client' = [client EXCEPT !.shut = TRUE]

\* close(doneChan) and return, in the handler.
Finishes(r) == Leaves([r EXCEPT !.done = TRUE])

\* A body that breaks off: Start fails, doneChan stays open.
KubeBodyBreaks ==
  /\ Kind \in {"restapi", "kubestream"} /\ KubeStarts
  /\ client.eof /\ ClientHas
  /\ Leaves([d EXCEPT !.act = "started"])
  /\ DaemonOnly /\ UNCHANGED <<outbox, up, down>>

\* Kill of restapi and kubestream closes doneChan, closed or not.
KubeKill ==
  /\ Kind \in {"restapi", "kubestream"} /\ d.dc = "run" /\ d.dying
  /\ LET r == [d EXCEPT !.killed = TRUE, !.dc = "gone"]
     IN d' = IF d.act = "none" THEN r ELSE CloseDone(r)
  /\ DaemonOnly /\ UNCHANGED <<outbox, up, down, client>>

\* The handler finds doneChan closed.
KubeHandlerDone ==
  /\ Kind \in {"restapi", "kubestream"} /\ d.handler \in {"wait", "head", "run"}
  /\ d.done
  /\ Leaves(d)
  /\ DaemonOnly /\ UNCHANGED <<outbox, up, down>>

-----------------------------------------------------------------------------
(* Daemon, restapi.                                                        *)

RestStart ==
  /\ Kind = "restapi" /\ KubeStarts
  /\ Put(Act("Request", Body)) /\ FromBody
  /\ d' = [d EXCEPT !.act = "started", !.handler = "wait"]
  /\ DaemonOnly /\ UNCHANGED <<up, down>>

RestCancelled ==
  /\ Kind = "restapi" /\ d.handler = "wait" /\ client.eof
  /\ Finishes(d)
  /\ DaemonOnly /\ UNCHANGED <<outbox, up, down>>

\* ReceiveMrtap: inputChan has no buffer, the main goroutine waits until the
\* handler takes the response, also while it waits for remaining messages.
RestReceiveMrtap ==
  /\ Kind = "restapi" /\ d.dc \in {"run", "drain"}
  /\ \E m \in Arrived({"Reply"}) :
       Takes(m) /\ d' = [d EXCEPT !.dc = "reply", !.held = m]
  /\ DaemonOnly /\ UNCHANGED <<outbox, up, client>>

RestResponse ==
  /\ Kind = "restapi" /\ d.dc = "reply" /\ d.handler = "wait"
  /\ d' = [d EXCEPT !.dc = "run", !.held = NoMsg, !.lost = Unshown(d.held),
                    !.handler = "end", !.done = TRUE, !.ended = TRUE]
  /\ client' = [Shown(d.held) EXCEPT !.shut = TRUE]
  /\ DaemonOnly /\ UNCHANGED <<outbox, up, down>>

-----------------------------------------------------------------------------
(* Daemon, kubestream.                                                     *)

KubeStreamStart ==
  /\ Kind = "kubestream" /\ KubeStarts
  /\ Put(Act("Start", Body)) /\ FromBody
  /\ d' = [d EXCEPT !.act = "started", !.handler = "head", !.next = 1]
  /\ DaemonOnly /\ UNCHANGED <<up, down>>

\* waitForHeaders: a message that is not the headers is kept, unless it can
\* be read as some; it gives up after 30 seconds and leaves doneChan open.
KubeStreamHead ==
  /\ Kind = "kubestream" /\ d.handler = "head"
  /\ \/ /\ d.inq # <<>> /\ UNCHANGED client
        /\ LET m == Head(d.inq)
               r == [d EXCEPT !.inq = Tail(@)]
           IN \/ m.t \in {"Head", "Data"} /\ d' = [r EXCEPT !.handler = "run"]
              \/ m.t # "Head" /\ d' = [r EXCEPT !.buf = @ \cup {m}]
     \/ Fails("slow") /\ Leaves(d)
  /\ DaemonOnly /\ UNCHANGED <<outbox, up, down>>

\* handleOutOfOrderMessage: the messages kept whose turn has come, until a
\* write fails.
KubeStreamDue == {m \in d.buf : m.seq = d.next /\ ~client.eof}

KubeStreamKept ==
  /\ Kind = "kubestream" /\ d.handler = "run"
  /\ \E m \in KubeStreamDue :
       client' = Shown(m) /\ d' = [d EXCEPT !.next = @ + 1, !.buf = @ \ {m}]
  /\ DaemonOnly /\ UNCHANGED <<outbox, up, down>>

\* A message of the response.  The end is a message of type Data without
\* More; a type it does not know is logged and dropped.
KubeStreamData(m, r) ==
  \/ /\ m.t = "Data" /\ ~m.more
     /\ Finishes([r EXCEPT !.ended = TRUE])
  \/ /\ m.t = "Data" /\ m.more /\ m.seq = d.next
     /\ IF client.eof
          THEN Finishes([r EXCEPT !.lost = TRUE])
          ELSE client' = Shown(m) /\ d' = [r EXCEPT !.next = @ + 1]
  \/ /\ m.t \in {"Data", "Head"} /\ m.more /\ m.seq # d.next
     /\ d' = [r EXCEPT !.buf = @ \cup {m}] /\ UNCHANGED client
  \/ m.t = "Stream" /\ d' = r /\ UNCHANGED client

KubeStreamTake ==
  /\ Kind = "kubestream" /\ d.handler = "run"
  /\ KubeStreamDue = {} /\ d.inq # <<>>
  /\ KubeStreamData(Head(d.inq), [d EXCEPT !.inq = Tail(@)])
  /\ DaemonOnly /\ UNCHANGED <<outbox, up, down>>

\* kubectl has gone: Stop for the agent, and the loop goes on.  It may choose
\* this case again before it looks at doneChan: a second Stop, and a panic.
KubeStreamCancelled ==
  /\ Kind = "kubestream" /\ d.handler = "run" /\ client.eof
  /\ KubeStreamDue = {}
  /\ Put(Act("Stop", <<>>))
  /\ IF d.done THEN Leaves(d) ELSE d' = [d EXCEPT !.done = TRUE] /\ UNCHANGED client
  /\ DaemonOnly /\ UNCHANGED <<up, down>>

-----------------------------------------------------------------------------
(* Daemon, kubeexec: the writer is the tomb's goroutine, which writes to   *)
(* kubectl's SPDY connection; handler is the goroutine that reads stdin,   *)
(* if there is one.  Only one of them tells the agent to stop.             *)

HasStdin == scene.ups > 0

KubeExecStart ==
  /\ Kind = "kubeexec" /\ KubeStarts
  /\ \/ /\ Put(Act("Start", <<>>)) /\ UNCHANGED client
        /\ d' = [Go([d EXCEPT !.act = "started"], {"writer"})
                   EXCEPT !.handler = IF HasStdin THEN "run" ELSE "end"]
     \/ /\ Fails("refuse") /\ Leaves([d EXCEPT !.act = "started"])
        /\ UNCHANGED outbox
  /\ DaemonOnly /\ UNCHANGED <<up, down>>

\* A stream message.  A failed write is logged.
KubeExecWrite ==
  /\ Kind = "kubeexec" /\ d.go["writer"] = "run" /\ Alive(d) /\ d.inq # <<>>
  /\ LET m == Head(d.inq)
         r == [d EXCEPT !.inq = Tail(@)]
     IN \/ /\ m.t = "StdOut" /\ m.more
           /\ client' = Shown(m) /\ d' = [r EXCEPT !.lost = Unshown(m)]
        \/ /\ m.t = "Error" \/ ~m.more
           /\ d' = CloseDone(Returns([r EXCEPT !.ended = m.t = "StdOut"],
                                     "writer", m.t = "Error"))
           /\ client' = [client EXCEPT !.shut = TRUE]
  /\ DaemonOnly /\ UNCHANGED <<outbox, up, down>>

\* kubectl has closed the connection, or Kill was called.
KubeExecClosed ==
  /\ Kind = "kubeexec" /\ d.go["writer"] = "run"
  /\ \/ /\ client.eof /\ d.handler # "stop"
        /\ d' = IF d.stopped THEN CloseDone(Returns(d, "writer", FALSE))
                ELSE [d EXCEPT !.go["writer"] = "stop"]
     \/ ~Alive(d) /\ d' = CloseDone(Returns(d, "writer", FALSE))
  /\ DaemonOnly /\ UNCHANGED <<outbox, up, down, client>>

\* stdinStream.Read: data, or the end of stdin or of the connection.
KubeExecRead ==
  /\ Kind = "kubeexec" /\ d.handler = "run"
  /\ \/ /\ Alive(d) /\ FromClient /\ d' = [d EXCEPT !.handler = "put"]
     \/ /\ Alive(d) /\ (client.eof \/ ~ClientHas) /\ d.go["writer"] # "stop"
        /\ d' = [d EXCEPT !.handler = IF d.stopped THEN "end" ELSE "stop"]
        /\ UNCHANGED client
     \/ ~Alive(d) /\ d' = [d EXCEPT !.handler = "end"] /\ UNCHANGED client
  /\ DaemonOnly /\ UNCHANGED <<outbox, up, down>>

\* The messages of both, which block while the outbox is full.
KubeExecSend ==
  /\ Kind = "kubeexec"
  /\ \/ /\ d.handler = "put" /\ Put(Act("Input", <<client.sent>>))
        /\ d' = [d EXCEPT !.handler = "run"]
     \/ /\ d.handler = "stop" /\ Put(Act("Stop", <<>>))
        /\ d' = [d EXCEPT !.handler = "end", !.stopped = TRUE]
     \/ /\ d.go["writer"] = "stop" /\ Put(Act("Stop", <<>>))
        /\ d' = CloseDone(Returns([d EXCEPT !.stopped = TRUE], "writer", FALSE))
  /\ DaemonOnly /\ UNCHANGED <<up, down, client>>

\* The goroutine that reads terminal sizes; MaxResizes bounds how many come.
MaxResizes == 1

KubeExecResize ==
  /\ Kind = "kubeexec" /\ d.go["writer"] # "off"
  /\ ~client.eof /\ d.next < MaxResizes
  /\ Put(Act("Resize", <<>>))
  /\ d' = [d EXCEPT !.next = @ + 1]
  /\ DaemonOnly /\ UNCHANGED <<up, down, client>>

-----------------------------------------------------------------------------
(* Agent, restapi: the request is made by the input goroutine; doneChan is *)
(* closed before the response is on its way in the ack.                    *)

RestRequestReceived ==
  /\ Kind = "restapi" /\ Receives("Request")
  /\ \/ /\ Delivered(Head(up).ns) /\ UNCHANGED <<down, unread>>
        /\ a' = CloseDone([a EXCEPT !.input = "reply", !.stopped = TRUE])
     \/ /\ Fails("refuse") /\ UNCHANGED target
        /\ a' = CloseDone([a EXCEPT !.broken = TRUE])
        /\ down' = IF Forwards(a) THEN Append(down, Fail) ELSE down
        /\ UNCHANGED unread
  /\ AgentOnly

RestReplied ==
  /\ Kind = "restapi" /\ a.input = "reply"
  /\ a' = Acked([a EXCEPT !.input = "free"])
  /\ down' = IF Forwards(a)
               THEN Append(down, Smsg("Reply", 0, [i \in 1..scene.downs |-> i], FALSE))
               ELSE down
  /\ AgentOnly /\ UNCHANGED <<up, unread, target>>

\* Kill does nothing.
RestDying == Kind = "restapi" /\ AgentDying(a, FALSE)

-----------------------------------------------------------------------------
(* Agent, kubestream.                                                      *)

KubeStreamStartReceived ==
  /\ Kind = "kubestream" /\ Receives("Start")
  /\ \/ /\ Send(Smsg("Head", 0, <<>>, TRUE)) /\ Delivered(Head(up).ns)
        /\ a' = Acked(Go([a EXCEPT !.conn = "open", !.seq = 1], {"reader"}))
     \/ Fails("refuse") /\ Failed /\ UNCHANGED target
  /\ AgentOnly

KubeStreamStopReceived ==
  /\ Kind = "kubestream" /\ Receives("Stop")
  /\ a' = IF Alive(a)
            THEN [KillTomb(a) EXCEPT !.input = "kill", !.stopped = TRUE]
            ELSE Acked([a EXCEPT !.stopped = TRUE])
  /\ AgentOnly /\ UNCHANGED <<down, unread, target>>

\* The reader's return: the body and doneChan are closed.
KubeStreamReturns(failed) ==
  CloseDone(Returns([a EXCEPT !.conn = "closed"], "reader", failed))

\* br.Read, which a dying tomb cancels.  A log that fails before anything was
\* read is asked for once more, without following it.
KubeStreamRead ==
  /\ Kind = "kubestream" /\ a.go["reader"] = "run"
  /\ \/ Alive(a) /\ FromTarget /\ a' = [a EXCEPT !.go["reader"] = "put"]
     \/ /\ Alive(a) /\ TargetOver /\ UNCHANGED target
        /\ \/ a' = [a EXCEPT !.go["reader"] = "stop"]
           \/ /\ target.err /\ a.seq = 1
              /\ a' = [a EXCEPT !.go["reader"] = "log"]
     \/ ~Alive(a) /\ a' = KubeStreamReturns(FALSE) /\ UNCHANGED target
  /\ AgentOnly /\ UNCHANGED <<up, down, unread>>

KubeStreamSend ==
  /\ Kind = "kubestream"
  /\ \/ /\ a.go["reader"] = "put"
        /\ Send(Smsg("Data", a.seq, <<target.sent>>, TRUE))
        /\ a' = [a EXCEPT !.go["reader"] = "run", !.seq = @ + 1]
     \/ /\ a.go["reader"] = "stop" /\ Send(Smsg("Stream", a.seq, <<>>, FALSE))
        /\ a' = KubeStreamReturns(TRUE)
  /\ AgentOnly /\ UNCHANGED <<up, target>>

\* handleLastLogStream: the log as it is, in one message.
KubeStreamLastLog ==
  /\ Kind = "kubestream" /\ a.go["reader"] = "log"
  /\ Send(Smsg("Data", a.seq, [i \in 1..scene.downs |-> i], TRUE))
  /\ a' = [a EXCEPT !.go["reader"] = "stop"]
  /\ AgentOnly /\ UNCHANGED <<up, target>>

KubeStreamDying ==
  Kind = "kubestream" /\ AgentDying(IF Alive(a) THEN KillTomb(a) ELSE a, Alive(a))

-----------------------------------------------------------------------------
(* Agent, kubeexec: no tomb.  The reader is the goroutine in exec.Stream,  *)
(* a library call that reads stdin from a.stdin and writes stdout.         *)

KubeExecStartReceived ==
  /\ Kind = "kubeexec" /\ Receives("Start")
  /\ \/ /\ a' = Acked([a EXCEPT !.conn = "open", !.go["reader"] = "run"])
        /\ UNCHANGED <<down, unread>>
     \/ Fails("refuse") /\ Failed
  /\ AgentOnly /\ UNCHANGED target

\* The input goroutine blocks while the channel is full, unless it is closed.
KubeExecInputReceived ==
  /\ Kind = "kubeexec" /\ Receives("Input")
  /\ a.stopped \/ Len(a.stdin) < OutboxCap
  /\ a' = Acked(IF a.stopped THEN a ELSE [a EXCEPT !.stdin = @ \o Head(up).ns])
  /\ AgentOnly /\ UNCHANGED <<down, unread, target>>

\* execResizeChannel <-: its reader is a goroutine of exec.Stream that outlives
\* the call.  Without a stdin, or when the call failed before it started that
\* goroutine, nobody reads, and a channel that is full blocks for ever.
KubeExecResizeReceived ==
  /\ Kind = "kubeexec" /\ Receives("Resize")
  /\ \/ a' = Acked(a)
     \/ (~HasStdin \/ target.err) /\ a' = [a EXCEPT !.input = "stuck"]
  /\ AgentOnly /\ UNCHANGED <<down, unread, target>>

\* Stop closes the channel: stdin ends once it has been read.
KubeExecStopReceived ==
  /\ Kind = "kubeexec" /\ Receives("Stop")
  /\ a' = Acked([a EXCEPT !.stopped = TRUE])
  /\ AgentOnly /\ UNCHANGED <<down, unread, target>>

KubeExecStdin ==
  /\ Kind = "kubeexec" /\ a.go["reader"] = "run" /\ a.conn = "open"
  /\ a.stdin # <<>> /\ ~TargetGone
  /\ Delivered(<<Head(a.stdin)>>)
  /\ a' = [a EXCEPT !.stdin = Tail(@)]
  /\ AgentOnly /\ UNCHANGED <<up, down, unread>>

KubeExecStdout ==
  /\ Kind = "kubeexec" /\ a.go["reader"] = "run" /\ a.conn = "open"
  /\ FromTarget
  /\ Send(Smsg("StdOut", a.seq, <<target.sent + 1>>, TRUE))
  /\ a' = [a EXCEPT !.seq = @ + 1]
  /\ AgentOnly /\ UNCHANGED up

\* exec.Stream returned: an error if there was one, then the end.
KubeExecEnds ==
  /\ Kind = "kubeexec" /\ a.go["reader"] = "run"
  /\ TargetOver \/ a.conn = "closed"
  /\ LET end == Smsg("StdOut", a.seq, <<>>, FALSE)
         ms == IF target.err THEN <<Smsg("Error", 0, <<>>, FALSE), end>> ELSE <<end>>
     IN SendAll(ms)
  /\ a' = CloseDone([a EXCEPT !.go["reader"] = "end", !.conn = "closed"])
  /\ AgentOnly /\ UNCHANGED <<up, target>>

\* Kill: with a stdin, it hands the reader of stdin an end, which that reader
\* takes only if it is still reading, and waits for doneChan.
KubeExecDying ==
  Kind = "kubeexec" /\ AgentDying(a, HasStdin /\ a.conn # "none")

KubeExecKilled ==
  /\ Kind = "kubeexec"
  /\ \/ /\ a.dc = "kill" /\ a.go["reader"] = "run"
        /\ ~a.stopped \/ a.stdin # <<>>
        /\ a' = [a EXCEPT !.dc = "wait", !.conn = "closed"]
     \/ a.dc = "wait" /\ a.done /\ a' = [a EXCEPT !.dc = "gone"]
  /\ AgentOnly /\ UNCHANGED <<up, down, unread, target>>

-----------------------------------------------------------------------------
KubeNext ==
  \/ KubeStartRefused \/ KubeBodyBreaks \/ KubeKill \/ KubeHandlerDone
  \/ RestStart \/ RestCancelled \/ RestReceiveMrtap \/ RestResponse
  \/ KubeStreamStart \/ KubeStreamHead \/ KubeStreamKept \/ KubeStreamTake
  \/ KubeStreamCancelled
  \/ KubeExecStart \/ KubeExecWrite \/ KubeExecClosed \/ KubeExecRead
  \/ KubeExecSend \/ KubeExecResize
  \/ RestRequestReceived \/ RestReplied \/ RestDying
  \/ KubeStreamStartReceived \/ KubeStreamStopReceived \/ KubeStreamRead
  \/ KubeStreamSend \/ KubeStreamLastLog \/ KubeStreamDying
  \/ KubeExecStartReceived \/ KubeExecInputReceived \/ KubeExecStopReceived
  \/ KubeExecResizeReceived
  \/ KubeExecStdin \/ KubeExecStdout \/ KubeExecEnds \/ KubeExecDying
  \/ KubeExecKilled
=============================================================================
