---------------------------- MODULE KubePortForward ----------------------------
(***************************************************************************)
(* The portforward action of the kube plugin: kubectl port-forward, with   *)
(* one connection forwarded.  client is kubectl, whose SPDY connection has *)
(* a pair of streams for the forwarded connection, target the pod's end of *)
(* that connection; a.conn is the agent's connection to the API server.    *)
(*                                                                         *)
(* At the daemon the tomb is that of forwardStreamPair (its goroutines are *)
(* reader and errs), d.fwd the goroutine that runs it and d.handler the    *)
(* http handler in Start; the action's own tomb has no goroutine.  At the  *)
(* agent the tomb is that of the PortForwardRequest.  requestMap of the    *)
(* daemon is read and written without a lock; that the runtime may stop    *)
(* the process when it notices is left out.                                *)
(***************************************************************************)
EXTENDS KubePlugin

PfKind == Kind = "portforward"

-----------------------------------------------------------------------------
(* Daemon: the handler.                                                    *)

PfStart ==
  /\ PfKind /\ KubeStarts
  /\ Put(Act("Start", <<>>))
  /\ d' = [d EXCEPT !.act = "started", !.handler = "ready"]
  /\ DaemonOnly /\ UNCHANGED <<up, down, client>>

\* The agent is ready, or could not dial; then the handshake with kubectl.
PfReady ==
  /\ PfKind /\ d.handler = "ready" /\ d.inq # <<>>
  /\ LET r == [d EXCEPT !.inq = Tail(@)]
     IN \/ /\ ~Head(d.inq).more
           /\ d' = [r EXCEPT !.handler = "stop"] /\ UNCHANGED client
        \/ /\ Head(d.inq).more /\ ~client.eof
           /\ d' = [r EXCEPT !.handler = "run"] /\ UNCHANGED client
        \/ /\ Head(d.inq).more /\ (client.eof \/ Fails("refuse"))
           /\ Finishes(r)
  /\ DaemonOnly /\ UNCHANGED <<outbox, up, down>>

\* kubectl opens a stream; with the second one the forwarding begins.
PfStreams == {"data", "error"}

PfStreamArrives ==
  /\ PfKind /\ d.handler = "run" /\ d.fwd = "off" /\ ~client.eof
  /\ \E s \in PfStreams \ d.pair :
       LET r == [d EXCEPT !.pair = @ \cup {s}]
       IN d' = IF r.pair # PfStreams THEN r
               ELSE Go([r EXCEPT !.fwd = "run"], {"reader", "errs"})
  /\ DaemonOnly /\ UNCHANGED <<outbox, up, down, client>>

\* monitorStreamPair: the other stream did not come in time.
PfPairTimesOut ==
  /\ PfKind /\ Fails("slow") /\ d.fwd = "off" /\ d.pair # {}
  /\ d' = [d EXCEPT !.pair = {}]
  /\ DaemonOnly /\ UNCHANGED <<outbox, up, down, client>>

\* Kill or kubectl end the loop.
PfEnds ==
  /\ PfKind /\ d.handler = "run" /\ (d.killed \/ client.eof)
  /\ d' = [d EXCEPT !.handler = "stop"]
  /\ DaemonOnly /\ UNCHANGED <<outbox, up, down, client>>

\* sendCloseMessage, conn.Close and close(doneChan), all deferred.
PfClose ==
  /\ PfKind /\ d.handler = "stop"
  /\ Put(Act("Stop", <<>>)) /\ Finishes(d)
  /\ DaemonOnly /\ UNCHANGED <<up, down>>

\* Kill closes cancelChan and waits for nothing.
PfKill ==
  /\ PfKind /\ d.dc = "run" /\ d.dying
  /\ d' = [d EXCEPT !.killed = TRUE, !.dc = "gone"]
  /\ DaemonOnly /\ UNCHANGED <<outbox, up, down, client>>

-----------------------------------------------------------------------------
(* Daemon: the forwarded connection.                                       *)

\* ReceiveStream: Ready is for the handler, everything else for the
\* forwarder if it is in requestMap: the push waits until it is taken.
PfReceiveStream ==
  /\ PfKind /\ d.dc = "run"
  /\ \E m \in Arrived({"Ready", "Data", "Error"}) :
       /\ Takes(m)
       /\ d' = CASE m.t = "Ready" /\ d.act # "none" ->
                      [d EXCEPT !.dc = "push", !.held = m]
                 [] m.t # "Ready" /\ d.fwd = "run" ->
                      [d EXCEPT !.dc = "hand", !.held = m]
                 [] OTHER -> d
  /\ DaemonOnly /\ UNCHANGED <<outbox, up, client>>

\* processDataMessage: a failed write and the last message kill the tomb.
PfProcess(m, r) ==
  LET s == [r EXCEPT !.next = @ + 1, !.lost = Unshown(m),
                     !.ended = @ \/ ~m.more]
  IN IF ~m.more \/ client.eof THEN KillTomb(s) ELSE s

PfDue == {m \in d.buf : m.seq = d.next}

\* The forwarder takes a message and keeps it if its turn has not come.
\* What is on the error stream is not followed.
PfTake ==
  /\ PfKind /\ d.dc = "hand" /\ d.fwd = "run" /\ PfDue = {}
  /\ LET m == d.held
         r == [d EXCEPT !.dc = "run", !.held = NoMsg]
     IN \/ m.t = "Data" /\ m.seq = d.next /\ d' = PfProcess(m, r) /\ client' = Shown(m)
        \/ /\ m.t = "Data" /\ m.seq # d.next
           /\ d' = [r EXCEPT !.buf = @ \cup {m}] /\ UNCHANGED client
        \/ /\ m.t = "Error" /\ UNCHANGED client
           /\ d' = IF client.eof THEN KillTomb(r) ELSE r
  /\ DaemonOnly /\ UNCHANGED <<outbox, up, down>>

\* A message that was kept.  Its turn over, the expected number is increased
\* by processDataMessage and by the loop that calls it.
PfTakeKept ==
  /\ PfKind /\ d.fwd = "run"
  /\ \E m \in PfDue :
       /\ d' = [PfProcess(m, d) EXCEPT !.next = @ + 1, !.buf = @ \ {m}]
       /\ client' = Shown(m)
  /\ DaemonOnly /\ UNCHANGED <<outbox, up, down>>

\* The tomb is dying: the connection is taken out of requestMap, its streams
\* are closed and the agent is told.
PfForwarded ==
  /\ PfKind
  /\ \/ /\ d.fwd = "run" /\ ~Alive(d) /\ PfDue = {}
        /\ d' = [d EXCEPT !.fwd = "stop"] /\ UNCHANGED outbox
     \/ /\ d.fwd = "stop" /\ Put(Act("StopRequest", <<>>))
        /\ d' = [d EXCEPT !.fwd = "end"]
  /\ DaemonOnly /\ UNCHANGED <<up, down, client>>

\* The goroutine that reads the data stream.
PfRead ==
  /\ PfKind /\ d.go["reader"] = "run"
  /\ \/ /\ Alive(d) /\ ~d.killed /\ ~client.shut /\ FromClient
        /\ d' = [d EXCEPT !.go["reader"] = "put"]
     \/ /\ d.killed \/ ~Alive(d) \/ client.eof \/ client.shut
        /\ d' = Returns(d, "reader", FALSE) /\ UNCHANGED client
  /\ DaemonOnly /\ UNCHANGED <<outbox, up, down>>

PfSend ==
  /\ PfKind /\ d.go["reader"] = "put"
  /\ Put(Act("Input", <<client.sent>>))
  /\ d' = [d EXCEPT !.go["reader"] = "run"]
  /\ DaemonOnly /\ UNCHANGED <<up, down, client>>

\* kubectl writes nothing to the error stream and closes its side of it.
PfErrorStream ==
  /\ PfKind /\ d.go["errs"] = "run"
  /\ d' = Returns(d, "errs", FALSE)
  /\ DaemonOnly /\ UNCHANGED <<outbox, up, down, client>>

-----------------------------------------------------------------------------
(* Agent: the action.                                                      *)

\* The dial that fails is reported, and the goroutine that watches the
\* connection then uses a nil one.  Without a cluster there is no dial.
PfStartReceived ==
  /\ PfKind /\ Receives("Start")
  /\ \/ /\ Send(Smsg("Ready", 0, <<>>, TRUE))
        /\ a' = Acked([a EXCEPT !.conn = "open"])
     \/ /\ Fails("refuse") /\ a' = [a EXCEPT !.panic = TRUE]
        /\ Send(Smsg("Ready", 0, <<>>, FALSE)) \/ UNCHANGED <<down, unread>>
     \/ Fails("refuse") /\ Failed
  /\ AgentOnly /\ UNCHANGED target

\* Data opens the connection to the pod if requestMap does not have it, also
\* when it has been stopped: that second connection is not followed.
PfDataReceived ==
  /\ PfKind /\ Receives("Input")
  /\ LET hands == [a EXCEPT !.input = "hand", !.stdin = Head(up).ns]
     IN \/ a.req = "open" /\ a' = hands /\ UNCHANGED <<down, unread>>
        \/ /\ a.req = "none" /\ a.conn = "open" /\ UNCHANGED <<down, unread>>
           /\ a' = Go([hands EXCEPT !.req = "open"], Goroutines)
        \/ a.req = "gone" /\ a.conn = "open" /\ a' = Acked(a) /\ UNCHANGED <<down, unread>>
        \/ /\ a.req # "open" /\ (a.conn = "closed" \/ Fails("refuse"))
           /\ Failed
  /\ AgentOnly /\ UNCHANGED target

\* Kill of the request: the tomb is killed and waited for.
PfStopRequestReceived ==
  /\ PfKind /\ Receives("StopRequest")
  /\ a' = IF a.req = "open" THEN [KillTomb(a) EXCEPT !.input = "killreq"]
          ELSE Acked(a)
  /\ AgentOnly /\ UNCHANGED <<down, unread, target>>

PfRequestKilled ==
  /\ PfKind /\ a.input = "killreq" /\ Dead(a)
  /\ a' = Acked([a EXCEPT !.input = "free", !.req = "gone",
                           !.stopped = TRUE])
  /\ AgentOnly /\ UNCHANGED <<up, down, unread, target>>

\* Kill of the action: first the request, then the connection.
PfStopReceived ==
  /\ PfKind /\ Receives("Stop")
  /\ a' = IF a.req = "open" THEN [KillTomb(a) EXCEPT !.input = "stop"]
          ELSE Acked([a EXCEPT !.conn = IF @ = "open" THEN "closed" ELSE @])
  /\ AgentOnly /\ UNCHANGED <<down, unread, target>>

PfStopped ==
  /\ PfKind /\ a.input = "stop" /\ Dead(a)
  /\ a' = Acked([a EXCEPT !.input = "free", !.conn = "closed"])
  /\ AgentOnly /\ UNCHANGED <<up, down, unread, target>>

PfDying ==
  /\ PfKind /\ a.dc = "run" /\ a.dying /\ StopsForwarding
  /\ a' = IF a.req = "open" THEN [KillTomb(a) EXCEPT !.dc = "killreq"]
          ELSE [a EXCEPT !.dc = "gone", !.conn = IF @ = "open" THEN "closed" ELSE @]
  /\ AgentOnly /\ UNCHANGED <<up, down, target>>

PfKilled ==
  /\ PfKind /\ a.dc = "killreq" /\ Dead(a)
  /\ a' = [a EXCEPT !.dc = "gone", !.conn = "closed"]
  /\ AgentOnly /\ UNCHANGED <<up, down, unread, target>>

\* The connection to the API server is lost.
PfConnBreaks ==
  /\ PfKind /\ Fails("break") /\ a.conn = "open"
  /\ a' = [a EXCEPT !.conn = "closed"]
  /\ target' = [target EXCEPT !.err = a.req # "none"]
  /\ AgentOnly /\ UNCHANGED <<up, down, unread>>

PfConnClosed ==
  /\ PfKind /\ a.conn = "closed" /\ ~a.done
  /\ a' = CloseDone(a)
  /\ AgentOnly /\ UNCHANGED <<up, down, unread, target>>

-----------------------------------------------------------------------------
(* Agent: the goroutines of the request.                                   *)

\* A read in a dying tomb returns once there is something to read.
PfReadable == TargetHas \/ TargetGone \/ a.conn = "closed"

\* The input goroutine waits until this one takes the chunk.
PfWrite ==
  /\ PfKind /\ a.go["writer"] = "run"
  /\ \/ /\ a.input = "hand"
        /\ LET r == [a EXCEPT !.input = "free", !.stdin = <<>>]
           IN IF TargetGone
                THEN a' = Acked(Returns(r, "writer", FALSE)) /\ UNCHANGED target
                ELSE a' = Acked(r) /\ Delivered(a.stdin)
     \/ ~Alive(a) /\ a' = Returns(a, "writer", FALSE) /\ UNCHANGED target
  /\ AgentOnly /\ UNCHANGED <<up, down, unread>>

\* forwardStream of the data stream.  After the end it reads and reports the
\* end again until the tomb is dying; EndRepeats bounds how often.
EndRepeats == 2

PfRemoteRead ==
  /\ PfKind /\ a.go["reader"] = "run"
  /\ \/ Alive(a) /\ FromTarget /\ a' = [a EXCEPT !.go["reader"] = "put"]
     \/ /\ Alive(a) /\ TargetOver /\ ~target.err /\ UNCHANGED target
        /\ a.seq < scene.downs + EndRepeats
        /\ a' = [a EXCEPT !.go["reader"] = "stop"]
     \/ /\ Alive(a) /\ target.err /\ UNCHANGED target
        /\ a' = Returns(a, "reader", TRUE)
     \/ /\ ~Alive(a) /\ PfReadable /\ UNCHANGED target
        /\ a' = Returns(a, "reader", FALSE)
  /\ AgentOnly /\ UNCHANGED <<up, down, unread>>

PfRemoteSend ==
  /\ PfKind /\ a.go["reader"] \in {"put", "stop"}
  /\ Send(IF a.go["reader"] = "put" THEN Smsg("Data", a.seq, <<target.sent>>, TRUE)
          ELSE Smsg("Data", a.seq, <<>>, FALSE))
  /\ a' = [a EXCEPT !.go["reader"] = "run", !.seq = @ + 1]
  /\ AgentOnly /\ UNCHANGED <<up, target>>

\* forwardStream of the error stream: a message if the pod has one, and its
\* end, which kills the tomb.
PfRemoteErrors ==
  /\ PfKind /\ a.go["errs"] = "run"
  /\ \/ Alive(a) /\ target.err /\ Send(Smsg("Error", 0, <<>>, TRUE))
     \/ (TargetGone \/ (~Alive(a) /\ PfReadable)) /\ UNCHANGED <<down, unread>>
  /\ a' = Returns(a, "errs", Alive(a))
  /\ AgentOnly /\ UNCHANGED <<up, target>>

-----------------------------------------------------------------------------
PfNext ==
  \/ PfStart \/ PfReady \/ PfStreamArrives \/ PfPairTimesOut \/ PfEnds
  \/ PfClose \/ PfKill \/ PfReceiveStream \/ PfTake \/ PfTakeKept
  \/ PfForwarded \/ PfRead \/ PfSend \/ PfErrorStream
  \/ PfStartReceived \/ PfDataReceived \/ PfStopRequestReceived
  \/ PfRequestKilled \/ PfStopReceived \/ PfStopped \/ PfDying \/ PfKilled
  \/ PfConnBreaks \/ PfConnClosed \/ PfWrite \/ PfRemoteRead \/ PfRemoteSend
  \/ PfRemoteErrors
=============================================================================
