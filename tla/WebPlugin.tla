------------------------------- MODULE WebPlugin -------------------------------
(***************************************************************************)
(* The web plugin: webdial carries one http request and its response,      *)
(* webws a websocket.  On the daemon the action runs in the http handler   *)
(* (handler here), which is not one of the tomb's; net/http recovers what  *)
(* panics in it.                                                           *)
(***************************************************************************)
EXTENDS Session

WebKinds == {"webdial", "webws"}

\* WebDaemonPlugin.StartAction.
WebStarts == d.act = "none" /\ ~d.killed

WebStartRefused ==
  /\ Kind \in WebKinds /\ d.act = "none" /\ d.killed
  /\ d' = [d EXCEPT !.act = "failed"]
  /\ client' = [client EXCEPT !.shut = TRUE]
  /\ DaemonOnly /\ UNCHANGED <<outbox, up, down>>

\* The handler returns: doneChan is closed and the response is over.
HandlerReturns(r) ==
  /\ d' = [r EXCEPT !.handler = "end", !.done = TRUE]
  /\ client' = [client EXCEPT !.shut = TRUE]

-----------------------------------------------------------------------------
(* Daemon, webdial.                                                        *)

WebDialStart ==
  /\ Kind = "webdial" /\ WebStarts
  /\ Put(Act("Start", <<>>))
  /\ d' = [d EXCEPT !.act = "started", !.handler = "body"]
  /\ DaemonOnly /\ UNCHANGED <<up, down, client>>

\* sendRequestChunks: the body, then a last chunk without More; a body that
\* breaks off is followed by an interrupt.
WebDialBody ==
  /\ Kind = "webdial" /\ d.handler = "body"
  /\ \/ FromClient /\ Put(Act("Input", <<client.sent + 1>>)) /\ UNCHANGED d
     \/ /\ ~ClientHas /\ Put(Act("Last", <<>>))
        /\ d' = [d EXCEPT !.handler = "run"] /\ UNCHANGED client
     \/ /\ ClientHas /\ client.eof /\ Put(Act("Interrupt", <<>>))
        /\ d' = [d EXCEPT !.handler = "run"] /\ UNCHANGED client
  /\ DaemonOnly /\ UNCHANGED <<up, down>>

\* The request is cancelled while the handler waits for the response.
WebDialCancelled ==
  /\ Kind = "webdial" /\ d.handler = "run" /\ client.eof
  /\ Put(Act("Interrupt", <<>>))
  /\ HandlerReturns(d)
  /\ DaemonOnly /\ UNCHANGED <<up, down>>

WebDialDying ==
  /\ Kind = "webdial" /\ d.handler = "run" /\ ~Alive(d)
  /\ HandlerReturns(d)
  /\ DaemonOnly /\ UNCHANGED <<outbox, up, down>>

WebDialDue == {m \in d.buf : m.seq = d.next}

\* Anything that is not a part of the response is unhandled.
WebDialTake ==
  /\ Kind = "webdial" /\ d.handler = "run"
  /\ d.inq # <<>> /\ WebDialDue = {}
  /\ d' = [d EXCEPT !.inq = Tail(@),
                    !.buf = IF Head(d.inq).t = "Stream" THEN @ \cup {Head(d.inq)}
                            ELSE @]
  /\ DaemonOnly /\ UNCHANGED <<outbox, up, down, client>>

WebDialProcess ==
  /\ Kind = "webdial" /\ d.handler = "run"
  /\ \E m \in WebDialDue :
       LET r == [d EXCEPT !.lost = Unshown(m), !.next = @ + 1, !.buf = @ \ {m}]
       IN IF m.more THEN d' = r /\ client' = Shown(m)
          ELSE /\ d' = [r EXCEPT !.handler = "end", !.done = TRUE, !.ended = TRUE]
               /\ client' = [Shown(m) EXCEPT !.shut = TRUE]
  /\ DaemonOnly /\ UNCHANGED <<outbox, up, down>>

-----------------------------------------------------------------------------
(* Daemon, webws.                                                          *)

\* The connection is upgraded, or that fails and the handler returns.
WebWsStart ==
  /\ Kind = "webws" /\ WebStarts
  /\ Put(Act("Start", <<>>))
  /\ \/ /\ d' = [Go([d EXCEPT !.act = "started"], {"writer"})
                   EXCEPT !.handler = "run"]
        /\ UNCHANGED client
     \/ Fails("refuse") /\ HandlerReturns([d EXCEPT !.act = "started"])
  /\ DaemonOnly /\ UNCHANGED <<up, down>>

\* The handler's loop: conn.ReadMessage.
WebWsRead ==
  /\ Kind = "webws" /\ d.handler = "run"
  /\ \/ /\ Alive(d) /\ FromClient /\ ~client.shut
        /\ d' = [d EXCEPT !.handler = "put"]
     \/ /\ Alive(d) /\ (ClientOver \/ client.shut)
        /\ d' = [d EXCEPT !.handler = "stop"] /\ UNCHANGED client
     \/ /\ ~Alive(d) /\ (ClientHas \/ ClientOver \/ client.shut)
        /\ HandlerReturns(d)
  /\ DaemonOnly /\ UNCHANGED <<outbox, up, down>>

WebWsSend ==
  /\ Kind = "webws"
  /\ \/ /\ d.handler = "put" /\ Put(Act("Input", <<client.sent>>))
        /\ d' = [d EXCEPT !.handler = "run"] /\ UNCHANGED client
     \/ /\ d.handler = "stop" /\ Put(Act("Stop", <<>>))
        /\ HandlerReturns(d)
  /\ DaemonOnly /\ UNCHANGED <<up, down>>

\* The tomb's goroutine: data is written, Stop ends it, which closes doneChan
\* (again, if the handler has returned) and the connection.  It waits for
\* its tomb to be dead, never for it to be dying.
WebWsWrite ==
  /\ Kind = "webws" /\ d.go["writer"] = "run" /\ d.inq # <<>>
  /\ LET m == Head(d.inq)
         r == [d EXCEPT !.inq = Tail(@)]
     IN \/ /\ m.t = "Data" /\ client' = Shown(m)
           /\ d' = [r EXCEPT !.lost = Unshown(m)]
        \/ /\ m.t = "Stop" /\ client' = [client EXCEPT !.shut = TRUE]
           /\ d' = CloseDone(Returns([r EXCEPT !.ended = TRUE], "writer", FALSE))
  /\ DaemonOnly /\ UNCHANGED <<outbox, up, down>>

-----------------------------------------------------------------------------
(* Agent, webdial: the chunks of the body are kept until the last one.     *)

WebDialStartReceived ==
  /\ Kind = "webdial" /\ Receives("Start")
  /\ a' = Acked(a)
  /\ AgentOnly /\ UNCHANGED <<down, unread, target>>

WebDialInputReceived ==
  /\ Kind = "webdial" /\ Receives("Input")
  /\ a' = Acked([a EXCEPT !.stdin = @ \o Head(up).ns])
  /\ AgentOnly /\ UNCHANGED <<down, unread, target>>

\* handleNewHttpRequest: a request that fails is an error for the daemon and
\* a failed action.
WebDialLastReceived ==
  /\ Kind = "webdial" /\ Receives("Last")
  /\ \/ /\ Delivered(a.stdin) /\ UNCHANGED <<down, unread>>
        /\ a' = Acked(Go([a EXCEPT !.conn = "open", !.stopped = TRUE], {"reader"}))
     \/ /\ Fails("refuse") /\ UNCHANGED target
        /\ a' = [a EXCEPT !.broken = TRUE]
        /\ SendAll(<<Smsg("Error", 0, <<>>, FALSE), Fail>>)
  /\ AgentOnly

\* interruptChan is nil: the input goroutine blocks for ever.
WebDialInterruptReceived ==
  /\ Kind = "webdial" /\ Receives("Interrupt")
  /\ a' = [a EXCEPT !.input = "stuck"]
  /\ AgentOnly /\ UNCHANGED <<down, unread, target>>

\* The reader reads on, unless the tomb is dying.  Nothing interrupts a read.
WebDialReads ==
  /\ Kind = "webdial" /\ a.go["reader"] = "run"
  /\ a' = IF Alive(a) THEN [a EXCEPT !.go["reader"] = "read"]
          ELSE CloseDone(Returns(a, "reader", FALSE))
  /\ AgentOnly /\ UNCHANGED <<up, down, unread, target>>

\* What was read: chunks, the last of them without More.  A body that breaks
\* off is reported again and again, until somebody kills the action.
WebDialResponse ==
  /\ Kind = "webdial" /\ a.go["reader"] = "read"
  /\ \/ /\ FromTarget
        /\ LET last == target.sent + 1 = scene.downs
           IN /\ Send(Smsg("Stream", a.seq, <<target.sent + 1>>, ~last))
              /\ a' = [(IF last THEN CloseDone(Returns(a, "reader", FALSE))
                         ELSE [a EXCEPT !.go["reader"] = "run"]) EXCEPT !.seq = @ + 1]
     \/ /\ target.err /\ UNCHANGED target
        /\ a.seq <= scene.downs                    \* bounds the repetition
        /\ SendAll(<<Smsg("Error", a.seq, <<>>, FALSE),
                     Smsg("Stream", a.seq, <<>>, TRUE)>>)
        /\ a' = [a EXCEPT !.go["reader"] = "run", !.seq = @ + 1]
  /\ AgentOnly /\ UNCHANGED up

-----------------------------------------------------------------------------
(* Agent, webws.                                                           *)

\* A target that cannot be dialled is a Stop for the daemon, not an error.
WebWsStartReceived ==
  /\ Kind = "webws" /\ Receives("Start")
  /\ \/ a' = Acked(Go([a EXCEPT !.conn = "open"], {"reader"})) /\ UNCHANGED <<down, unread>>
     \/ Fails("refuse") /\ a' = Acked(a) /\ Send(Smsg("Stop", 0, <<>>, FALSE))
  /\ AgentOnly /\ UNCHANGED target

\* dataInWebsocket: without a websocket, a nil pointer.
WebWsInputReceived ==
  /\ Kind = "webws" /\ Receives("Input")
  /\ \/ /\ a.conn = "open" /\ ~TargetGone
        /\ Delivered(Head(up).ns) /\ a' = Acked(a) /\ UNCHANGED <<down, unread>>
     \/ /\ a.conn = "none" /\ UNCHANGED <<down, unread, target>>
        /\ a' = [a EXCEPT !.panic = TRUE]
     \/ /\ a.conn = "closed" \/ TargetGone
        /\ Failed /\ UNCHANGED target
  /\ AgentOnly

WebWsStopReceived ==
  /\ Kind = "webws" /\ Receives("Stop")
  /\ a' = Acked([a EXCEPT !.stopped = TRUE,
                          !.conn = IF @ = "open" THEN "closed" ELSE @])
  /\ AgentOnly /\ UNCHANGED <<down, unread, target>>

WebWsRemoteRead ==
  /\ Kind = "webws" /\ a.go["reader"] = "run"
  /\ \/ /\ Alive(a) /\ a.conn = "open" /\ FromTarget
        /\ Send(Smsg("Data", a.seq, <<target.sent + 1>>, TRUE))
        /\ a' = [a EXCEPT !.seq = @ + 1]
     \/ /\ Alive(a) /\ (TargetOver \/ a.conn = "closed") /\ UNCHANGED target
        /\ Send(Smsg("Stop", a.seq, <<>>, FALSE))
        /\ a' = CloseDone(Returns(a, "reader", FALSE))
     \/ /\ ~Alive(a) /\ (TargetHas \/ TargetOver \/ a.conn = "closed")
        /\ a' = CloseDone(Returns(a, "reader", FALSE)) /\ UNCHANGED <<down, unread, target>>
  /\ AgentOnly /\ UNCHANGED up

\* Kill of both actions waits for the goroutine, which a silent target keeps
\* and which may never have been started.
WebAgentDying == Kind \in WebKinds /\ AgentDying(KillTomb(a), TRUE)

-----------------------------------------------------------------------------
WebNext ==
  \/ WebStartRefused
  \/ WebDialStart \/ WebDialBody \/ WebDialCancelled \/ WebDialDying
  \/ WebDialTake \/ WebDialProcess
  \/ WebWsStart \/ WebWsRead \/ WebWsSend \/ WebWsWrite
  \/ WebDialStartReceived \/ WebDialInputReceived \/ WebDialLastReceived
  \/ WebDialInterruptReceived \/ WebDialReads \/ WebDialResponse
  \/ WebWsStartReceived \/ WebWsInputReceived \/ WebWsStopReceived
  \/ WebWsRemoteRead \/ WebAgentDying
=============================================================================
