------------------------------- MODULE DbPlugin -------------------------------
(***************************************************************************)
(* The db plugin: the actions dial (a plain TCP connection) and pwdb (a    *)
(* database connection the agent authenticates), daemon and agent side.    *)
(* On the daemon the reader goroutine reads the local connection and the   *)
(* writer writes to it; on the agent the reader reads the remote one.      *)
(***************************************************************************)
EXTENDS Session

DbKinds == {"dial", "pwdb"}

-----------------------------------------------------------------------------
(* DbDaemonPlugin.StartAction.                                             *)

\* Kill came first: the server gets an error and closes.
DbStartRefused ==
  /\ Kind \in DbKinds /\ d.act = "none" /\ d.killed
  /\ d' = [d EXCEPT !.act = "failed"]
  /\ client' = [client EXCEPT !.shut = TRUE]
  /\ DaemonOnly /\ UNCHANGED <<outbox, up, down>>

DbStarts == d.act = "none" /\ ~d.killed

-----------------------------------------------------------------------------
(* Daemon, dial.                                                           *)

DialStart ==
  /\ Kind = "dial" /\ DbStarts
  /\ Put(Act("Start", <<>>))
  /\ d' = Go([d EXCEPT !.act = "started"], {"reader", "writer"})
  /\ DaemonOnly /\ UNCHANGED <<up, down, client>>

\* Faulty variant: what was read together with the end is not sent.
LocalReadEager ==
  /\ Kind \in DbKinds /\ d.go["reader"] = "run" /\ Alive(d)
  /\ \/ /\ ~client.shut /\ FromClient
        /\ d' = [d EXCEPT !.go["reader"] = IF client.eof THEN "stop" ELSE "put"]
     \/ /\ ClientOver \/ client.shut
        /\ d' = [d EXCEPT !.go["reader"] = "stop"]
        /\ UNCHANGED client
  /\ DaemonOnly /\ UNCHANGED <<outbox, up, down>>

\* lconn.Read returned data, or an error: the client has closed it or the
\* writer has; with a dead tomb the reader returns whatever it read.
LocalRead ==
  /\ Kind \in DbKinds /\ d.go["reader"] = "run" /\ Alive(d)
  /\ \/ /\ ~client.shut /\ FromClient
        /\ d' = [d EXCEPT !.go["reader"] = "put"]
     \/ /\ ClientOver \/ client.shut
        /\ d' = [d EXCEPT !.go["reader"] = "stop"]
        /\ UNCHANGED client
  /\ DaemonOnly /\ UNCHANGED <<outbox, up, down>>

LocalReadDying ==
  /\ Kind \in DbKinds /\ d.go["reader"] = "run" /\ ~Alive(d)
  /\ ClientHas \/ ClientOver \/ client.shut
  /\ d' = CloseDone(Returns(d, "reader", FALSE))
  /\ DaemonOnly /\ UNCHANGED <<outbox, up, down, client>>

\* sendOutputMessage blocks while the outbox is full, dying or not.
LocalInput ==
  /\ Kind \in DbKinds /\ d.go["reader"] = "put"
  /\ Put(Act("Input", <<client.sent>>))
  /\ d' = [d EXCEPT !.go["reader"] = "run"]
  /\ DaemonOnly /\ UNCHANGED <<up, down, client>>

DialStopSent ==
  /\ Kind = "dial" /\ d.go["reader"] = "stop"
  /\ Put(Act("Close", <<>>))
  /\ d' = CloseDone(Returns(d, "reader", FALSE))
  /\ DaemonOnly /\ UNCHANGED <<up, down, client>>

\* Faulty variant: a chunk is written when it comes, in order or not.
DialDueAny(r) == r.buf

\* The writer has something to process, in order.
DialDue(r) == {m \in r.buf : m.seq = r.next}

DialTake ==
  /\ Kind = "dial" /\ d.go["writer"] = "run"
  /\ Alive(d) /\ DialDue(d) = {} /\ d.inq # <<>>
  /\ d' = [d EXCEPT !.inq = Tail(@), !.buf = @ \cup {Head(d.inq)}]
  /\ DaemonOnly /\ UNCHANGED <<outbox, up, down, client>>

\* Faulty variant: the local connection stays open.
WriterReturnsOpen(r, failed) ==
  d' = Returns(r, "writer", failed) /\ UNCHANGED client

\* Faulty variant: the writer too reports that the action is done.
WriterReturnsDone(r, failed) ==
  /\ d' = CloseDone(Returns(r, "writer", failed))
  /\ client' = [client EXCEPT !.shut = TRUE]

\* The writer returns: lconn.Close.
WriterReturns(r, failed) ==
  /\ d' = Returns(r, "writer", failed)
  /\ client' = [client EXCEPT !.shut = TRUE]

\* A stream message in its turn.  A failed write kills the tomb but the loop
\* goes on; More = FALSE is the end; an Error is only logged.
DialStream(m) ==
  LET r == [d EXCEPT !.lost = Unshown(m),
                     !.tmb = IF m.ns # <<>> /\ client.eof THEN "dying" ELSE @]
  IN IF m.more
       THEN /\ d' = [r EXCEPT !.buf = @ \ {m}, !.next = @ + 1]
            /\ client' = Shown(m)
       ELSE WriterReturns([r EXCEPT !.ended = TRUE], FALSE)

DialProcess ==
  /\ Kind = "dial" /\ d.go["writer"] = "run"
  /\ \E m \in DialDue(d) :
       \/ m.t = "Stream" /\ DialStream(m)
       \/ /\ m.t = "Error"
          /\ d' = [d EXCEPT !.buf = @ \ {m}, !.next = @ + 1]
          /\ UNCHANGED client
  /\ DaemonOnly /\ UNCHANGED <<outbox, up, down>>

WriterDying ==
  /\ Kind \in DbKinds /\ d.go["writer"] = "run"
  /\ ~Alive(d) /\ DialDue(d) = {}
  /\ WriterReturns(d, FALSE)
  /\ DaemonOnly /\ UNCHANGED <<outbox, up, down>>

-----------------------------------------------------------------------------
(* Daemon, pwdb: Start waits for the ack of Connect.                       *)

PwdbStart ==
  /\ Kind = "pwdb" /\ DbStarts
  /\ Put(Act("Connect", <<>>))
  /\ d' = [d EXCEPT !.act = "connecting"]
  /\ DaemonOnly /\ UNCHANGED <<up, down, client>>

\* ReceiveMrtap: the acks; all but the first are thrown away.
PwdbReceiveMrtap ==
  /\ Kind = "pwdb" /\ d.dc = "run"
  /\ \E m \in Arrived({"Ack"}) : Takes(m)
  /\ d' = IF d.act = "connecting" /\ Alive(d)
            THEN Go([d EXCEPT !.act = "started"], {"reader", "writer"}) ELSE d
  /\ DaemonOnly /\ UNCHANGED <<outbox, up, client>>

\* Five seconds without an ack, or the tomb is dying: the server closes.
PwdbStartFails ==
  /\ Kind = "pwdb" /\ d.act = "connecting" /\ (~Alive(d) \/ Fails("slow"))
  /\ d' = [d EXCEPT !.act = "failed"]
  /\ client' = [client EXCEPT !.shut = TRUE]
  /\ DaemonOnly /\ UNCHANGED <<outbox, up, down>>

\* readFromConnection returns the error, which kills the tomb.
PwdbCloseSent ==
  /\ Kind = "pwdb" /\ d.go["reader"] = "stop"
  /\ Put(Act("Close", <<>>))
  /\ d' = CloseDone(Returns(d, "reader", TRUE))
  /\ DaemonOnly /\ UNCHANGED <<up, down, client>>

\* writeToConnection returns on the end, an error, or a failed write.
PwdbWrite(m) ==
  CASE m.t = "Stream" /\ m.more /\ ~client.eof ->
         d' = [d EXCEPT !.inq = Tail(@)]
           /\ client' = Shown(m)
    [] m.t = "Stream" /\ ~m.more -> WriterReturns([d EXCEPT !.ended = TRUE], TRUE)
    [] OTHER -> WriterReturns([d EXCEPT !.lost = TRUE], TRUE)

PwdbProcess ==
  /\ Kind = "pwdb" /\ d.go["writer"] = "run" /\ Alive(d) /\ d.inq # <<>>
  /\ PwdbWrite(Head(d.inq))
  /\ DaemonOnly /\ UNCHANGED <<outbox, up, down>>

-----------------------------------------------------------------------------
(* Agent.                                                                  *)

Opened == Go([a EXCEPT !.conn = "open"], {"reader"})

\* dial.start: dial the remote address, then read from it.
DialStartReceived ==
  /\ Kind = "dial" /\ Receives("Start")
  /\ \/ a' = Acked(Opened) /\ UNCHANGED <<down, unread>>
     \/ Fails("refuse") /\ Failed
  /\ AgentOnly /\ UNCHANGED target

\* pwdb.start: gcpDial, rdsDial, or a key shard and connect; then the ack
\* the daemon waits for.
PwdbConnectReceived ==
  /\ Kind = "pwdb" /\ Receives("Connect")
  /\ \/ /\ a' = Acked(Opened)
        /\ down' = IF Forwards(a) THEN Append(down, Smsg("Ack", 0, <<>>, FALSE))
                                  ELSE down
        /\ UNCHANGED unread
     \/ Fails("refuse") /\ Failed
  /\ AgentOnly /\ UNCHANGED target

\* Faulty variant: the connection is left open.
DbKilledOpen(r) == [r EXCEPT !.tmb = "dying"]

\* Kill of both actions.  The connection is closed so that the reader
\* returns, and the caller waits for it.
DbKilled(r) == [r EXCEPT !.tmb = "dying",
                         !.conn = IF @ = "open" THEN "closed" ELSE @]

KillByInput(r) == IF Alive(a) THEN [r EXCEPT !.input = "kill"] ELSE Acked(a)

\* A write to a target that is gone may fail, or be lost.
DialInputReceived ==
  /\ Kind = "dial" /\ Receives("Input")
  /\ \/ /\ a.conn = "open" /\ ~TargetGone
        /\ Delivered(Head(up).ns)
        /\ a' = Acked(a)
     \/ /\ a.conn # "open" \/ TargetGone
        /\ a' \in {Acked(a), KillByInput(DbKilled(a))}
        /\ UNCHANGED target
  /\ AgentOnly /\ UNCHANGED <<down, unread>>

\* writeToConnection returns the error instead.
PwdbInputReceived ==
  /\ Kind = "pwdb" /\ Receives("Input")
  /\ \/ /\ a.conn = "open" /\ ~TargetGone
        /\ Delivered(Head(up).ns)
        /\ a' = Acked(a) /\ UNCHANGED <<down, unread>>
     \/ /\ a.conn # "open" \/ TargetGone
        /\ \/ a' = Acked(a) /\ UNCHANGED <<down, unread>>
           \/ Alive(a) /\ Failed
        /\ UNCHANGED target
  /\ AgentOnly

\* DialStop, pwdb.Close.
DbCloseReceived ==
  /\ Kind \in DbKinds /\ Receives("Close")
  /\ a' = KillByInput(DbKilled([a EXCEPT !.stopped = TRUE]))
  /\ AgentOnly /\ UNCHANGED <<down, unread, target>>

\* The reader: a chunk, the end of the stream, or an error.
RemoteRead ==
  /\ Kind \in DbKinds /\ a.go["reader"] = "run" /\ Alive(a)
  /\ \/ /\ FromTarget
        /\ a' = [a EXCEPT !.go["reader"] = "put"]
     \/ /\ TargetOver
        /\ a' = [a EXCEPT !.go["reader"] = "stop"]
        /\ UNCHANGED target
  /\ AgentOnly /\ UNCHANGED <<up, down, unread>>

RemoteStream ==
  /\ Kind \in DbKinds /\ a.go["reader"] = "put"
  /\ Send(Smsg("Stream", a.seq, <<target.sent>>, TRUE))
  /\ a' = [a EXCEPT !.go["reader"] = "run", !.seq = @ + 1]
  /\ AgentOnly /\ UNCHANGED <<up, target>>

\* Faulty variant: the end of the stream has no place among the chunks.
RemoteEndUnnumbered ==
  /\ Kind \in DbKinds /\ a.go["reader"] = "stop"
  /\ Send(Smsg(IF target.err THEN "Error" ELSE "Stream", 0, <<>>, FALSE))
  /\ a' = CloseDone(Returns(a, "reader", TRUE))
  /\ AgentOnly /\ UNCHANGED <<up, target>>

RemoteEnd ==
  /\ Kind \in DbKinds /\ a.go["reader"] = "stop"
  /\ Send(Smsg(IF target.err THEN "Error" ELSE "Stream", a.seq, <<>>, FALSE))
  /\ a' = CloseDone(Returns(a, "reader", TRUE))
  /\ AgentOnly /\ UNCHANGED <<up, target>>

\* A tomb killed before the reader was started leaves it the connection.
RemoteReadDying ==
  /\ Kind \in DbKinds /\ a.go["reader"] = "run" /\ ~Alive(a)
  /\ a.conn = "closed" \/ TargetHas \/ TargetOver
  /\ a' = CloseDone(Returns(a, "reader", FALSE))
  /\ AgentOnly /\ UNCHANGED <<up, down, unread, target>>

-----------------------------------------------------------------------------
\* Kill of both actions by the data channel.
DbDying ==
  /\ Kind \in DbKinds
  /\ AgentDying(IF Alive(a) THEN DbKilled(a) ELSE a, Alive(a))

DbNext ==
  \/ DbStartRefused \/ LocalRead \/ LocalReadDying \/ LocalInput \/ WriterDying
  \/ DialStart \/ DialStopSent \/ DialTake \/ DialProcess
  \/ PwdbStart \/ PwdbReceiveMrtap \/ PwdbStartFails \/ PwdbCloseSent
  \/ PwdbProcess
  \/ DialStartReceived \/ DialInputReceived \/ DbCloseReceived
  \/ PwdbConnectReceived \/ PwdbInputReceived
  \/ RemoteRead \/ RemoteStream \/ RemoteEnd \/ RemoteReadDying \/ DbDying
=============================================================================
