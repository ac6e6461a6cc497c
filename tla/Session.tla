-------------------------------- MODULE Session --------------------------------
(***************************************************************************)
(* The frame every plugin runs in: one session between a local client and  *)
(* a remote target, carried by the daemon's plugin and data channel on one *)
(* side and the agent's on the other.                                      *)
(*                                                                         *)
(* client <-> daemon action -> outbox -> up   -> agent action <-> target   *)
(*            daemon action <- inq <- held <- down <- agent action         *)
(*                                                                         *)
(* up is the ordered pipe that module MrtapChannel implements, down the    *)
(* messages of the agent on their way to the daemon.  What differs between *)
(* the plugins (their goroutines, what they make of a message, how they    *)
(* are killed) is in DbPlugin, SshPlugin, ShellPlugin, WebPlugin,          *)
(* KubePlugin and KubePortForward.                                         *)
(* Chunks of data are numbered from 1 in each direction.                   *)
(***************************************************************************)
EXTENDS Naturals, Sequences, SequencesExt

CONSTANTS
  Scenes,     \* the sessions considered; see the fields of Scene below
  OutboxCap,  \* capacity of the plugin's outbox, and of agent stdin channels
  PipeCap,    \* Data messages MrTAP lets the daemon have unacknowledged
  StreamCap,  \* stream messages that fit between the two actions
  InCap       \* capacity of a daemon action's streamInputChan

VARIABLES
  scene,      \* the session that runs; never changes
  outbox,     \* the daemon plugin's outbox
  up,         \* action messages on their way to the agent's plugin
  down,       \* messages of the agent on their way to the daemon
  unread,     \* stream messages of the agent that nobody forwards any more
  d,          \* the daemon's plugin, action and data channel
  a,          \* the agent's plugin, action and data channel
  client,     \* the local connection, terminal or ssh process
  target      \* the remote connection, shell or http server

vars == <<scene, outbox, up, down, unread, d, a, client, target>>

\* kind: the plugin's action; ups, downs: chunks the client and the target
\* have to send; reorder: stream messages may overtake each other;
\* failures: what the environment may do besides; "close" is a call of Close.
Failures == {"refuse", "break", "slow", "close"}

SceneOK(s) ==
  /\ s.ups \in Nat /\ s.downs \in Nat /\ s.reorder \in BOOLEAN
  /\ s.failures \subseteq Failures

Kind == scene.kind
Fails(f) == f \in scene.failures

Goroutines == {"reader", "writer", "errs"}

-----------------------------------------------------------------------------
(* tomb.v2, the library both sides use for their goroutines: tmb is "new"  *)
(* until the first Go and "dying" once killed; the last goroutine to       *)
(* return, and any that returns an error, kills it.  Wait blocks until it  *)
(* is dead, which a tomb without a goroutine never is.                     *)

Alive(r) == r.tmb # "dying"
Ended(r) == \A g \in Goroutines : r.go[g] \in {"off", "end"}
Dead(r) == ~Alive(r) /\ Ended(r) /\ \E g \in Goroutines : r.go[g] = "end"

Go(r, gs) ==
  [r EXCEPT !.tmb = IF @ = "new" THEN "alive" ELSE @,
            !.go = [g \in Goroutines |-> IF g \in gs THEN "run" ELSE @[g]]]

Returns(r, g, failed) ==
  LET s == [r EXCEPT !.go[g] = "end"]
  IN [s EXCEPT !.tmb = IF failed \/ Ended(s) THEN "dying" ELSE @]

KillTomb(r) == [r EXCEPT !.tmb = "dying"]

\* close(doneChan): closing it twice panics and takes the process down.
CloseDone(r) == [r EXCEPT !.done = TRUE, !.panic = @ \/ r.done]

-----------------------------------------------------------------------------
(* Messages.                                                               *)

Act(t, ns) == [t |-> t, ns |-> ns]
Smsg(t, seq, ns, more) == [t |-> t, seq |-> seq, ns |-> ns, more |-> more]
Fail == Smsg("Fail", 0, <<>>, FALSE)
NoMsg == Smsg("none", 0, <<>>, FALSE)

-----------------------------------------------------------------------------
DaemonInit(early) ==
  [act |-> "none",         \* the plugin's action: "none", "started", "failed"
   killed |-> FALSE,       \* Kill was called on the plugin
   dying |-> FALSE,        \* the data channel's tomb is dying
   dc |-> IF early THEN "none" ELSE "run",   \* its main goroutine
   held |-> NoMsg,         \* the stream message that it is handing over
   tmb |-> "new", go |-> [g \in Goroutines |-> "off"],
   handler |-> "off",      \* a goroutine that is not the tomb's
   done |-> FALSE, panic |-> FALSE,
   inq |-> <<>>, buf |-> {},   \* streamInputChan, streamMessages
   next |-> 0,             \* expectedSequenceNumber; opaque: host keys taken;
                           \* kubeexec: terminal sizes sent
   ended |-> FALSE,        \* the action has seen the end of the stream
   lost |-> FALSE,         \* a chunk for the client could not be written
   ready |-> FALSE,        \* transparent: channel open; shell: connected
   stopped |-> FALSE,      \* kubeexec: the agent has been told to stop
   fwd |-> "off", pair |-> {},  \* portforward: forwarder, streams of kubectl
   keys |-> <<>>,          \* shell: keypresses not sent yet
   replayed |-> FALSE]     \* shell: the output before the attach was shown

AgentInit(dialed, ring) ==
  [dying |-> FALSE, dc |-> "run",
   input |-> "free",       \* the data channel's input goroutine
   tmb |-> "new", go |-> [g \in Goroutines |-> "off"],
   done |-> FALSE, panic |-> FALSE,
   broken |-> FALSE,       \* an action failed: MrTAP refuses what follows
   unacked |-> FALSE,      \* an action was taken whose ack is not sent
   conn |-> IF dialed THEN "open" ELSE "none",  \* to the target
   seq |-> 0,              \* stream messages sent so far
   stdin |-> <<>>,         \* stdInChan, requestBody
   req |-> "none",         \* portforward: the request in requestMap
   ring |-> ring,          \* shell: the ring buffer of recent output
   stopped |-> FALSE]      \* the client's close message has been taken

SessionInit ==
  /\ scene \in Scenes
  /\ outbox = <<>> /\ up = <<>> /\ down = <<>> /\ unread = 0
  /\ client = [sent |-> 0, got |-> <<>>, eof |-> FALSE, shut |-> FALSE]

NewTarget == [sent |-> 0, got |-> <<>>, eof |-> FALSE, err |-> FALSE]

DaemonOnly == UNCHANGED <<scene, unread, a, target>> /\ ~d.panic
AgentOnly == UNCHANGED <<scene, outbox, d, client>> /\ ~a.panic

-----------------------------------------------------------------------------
(* The environment: the client and the target close once they have sent    *)
(* all they have; what they sent may not have been read yet.               *)

ClientEnds ==
  /\ ~client.eof
  /\ client' = [client EXCEPT !.eof = TRUE]
  /\ UNCHANGED <<scene, outbox, up, down, unread, d, a, target>>

\* The target closes, or its connection breaks; the session of a transparent
\* ssh closes when its command, run with Exec, has ended.
TargetEnds ==
  /\ a.conn = "open" /\ ~target.eof /\ ~target.err
  /\ Kind = "transparent" => a.seq = 1
  /\ Kind = "portforward" => a.req # "none"
  /\ \/ target' = [target EXCEPT !.eof = TRUE]
     \/ Fails("break") /\ target' = [target EXCEPT !.err = TRUE]
  /\ UNCHANGED <<scene, outbox, up, down, unread, d, a, client>>

TargetGone == target.eof \/ target.err

\* What a read finds: a chunk, or that there will be none.
ClientHas == client.sent < scene.ups
ClientOver == client.eof /\ client.sent = scene.ups
TargetHas == target.sent < scene.downs /\ ~target.err
TargetOver == target.err \/ (target.eof /\ target.sent = scene.downs)

\* A chunk is read from the client, from the target.
FromClient == ClientHas /\ client' = [client EXCEPT !.sent = @ + 1]
FromTarget == TargetHas /\ target' = [target EXCEPT !.sent = @ + 1]

\* A chunk is written to the client, which fails once it has closed.
Shown(m) == [client EXCEPT !.got = IF client.eof THEN @ ELSE @ \o m.ns]
Unshown(m) == d.lost \/ (m.ns # <<>> /\ client.eof)

\* A chunk is written to the target.
Delivered(ns) == target' = [target EXCEPT !.got = @ \o ns]

-----------------------------------------------------------------------------
(* The daemon's data channel.                                              *)

\* outputChan <- and streamOutputChan <- block while the channel is full.
Put(m) == Len(outbox) < OutboxCap /\ outbox' = Append(outbox, m)

\* zapPluginOutput and sendMrtap, until the data channel's tomb is dying.
Zap ==
  /\ ~d.dying /\ d.dc # "gone"
  /\ outbox # <<>> /\ Len(up) < PipeCap
  /\ up' = Append(up, Head(outbox)) /\ outbox' = Tail(outbox)
  /\ DaemonOnly /\ UNCHANGED <<down, d, client>>

\* Close(reason): a server that shuts down or a connection that is lost.
Close ==
  /\ Fails("close") /\ ~d.dying /\ d.dc # "gone"
  /\ d' = [d EXCEPT !.dying = TRUE]
  /\ DaemonOnly /\ UNCHANGED <<outbox, up, down, client>>

\* The main goroutine picks up message m.
Takes(m) ==
  \E i \in DOMAIN down : /\ scene.reorder \/ i = 1
                         /\ m = down[i] /\ down' = RemoveAt(down, i)

Arrived(types) == {m \in Range(down) : m.t \in types}

\* handleError: an error that MrTAP cannot recover from is fatal.
ReceiveError ==
  /\ d.dc = "run"
  /\ \E m \in Arrived({"Fail"}) : Takes(m)
  /\ d' = [d EXCEPT !.dying = TRUE]
  /\ DaemonOnly /\ UNCHANGED <<outbox, up, client>>

\* handleStream for the actions that queue: ReceiveStream blocks the main
\* goroutine while streamInputChan is full; before StartAction it ignores.
ReceiveStream(kinds, types) ==
  /\ Kind \in kinds /\ d.dc = "run"
  /\ \E m \in Arrived(types) :
       /\ Takes(m)
       /\ d' = IF d.act = "none" THEN d ELSE [d EXCEPT !.dc = "push", !.held = m]
  /\ DaemonOnly /\ UNCHANGED <<outbox, up, client>>

PushStream ==
  /\ d.dc = "push" /\ Len(d.inq) < InCap
  /\ d' = [d EXCEPT !.dc = "run", !.held = NoMsg, !.inq = Append(@, d.held)]
  /\ DaemonOnly /\ UNCHANGED <<outbox, up, down, client>>

\* A message for a data channel the daemon does not have, yet or any more.
Undelivered ==
  /\ d.dc \in {"none", "gone"} /\ down # <<>>
  /\ down' = Tail(down)
  /\ DaemonOnly /\ UNCHANGED <<outbox, up, d, client>>

\* Dying: plugin.Kill, which for most actions kills the tomb and waits.
KillWaiting(kinds) ==
  /\ Kind \in kinds /\ d.dc = "run" /\ d.dying
  /\ d' = IF d.act # "none" /\ Alive(d)
            THEN [KillTomb(d) EXCEPT !.killed = TRUE, !.dc = "kill"]
            ELSE [d EXCEPT !.killed = TRUE, !.dc = "gone"]
  /\ DaemonOnly /\ UNCHANGED <<outbox, up, down, client>>

KillReturns ==
  /\ d.dc = "kill" /\ Dead(d)
  /\ d' = [d EXCEPT !.dc = "gone"]
  /\ DaemonOnly /\ UNCHANGED <<outbox, up, down, client>>

\* The plugin is done: return, for some plugins after the messages that
\* remain (waitForRemainingMessages).
PluginDone(flushes) ==
  /\ d.dc = "run" /\ d.done
  /\ d' = [d EXCEPT !.dc = IF flushes THEN "drain" ELSE "gone"]
  /\ DaemonOnly /\ UNCHANGED <<outbox, up, down, client>>

\* Acks are processed, streams are thrown away: the plugin is dead.  (For an
\* ack with the response to a restapi request see KubePlugin.)
Drain ==
  /\ d.dc = "drain"
  /\ \E m \in Range(down) : m.t # "Reply" /\ Takes(m)
  /\ DaemonOnly /\ UNCHANGED <<outbox, up, d, client>>

\* Everything was acknowledged, or ten seconds have passed.
Drained ==
  /\ d.dc = "drain"
  /\ \/ outbox = <<>> /\ up = <<>> /\ ~a.unacked
     \/ d.dying \/ a.unacked \/ a.broken \/ a.panic \/ a.input # "free" \/ Fails("slow")
  /\ d' = [d EXCEPT !.dc = "gone"]
  /\ DaemonOnly /\ UNCHANGED <<outbox, up, down, client>>

-----------------------------------------------------------------------------
(* The agent's data channel.                                               *)

Forwards(r) == r.dc \in {"run", "flush"}

\* streamOutputChan <-, which blocks while the channel is full.  What the data
\* channel no longer forwards stays in it.
Send(m) ==
  \/ /\ Forwards(a) /\ Len(down) < StreamCap
     /\ down' = Append(down, m) /\ UNCHANGED unread
  \/ /\ ~Forwards(a) /\ unread < StreamCap
     /\ unread' = unread + 1 /\ UNCHANGED down

SendAll(ms) ==
  \/ /\ Forwards(a) /\ Len(down) + Len(ms) <= StreamCap
     /\ down' = down \o ms /\ UNCHANGED unread
  \/ /\ ~Forwards(a) /\ unread + Len(ms) <= StreamCap
     /\ unread' = unread + Len(ms) /\ UNCHANGED down

\* The input goroutine takes the next action message, of type t.
Receives(t) ==
  /\ a.input = "free" /\ a.dc # "gone" /\ ~a.broken
  /\ up # <<>> /\ Head(up).t = t
  /\ up' = Tail(up)

\* Receive returned: without an error an ack is built and sent.
Acked(r) == [r EXCEPT !.unacked = @ \/ ~Forwards(r)]
Failed == /\ a' = [a EXCEPT !.broken = TRUE]
          /\ down' = IF Forwards(a) THEN Append(down, Fail) ELSE down
          /\ UNCHANGED unread

\* After a failed action the hash chain does not match any more.
ReceiveRefused ==
  /\ a.broken /\ a.input = "free" /\ a.dc # "gone" /\ up # <<>>
  /\ up' = Tail(up)
  /\ AgentOnly /\ UNCHANGED <<down, unread, a, target>>

\* CloseDataChannel: the daemon's data channel is gone.
AgentClose ==
  /\ d.dc = "gone" /\ ~a.dying
  /\ a' = [a EXCEPT !.dying = TRUE]
  /\ AgentOnly /\ UNCHANGED <<up, down, unread, target>>

\* The goroutine that forwards returns when the data channel is dying: of what
\* is on its way, some may still be in streamOutputChan.
StopsForwarding == unread' \in 0..Len(down)

\* Dying: plugin.Kill; killed is what the kind's Kill makes of the action.
AgentDying(killed, waits) ==
  /\ a.dc = "run" /\ a.dying /\ StopsForwarding
  /\ a' = [killed EXCEPT !.dc = IF waits THEN "kill" ELSE "gone"]
  /\ AgentOnly /\ UNCHANGED <<up, down, target>>

AgentKilled ==
  /\ a.dc = "kill" /\ Dead(a)
  /\ a' = [a EXCEPT !.dc = "gone"]
  /\ AgentOnly /\ UNCHANGED <<up, down, unread, target>>

\* The input goroutine has called Kill and waits.
InputKilled ==
  /\ a.input = "kill" /\ Dead(a)
  /\ a' = Acked([a EXCEPT !.input = "free"])
  /\ AgentOnly /\ UNCHANGED <<up, down, unread, target>>

\* plugin.Done: flushAllOutputChannelMessages until nothing comes, then the
\* main goroutine is gone while the input goroutine goes on.
AgentPluginDone ==
  /\ \/ a.dc = "run" /\ a.done /\ a' = [a EXCEPT !.dc = "flush"]
     \/ a.dc = "flush" /\ a' = [a EXCEPT !.dc = "mute"]
     \/ a.dc = "mute" /\ a.dying /\ a' = [a EXCEPT !.dc = "gone"]
  /\ AgentOnly /\ UNCHANGED <<up, down, unread, target>>
=============================================================================
