------------------------------- MODULE SignalR -------------------------------
(***************************************************************************)
(* The messenger under every connection: the SignalR client                *)
(* (bzerolib/connection/messenger/signalr) on its websocket                *)
(* (bzerolib/connection/transporter/websocket).  Two goroutines run under  *)
(* the client's tomb: the sender, which serves the unbuffered sendQueue    *)
(* and pings, and the reader, which unwraps what the websocket receives.   *)
(* Send is called by one goroutine, that of the connection above.          *)
(***************************************************************************)
EXTENDS Naturals, Sequences

CONSTANT InboundCap   \* capacity of the inbound channel

ASSUME InboundAssumption == InboundCap \in Nat \ {0}

VARIABLES
  ws,          \* the websocket: "none" before the first dial, "up", "dead"
  tomb,        \* "fresh": no goroutine yet; "zombie": killed while fresh, so
               \* that it never dies; "alive"; "dying"; "dead"
  reason,      \* Err(): "none", "lost", "normal", "closed"
  sender,      \* "none", "starting", "idle", "busy"
  reader,      \* "none", "loop", "endgame", "full": blocked on inbound
  held,        \* the message a blocked reader holds
  tracked,     \* invocation ids in the tracker
  counter,     \* the tracker's next invocation id
  unanswered,  \* invocation ids written to this websocket, not completed yet
  stale,       \* completions of earlier websockets still in the transport's
               \* inbound channel, which every Dial keeps
  inbound,     \* invocations for the connection
  call,        \* the message of the Send in progress, <<>> for none
  sent         \* history: messages written to a websocket, in order

trackVars == <<tracked, counter, unanswered, stale>>
signalRVars == <<ws, tomb, reason, sender, reader, held, trackVars, inbound,
                 call, sent>>

SignalRInit ==
  /\ ws = "none" /\ tomb = "fresh" /\ reason = "none"
  /\ sender = "none" /\ reader = "none" /\ held = <<>>
  /\ tracked = {} /\ counter = 0 /\ unanswered = {} /\ stale = {}
  /\ inbound = <<>> /\ call = <<>> /\ sent = <<>>

\* tomb.Kill: the first reason stays.
Killed(why) ==
  IF tomb = "alive" THEN tomb' = "dying" /\ reason' = why
  ELSE IF tomb = "fresh" THEN tomb' = "zombie" /\ reason' = why
  ELSE UNCHANGED <<tomb, reason>>

-----------------------------------------------------------------------------
(* Connect.  A tomb that is not alive is replaced by a fresh one, and with *)
(* it the tracker, before the dial; after a failed attempt it is fresh.    *)

ResetTracker ==
  IF tomb = "fresh" THEN UNCHANGED <<tracked, counter>>
  ELSE tracked' = {} /\ counter' = 0

ConnectOK ==
  /\ ws' = "up" /\ tomb' = "alive" /\ reason' = "none"
  /\ sender' = "starting" /\ reader' = "loop"
  /\ ResetTracker
  /\ unanswered' = {}
  /\ stale' \in SUBSET (stale \union unanswered)
  /\ UNCHANGED <<held, inbound, call, sent>>

ConnectFails ==
  /\ tomb' = "fresh" /\ reason' = "none"
  /\ ResetTracker
  /\ UNCHANGED <<ws, sender, reader, held, unanswered, stale, inbound, call,
                 sent>>

-----------------------------------------------------------------------------
(* Send and the goroutine that serves it.                                  *)

\* Send: the message is tracked, then offered to the sender.
StartSend(msg) ==
  /\ call' = <<msg>>
  /\ tracked' = tracked \union {counter}
  /\ counter' = counter + 1
  /\ UNCHANGED <<ws, tomb, reason, sender, reader, held, unanswered, stale,
                 inbound, sent>>

\* The initial ping; without it the sender ends, and the tomb with it.
SenderStarts ==
  /\ sender = "starting"
  /\ \/ ws = "up" /\ sender' = "idle" /\ UNCHANGED <<tomb, reason>>
     \/ ws = "dead" /\ sender' = "none" /\ Killed("lost")
  /\ UNCHANGED <<ws, reader, held, trackVars, inbound, call, sent>>

SenderTakes ==
  /\ sender = "idle" /\ call # <<>>
  /\ sender' = "busy"
  /\ UNCHANGED <<ws, tomb, reason, reader, held, trackVars, inbound,
                 call, sent>>

\* Faulty variant: a message that could not be written stays tracked.
SenderWritesKeepsTrack ==
  /\ sender = "busy"
  /\ sender' = "idle" /\ call' = <<>>
  /\ IF ws = "up"
       THEN /\ sent' = Append(sent, Head(call))
            /\ unanswered' = unanswered \union {counter - 1}
       ELSE UNCHANGED <<sent, unanswered>>
  /\ UNCHANGED <<ws, tomb, reason, reader, held, tracked, counter, stale,
                 inbound>>

\* The write, and Send's return: after an error the message is untracked.
SenderWrites ==
  /\ sender = "busy"
  /\ sender' = "idle" /\ call' = <<>>
  /\ IF ws = "up"
       THEN /\ sent' = Append(sent, Head(call))
            /\ unanswered' = unanswered \union {counter - 1}
            /\ UNCHANGED tracked
       ELSE /\ tracked' = tracked \ {counter - 1}
            /\ UNCHANGED <<sent, unanswered>>
  /\ UNCHANGED <<ws, tomb, reason, reader, held, counter, stale, inbound>>

SenderEnds ==
  /\ sender = "idle" /\ tomb = "dying"
  /\ sender' = "none"
  /\ UNCHANGED <<ws, tomb, reason, reader, held, trackVars, inbound,
                 call, sent>>

-----------------------------------------------------------------------------
(* The reader.                                                             *)

\* What was received before the websocket died may still be read.
Reading == reader \in {"loop", "endgame"} /\ ws # "none"

\* A completion is matched by its invocation id alone.
Completion ==
  /\ Reading
  /\ \E id \in IF stale = {} THEN unanswered ELSE stale :
       /\ tracked' = tracked \ {id}
       /\ IF stale = {} THEN unanswered' = unanswered \ {id} /\ UNCHANGED stale
          ELSE stale' = stale \ {id} /\ UNCHANGED unanswered
  /\ UNCHANGED <<ws, tomb, reason, sender, reader, held, counter, inbound, call,
                 sent>>

\* An invocation of the server; the push onto inbound blocks when it is full.
Invocation(msg) ==
  /\ Reading
  /\ IF Len(inbound) < InboundCap
       THEN inbound' = Append(inbound, msg) /\ UNCHANGED <<reader, held>>
       ELSE reader' = "full" /\ held' = <<msg>> /\ UNCHANGED inbound
  /\ UNCHANGED <<ws, tomb, reason, sender, trackVars, call, sent>>

ReaderResumes ==
  /\ reader = "full" /\ Len(inbound) < InboundCap
  /\ inbound' = inbound \o held
  /\ held' = <<>> /\ reader' = "loop"
  /\ UNCHANGED <<ws, tomb, reason, sender, trackVars, call, sent>>

\* A SignalR close message.
ServerCloses ==
  /\ Reading /\ tomb = "alive"
  /\ Killed("normal")
  /\ UNCHANGED <<ws, sender, reader, held, trackVars, inbound, call,
                 sent>>

\* The websocket has died, or no message came within ServerPingTimeout.
ReaderEnds(timeout) ==
  /\ reader = "loop"
  /\ ws = "dead" \/ timeout
  /\ ws' = "dead" /\ reader' = "none"
  /\ Killed("lost")
  /\ UNCHANGED <<sender, held, trackVars, inbound, call, sent>>

Endgame ==
  /\ reader = "loop" /\ tomb = "dying"
  /\ reader' = "endgame"
  /\ UNCHANGED <<ws, tomb, reason, sender, held, trackVars, inbound,
                 call, sent>>

\* avengersEndgame: until the websocket is dead, nothing is tracked or a
\* minute has passed; then the websocket is closed.
EndgameDone(timeout) ==
  /\ reader = "endgame"
  /\ ws = "dead" \/ tracked = {} \/ timeout
  /\ ws' = "dead" /\ reader' = "none"
  /\ UNCHANGED <<tomb, reason, sender, held, trackVars, inbound, call,
                 sent>>

TombDies ==
  /\ tomb = "dying" /\ sender = "none" /\ reader = "none"
  /\ tomb' = "dead"
  /\ UNCHANGED <<ws, reason, sender, reader, held, trackVars, inbound,
                 call, sent>>

\* The network breaks the websocket.
Break ==
  /\ ws = "up"
  /\ ws' = "dead"
  /\ UNCHANGED <<tomb, reason, sender, reader, held, trackVars, inbound, call, sent>>
=============================================================================
