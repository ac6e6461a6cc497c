------------------------- MODULE DaemonDataChannel --------------------------
(***************************************************************************)
(* The daemon's datachannel (bctl/daemon/datachannel/datachannel.go): the  *)
(* main goroutine (handshake, message loop, drain), and the goroutines     *)
(* sendMrtap and zapPluginOutput beside it.  The plugin's output is the    *)
(* stream of payloads 1, 2, 3, ...                                         *)
(***************************************************************************)
EXTENDS DaemonMrtap

CONSTANTS
  Attach,          \* TRUE: join a datachannel the agent already has
  DrainOnExit,     \* processInputChanBeforeExit
  MaxSynRetries,   \* maxRetry of handshakeOrTimeout
  MaxPayloads      \* bound: payloads the plugin produces

ASSUME ChannelAssumption ==
  /\ Attach \in BOOLEAN /\ DrainOnExit \in BOOLEAN
  /\ MaxSynRetries \in Nat /\ MaxPayloads \in Nat

VARIABLES
  phase,      \* where the main goroutine is
  dying,      \* the tomb was killed
  retries,    \* retryCount
  produced,   \* payloads the plugin has put into its outbox
  taken,      \* payloads zapPluginOutput has taken out of it
  zapHolds,   \* zapPluginOutput holds payload number taken
  hand,       \* the message sendMrtap took from the outbox, <<>> for none
  exit,       \* history: why the main goroutine returned
  calling     \* the plugin's method the main goroutine is inside of

channelVars == <<phase, dying, retries, produced, taken, zapHolds, hand, exit, calling>>
daemonVars == <<mrtapVars, channelVars>>

Phases == {"new", "handshake", "running", "draining", "dead"}
Exits == {"none", "noStart", "synRejected", "badMessage", "timeout", "killed",
          "pluginDone", "drained", "drainTimeout", "idle"}
Calls == {"none", "receive", "kill"}

ChannelInit ==
  /\ phase = "new" /\ dying = FALSE /\ retries = 0 /\ exit = "none"
  /\ produced = 0 /\ taken = 0 /\ zapHolds = FALSE /\ hand = <<>>
  /\ calling = "none"

\* The main goroutine returns; its deferred call sends CloseDataChannel.
Return(why) ==
  /\ phase' = "dead" /\ exit' = why
  /\ d2a' = Append(d2a, CloseMsg)

-----------------------------------------------------------------------------
(* Handshake.                                                              *)

\* start: a bare Syn through the outbox, or an OpenDataChannel message that
\* is handed to the connection directly.
SendSyn ==
  /\ BuildSyn(Attach)
  /\ d2a' = IF Attach THEN d2a
            ELSE Append(d2a, OpenMsg(SynMsg(nextId, RefreshedCert)))
  /\ phase' = "handshake"
  /\ UNCHANGED <<exit, recovering, attempts>>

StartFails ==
  /\ BuildSynFails
  /\ Return("noStart")
  /\ UNCHANGED <<recovering, attempts>>

\* refreshFails: whether the certificate may prove impossible to refresh.
Start(refreshFails) ==
  /\ phase = "new"
  /\ SendSyn \/ (refreshFails /\ StartFails)
  /\ UNCHANGED <<a2d, dying, retries, produced, taken, zapHolds, hand, calling>>

\* An error reply to the first Syn: start over, a limited number of times.
\* The rejected Syn stays in the pipeline map.
HandshakeError(refreshFails) ==
  /\ phase = "handshake" /\ a2d # <<>>
  /\ Head(a2d).type \in {"Error", "Fatal"}
  /\ a2d' = Tail(a2d)
  /\ \/ /\ retries < MaxSynRetries
        /\ retries' = retries + 1
        /\ SendSyn \/ (refreshFails /\ StartFails)
     \/ /\ retries >= MaxSynRetries
        /\ Return("synRejected")
        /\ UNCHANGED <<retries, mrtapVars>>
  /\ UNCHANGED <<dying, produced, taken, zapHolds, hand, calling>>

\* The SynAck of our Syn ends the handshake.
HandshakeAck ==
  /\ phase = "handshake" /\ a2d # <<>>
  /\ a2d' = Tail(a2d)
  /\ ValidateSynAck(Head(a2d))
  /\ phase' = "running"
  /\ UNCHANGED <<d2a, dying, retries, produced, taken, zapHolds, hand, exit, calling>>

\* An ack of no message of ours (the channel we attach to has a past) or a
\* stream message ends the handshake badly.
HandshakeBadMessage ==
  /\ phase = "handshake" /\ a2d # <<>>
  /\ Unknown(Head(a2d)) \/ Head(a2d).type = "Stream"
  /\ a2d' = Tail(a2d)
  /\ Return("badMessage")
  /\ UNCHANGED <<mrtapVars, dying, retries, produced, taken, zapHolds, hand, calling>>

\* With the tomb dying handshakeOrTimeout returns nil: the caller goes on to
\* its loop, where it finds the tomb dying again.
HandshakeDying ==
  /\ phase = "handshake" /\ dying
  /\ phase' = "running"
  /\ UNCHANGED <<wireVars, mrtapVars, dying, retries, produced, taken,
                 zapHolds, hand, exit, calling>>

HandshakeTimeout ==
  /\ phase = "handshake"
  /\ Return("timeout")
  /\ UNCHANGED <<a2d, mrtapVars, dying, retries, produced, taken, zapHolds,
                 hand, calling>>

-----------------------------------------------------------------------------
(* processInputMessage, in the main loop and while draining.               *)

Processing ==
  /\ phase \in {"running", "draining"} /\ calling = "none"
  /\ a2d # <<>>

\* A DataAck is handed to the plugin's ReceiveMrtap, dead or not.
ReceiveAck ==
  /\ Processing
  /\ a2d' = Tail(a2d)
  /\ \/ ValidateSynAck(Head(a2d)) /\ UNCHANGED calling
     \/ ValidateDataAck(Head(a2d)) /\ calling' = "receive"
     \/ Unknown(Head(a2d)) /\ UNCHANGED <<mrtapVars, calling>>
  /\ UNCHANGED <<d2a, phase, dying, retries, produced, taken, zapHolds, hand, exit>>

\* handleError on a validation error.  An error from Recover kills the tomb.
ReceiveError(refreshFails) ==
  /\ Processing /\ Head(a2d).type = "Error"
  /\ a2d' = Tail(a2d)
  /\ \/ /\ IgnoresError(Head(a2d))
        /\ UNCHANGED <<mrtapVars, dying>>
     \/ /\ ~IgnoresError(Head(a2d))
        /\ StartRecovery
        /\ UNCHANGED dying
     \/ /\ refreshFails /\ ~IgnoresError(Head(a2d))
        /\ RecoveryFails
        /\ dying' = TRUE
     \/ /\ ~IgnoresError(Head(a2d))
        /\ RecoveriesExhausted
        /\ dying' = TRUE
        /\ UNCHANGED mrtapVars
  /\ UNCHANGED <<d2a, phase, retries, produced, taken, zapHolds, hand, exit, calling>>

\* handleError on any other error.
ReceiveFatal ==
  /\ Processing /\ Head(a2d).type = "Fatal"
  /\ a2d' = Tail(a2d)
  /\ dying' = TRUE
  /\ UNCHANGED <<d2a, mrtapVars, phase, retries, produced, taken, zapHolds,
                 hand, exit, calling>>

\* Streams go to the plugin's ReceiveStream; while draining, when it is dead, to
\* nobody.
ReceiveStream ==
  /\ Processing /\ Head(a2d).type = "Stream"
  /\ a2d' = Tail(a2d)
  /\ calling' = IF phase = "running" THEN "receive" ELSE "none"
  /\ UNCHANGED <<d2a, mrtapVars, phase, dying, retries, produced, taken, zapHolds,
                 hand, exit>>

\* The plugin's ReceiveMrtap or ReceiveStream returns; a plugin's queue may be full.
ReceiveReturns ==
  /\ calling = "receive"
  /\ calling' = "none"
  /\ UNCHANGED <<wireVars, mrtapVars, phase, dying, retries, produced, taken,
                 zapHolds, hand, exit>>

-----------------------------------------------------------------------------
(* The end of the main goroutine.                                          *)

\* Close, called by the connection's broker or by the server.
Close ==
  /\ ~dying /\ phase # "dead"
  /\ dying' = TRUE
  /\ UNCHANGED <<wireVars, mrtapVars, phase, retries, produced, taken,
                 zapHolds, hand, exit, calling>>

\* The select finds the tomb dying and calls plugin.Kill, which waits for the
\* goroutines of the action.
Die ==
  /\ phase = "running" /\ calling = "none" /\ dying
  /\ calling' = "kill"
  /\ UNCHANGED <<wireVars, mrtapVars, phase, dying, retries, produced, taken,
                 zapHolds, hand, exit>>

KillReturns ==
  /\ calling = "kill"
  /\ calling' = "none"
  /\ Return("killed")
  /\ UNCHANGED <<a2d, mrtapVars, dying, retries, produced, taken, zapHolds,
                 hand>>

PluginDone ==
  /\ phase = "running" /\ calling = "none"
  /\ IF DrainOnExit
       THEN phase' = "draining" /\ UNCHANGED <<d2a, exit>>
       ELSE Return("pluginDone")
  /\ UNCHANGED <<a2d, mrtapVars, dying, retries, produced, taken, zapHolds,
                 hand, calling>>

IdleTimeout ==
  /\ phase = "running" /\ calling = "none"
  /\ Return("idle")
  /\ UNCHANGED <<a2d, mrtapVars, dying, retries, produced, taken, zapHolds,
                 hand, calling>>

\* waitForRemainingMessages: after a second of silence it looks at the length
\* of the plugin's outbox and at the pipeline.
DrainCheck ==
  /\ phase = "draining" /\ calling = "none"
  /\ taken = produced /\ pipelineMap = <<>>
  /\ Return("drained")
  /\ UNCHANGED <<a2d, mrtapVars, dying, retries, produced, taken, zapHolds,
                 hand, calling>>

\* Faulty variant: no absolute timeout.
DrainForever == FALSE /\ UNCHANGED <<wireVars, daemonVars>>

DrainTimeout ==
  /\ phase = "draining" /\ calling = "none"
  /\ Return("drainTimeout")
  /\ UNCHANGED <<a2d, mrtapVars, dying, retries, produced, taken, zapHolds,
                 hand, calling>>

-----------------------------------------------------------------------------
(* sendMrtap: it takes a message from the outbox, then locks the state to  *)
(* ask whether a recovery is under way.  It may outlive the main goroutine.*)

TakeOutbox ==
  /\ hand = <<>> /\ outbox # <<>>
  /\ hand' = <<Head(outbox)>>
  /\ outbox' = Tail(outbox)
  /\ UNCHANGED <<wireVars, nextId, pipelineMap, handshakeDone, lastAck,
                 lastAckedData, recovering, attempts, cert, expired, phase,
                 dying, retries, produced, taken, zapHolds, exit, calling>>

SendOrDrop ==
  /\ hand # <<>>
  /\ hand' = <<>>
  /\ d2a' = IF Head(hand).type = "Syn" \/ ~recovering
              THEN Append(d2a, Head(hand)) ELSE d2a
  /\ UNCHANGED <<a2d, mrtapVars, phase, dying, retries, produced, taken,
                 zapHolds, exit, calling>>

-----------------------------------------------------------------------------
(* The plugin's outbox and zapPluginOutput.                                *)

PluginOutput ==
  /\ phase \in {"handshake", "running"}
  /\ produced < MaxPayloads
  /\ produced' = produced + 1
  /\ UNCHANGED <<wireVars, mrtapVars, phase, dying, retries, taken, zapHolds,
                 hand, exit, calling>>

TakeOutput ==
  /\ ~zapHolds /\ taken < produced
  /\ taken' = taken + 1
  /\ zapHolds' = TRUE
  /\ UNCHANGED <<wireVars, mrtapVars, phase, dying, retries, produced, hand,
                 exit, calling>>

PipeOutput ==
  /\ zapHolds
  /\ Inbox(taken)
  /\ zapHolds' = FALSE
  /\ UNCHANGED <<wireVars, phase, dying, retries, produced, taken, hand, exit, calling>>

\* Another channel of this daemon refreshed the certificate they share.
SharedRefresh ==
  /\ cert <= expired
  /\ cert' = cert + 1
  /\ UNCHANGED <<wireVars, nextId, pipelineMap, outbox, handshakeDone, lastAck,
                 lastAckedData, recovering, attempts, expired, channelVars>>

-----------------------------------------------------------------------------
ChannelTypeOK ==
  /\ phase \in Phases /\ dying \in BOOLEAN /\ retries \in Nat
  /\ produced \in Nat /\ taken \in Nat /\ zapHolds \in BOOLEAN
  /\ hand \in Seq(Requests) /\ exit \in Exits /\ calling \in Calls
=============================================================================
