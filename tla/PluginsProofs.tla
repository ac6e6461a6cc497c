----------------------------- MODULE PluginsProofs -----------------------------
(***************************************************************************)
(* What is proved of the sessions of the plugins, for scenes of any length *)
(* and channels of any capacity.                                           *)
(***************************************************************************)
EXTENDS Plugins, SequenceTheorems, TLAPS

-----------------------------------------------------------------------------
(* The records of the two sides.                                           *)

DaemonFields ==
  {"act", "killed", "dying", "dc", "held", "tmb", "go", "handler", "done", "panic",
   "inq", "buf", "next", "ended", "lost", "ready", "stopped", "fwd", "pair", "keys",
   "replayed"}
AgentFields ==
  {"dying", "dc", "input", "tmb", "go", "done", "panic", "broken", "unacked", "conn",
   "seq", "stdin", "req", "ring", "stopped"}

DaemonShape == DOMAIN d = DaemonFields /\ DOMAIN d.go = Goroutines
AgentShape == DOMAIN a = AgentFields /\ DOMAIN a.go = Goroutines

IsSeq(s) == \E S : s \in Seq(S)

-----------------------------------------------------------------------------
(* Nobody closes a channel twice.                                          *)

\* The kinds whose actions do not panic.
Careful == {"dial", "pwdb", "opaque", "shell", "attach", "webdial", "kubeexec"}

\* The message on which the agent starts its reader.
Opener ==
  IF Kind = "pwdb" THEN "Connect"
  ELSE IF Kind \in {"opaque", "shell", "attach"} THEN "Open"
  ELSE IF Kind = "webdial" THEN "Last" ELSE "Start"

\* The daemon has not sent it yet, and will.
Unsent == d.act = "none" \/ (Kind = "webdial" /\ d.handler = "body")

HasOpener(s) == \E i \in DOMAIN s : s[i].t = Opener
OneOpener(s) == \A i, j \in DOMAIN s : s[i].t = Opener /\ s[j].t = Opener => i = j

\* The opener is on its way at most once, and neither before it was sent nor
\* after the reader was started: the agent's reader runs once.
OpenerInv ==
  /\ IsSeq(outbox) /\ IsSeq(up)
  /\ OneOpener(outbox) /\ OneOpener(up) /\ ~(HasOpener(outbox) /\ HasOpener(up))
  /\ HasOpener(outbox) \/ HasOpener(up) =>
       ~Unsent /\ Kind # "attach" /\ a.go["reader"] = "off"
  /\ Unsent /\ Kind # "attach" => a.go["reader"] = "off"

\* The goroutine of the daemon's action that closes doneChan, of those kinds
\* where it does not look whether it is closed.
Closer == IF Kind = "kubeexec" THEN "writer" ELSE "reader"
Unguarded == {"dial", "pwdb", "kubeexec"}

PanicInv ==
  /\ ~d.panic /\ ~a.panic
  /\ a.done => a.go["reader"] = "end"
  /\ d.act \in {"none", "connecting"} => d.go[Closer] = "off"
  /\ d.act = "none" => d.handler = "off"
  /\ Kind \in Unguarded /\ d.done => d.go[Closer] = "end"

\* What the agent's steps do to its reader: it goes on, ends with doneChan, or
\* is started by the opener.
Reading == a.go["reader"] \notin {"off", "end"}

AgentMoves ==
  /\ UNCHANGED <<scene, outbox, d>>
  /\ AgentShape'
  /\ a'.panic => a.panic \/ (a.done /\ Reading)
  /\ a'.done => a.done \/ a'.go["reader"] = "end"
  /\ up' = up \/ (up # <<>> /\ up' = Tail(up))
  /\ \/ a'.go["reader"] = a.go["reader"]
     \/ Reading /\ a'.go["reader"] # "off"
     \/ /\ up # <<>> /\ Head(up).t = Opener /\ up' = Tail(up)
        /\ a'.go["reader"] = "run"

\* What the daemon's do to the goroutine that closes doneChan.
Closing == d.go[Closer] \notin {"off", "end"}
Starting == d.act \in {"none", "connecting"}

CloserMoves ==
  \/ d'.go[Closer] = d.go[Closer] /\ (d'.done => d.done)
  \/ Closing /\ (d'.done => d.done \/ d'.go[Closer] = "end")
  \/ Starting /\ (d'.done => d.done)

PipeMoves ==
  \/ UNCHANGED <<outbox, up>>
  \/ outbox # <<>> /\ up' = Append(up, Head(outbox)) /\ outbox' = Tail(outbox)
  \/ /\ up' = up
     /\ \E m : /\ outbox' = Append(outbox, m)
               /\ m.t = Opener => Kind # "attach" /\ Unsent /\ ~Unsent'

DaemonMoves ==
  /\ UNCHANGED <<scene, a>>
  /\ DaemonShape'
  /\ d'.panic => d.panic \/ (d.done /\ Kind \in Unguarded /\ Closing)
  /\ Unsent' => Unsent
  /\ Starting' => Starting /\ d'.go[Closer] = d.go[Closer]
  /\ d'.act = "none" => d.act = "none" /\ d'.handler = d.handler
  /\ Kind \in Unguarded => CloserMoves
  /\ PipeMoves

\* A sequence with a message appended, by index.
LEMMA AppendMoves ==
  ASSUME NEW s, IsSeq(s), NEW m
  PROVE  /\ IsSeq(Append(s, m)) /\ DOMAIN Append(s, m) = 1..(Len(s) + 1)
         /\ DOMAIN s = 1..Len(s) /\ Len(s) \in Nat
         /\ Append(s, m)[Len(s) + 1] = m
         /\ \A i \in 1..Len(s) : Append(s, m)[i] = s[i]
  <1>1. PICK S : s \in Seq(S)
    BY DEF IsSeq
  <1>2. s \in Seq(S \union {m})
    BY <1>1
  <1>3. Append(s, m) \in Seq(S \union {m})
    BY <1>2
  <1>. QED  BY <1>2, <1>3 DEF IsSeq

\* A sequence without its first message, by index.
LEMMA TailMoves ==
  ASSUME NEW s, IsSeq(s), s # <<>>
  PROVE  /\ IsSeq(Tail(s)) /\ DOMAIN Tail(s) = 1..(Len(s) - 1)
         /\ DOMAIN s = 1..Len(s) /\ Len(s) \in Nat \ {0} /\ Head(s) = s[1]
         /\ \A i \in 1..(Len(s) - 1) : Tail(s)[i] = s[i + 1]
  <1>1. PICK S : s \in Seq(S)
    BY DEF IsSeq
  <1>. QED  BY <1>1 DEF IsSeq

\* A move of the agent keeps who may open and who may close doneChan.
LEMMA AgentMovesKeep ==
  ASSUME OpenerInv, PanicInv, AgentMoves
  PROVE  OpenerInv' /\ PanicInv'
  <1>. USE DEF AgentMoves
  <1>1. /\ Kind' = Kind /\ Opener' = Opener /\ Unsent' = Unsent /\ Closer' = Closer
        /\ UNCHANGED <<outbox, d>>
    BY DEF Kind, Opener, Unsent, Closer
  <1>2. HasOpener(outbox)' = HasOpener(outbox) /\ OneOpener(outbox)' = OneOpener(outbox)
    BY <1>1 DEF HasOpener, OneOpener
  <1>3. CASE up' = up
    <2>1. HasOpener(up)' = HasOpener(up) /\ OneOpener(up)' = OneOpener(up)
      BY <1>1, <1>3 DEF HasOpener, OneOpener
    <2>2. a'.go["reader"] = a.go["reader"] \/ (Reading /\ a'.go["reader"] # "off")
      <3>1. ASSUME up # <<>>, up' = Tail(up) PROVE FALSE
        BY <1>3, <3>1, TailMoves DEF OpenerInv
      <3>. QED  BY <3>1
    <2>. QED  BY <1>1, <1>2, <1>3, <2>1, <2>2 DEF OpenerInv, PanicInv, Reading
  <1>4. CASE up # <<>> /\ up' = Tail(up)
    <2>1. IsSeq(up') /\ (HasOpener(up)' => HasOpener(up))
      BY <1>1, <1>4, TailMoves DEF HasOpener, OpenerInv
    <2>2. OneOpener(up)'
      BY <1>1, <1>4, TailMoves DEF OneOpener, OpenerInv
    <2>3. Head(up).t = Opener => HasOpener(up) /\ ~HasOpener(up)'
      BY <1>1, <1>4, TailMoves DEF HasOpener, OneOpener, OpenerInv
    <2>4. CASE a'.go["reader"] = a.go["reader"] \/ (Reading /\ a'.go["reader"] # "off")
      BY <1>1, <1>2, <2>1, <2>2, <2>4 DEF OpenerInv, PanicInv, Reading
    <2>5. CASE Head(up).t = Opener /\ a'.go["reader"] = "run"
      <3>1. OpenerInv'
        BY <1>1, <1>2, <2>2, <2>1, <2>3, <2>5 DEF OpenerInv
      <3>2. PanicInv'
        BY <1>1, <2>3, <2>5 DEF OpenerInv, PanicInv, Reading
      <3>. QED  BY <3>1, <3>2
    <2>. QED  BY <2>4, <2>5
  <1>. QED  BY <1>3, <1>4

\* A move of the daemon keeps it too.
LEMMA DaemonMovesKeep ==
  ASSUME OpenerInv, PanicInv, DaemonMoves
  PROVE  OpenerInv' /\ PanicInv'
  <1>. USE DEF DaemonMoves
  <1>1. Kind' = Kind /\ Opener' = Opener /\ Closer' = Closer /\ UNCHANGED a
    BY DEF Kind, Opener, Closer
  <1>2. PanicInv'
    BY <1>1 DEF PanicInv, CloserMoves, Closing, Starting
  <1>3. OpenerInv'
    <2>1. CASE UNCHANGED <<outbox, up>>
      <3>1. /\ HasOpener(up)' = HasOpener(up) /\ OneOpener(up)' = OneOpener(up)
            /\ HasOpener(outbox)' = HasOpener(outbox)
            /\ OneOpener(outbox)' = OneOpener(outbox)
        BY <1>1, <2>1 DEF HasOpener, OneOpener
      <3>. QED  BY <1>1, <2>1, <3>1 DEF OpenerInv
    <2>2. CASE outbox # <<>> /\ up' = Append(up, Head(outbox)) /\ outbox' = Tail(outbox)
      <3>1. /\ IsSeq(outbox') /\ IsSeq(up')
            /\ HasOpener(outbox)' => HasOpener(outbox)
            /\ HasOpener(up)' => HasOpener(outbox) \/ HasOpener(up)
        BY <1>1, <2>2, TailMoves, AppendMoves DEF HasOpener, OpenerInv
      <3>2. OneOpener(outbox)' /\ OneOpener(up)'
        BY SMTT(30), <1>1, <2>2, TailMoves, AppendMoves DEF HasOpener, OneOpener, OpenerInv
      <3>3. ~(HasOpener(outbox)' /\ HasOpener(up)')
        BY <1>1, <2>2, TailMoves, AppendMoves DEF HasOpener, OneOpener, OpenerInv
      <3>. QED  BY <1>1, <3>1, <3>2, <3>3 DEF OpenerInv
    <2>3. ASSUME up' = up, NEW m, outbox' = Append(outbox, m),
                 m.t = Opener => Kind # "attach" /\ Unsent /\ ~Unsent'
          PROVE  OpenerInv'
      <3>1. /\ HasOpener(up)' = HasOpener(up) /\ OneOpener(up)' = OneOpener(up)
        BY <1>1, <2>3 DEF HasOpener, OneOpener
      <3>2. /\ IsSeq(outbox')
            /\ HasOpener(outbox)' => HasOpener(outbox) \/ m.t = Opener
        BY <1>1, <2>3, AppendMoves DEF HasOpener, OpenerInv
      <3>3. m.t = Opener => ~HasOpener(outbox) /\ ~HasOpener(up)
        BY <2>3 DEF OpenerInv
      <3>4. OneOpener(outbox)'
        BY <1>1, <2>3, <3>3, AppendMoves DEF HasOpener, OneOpener, OpenerInv
      <3>. QED  BY <1>1, <2>3, <3>1, <3>2, <3>3, <3>4 DEF OpenerInv
    <2>. QED  BY <2>1, <2>2, <2>3 DEF PipeMoves
  <1>. QED  BY <1>2, <1>3

-----------------------------------------------------------------------------
(* What the operations on the records do to the fields that matter here.   *)

\* Acking changes none of the fields that matter.
LEMMA AckedFields ==
  ASSUME NEW r, DOMAIN r = AgentFields
  PROVE  /\ DOMAIN Acked(r) = AgentFields /\ Acked(r).go = r.go
         /\ Acked(r).done = r.done /\ Acked(r).panic = r.panic
         /\ Acked(r).dc = r.dc /\ Acked(r).ring = r.ring
  BY DEF Acked, AgentFields

\* Starting goroutines changes only them.
LEMMA GoFields ==
  ASSUME NEW r, DOMAIN r = AgentFields, NEW gs
  PROVE  /\ DOMAIN Go(r, gs) = AgentFields
         /\ Go(r, gs).done = r.done /\ Go(r, gs).panic = r.panic
         /\ Go(r, gs).dc = r.dc /\ Go(r, gs).ring = r.ring
         /\ Go(r, gs).go = [g \in Goroutines |-> IF g \in gs THEN "run" ELSE r.go[g]]
  BY DEF Go, AgentFields

\* The agent starts its reader on the opener, and acknowledges it.
LEMMA AgentOpens ==
  ASSUME AgentShape, UNCHANGED <<scene, outbox, d>>, Receives(Opener), NEW r,
         DOMAIN r = AgentFields, r.go = a.go, r.done = a.done, r.panic = a.panic,
         \/ a' = Acked(Go(r, {"reader"}))
         \/ a' = Acked([r EXCEPT !.go["reader"] = "run"])
  PROVE  AgentMoves
  <1>1. CASE a' = Acked(Go(r, {"reader"}))
    <2>1. /\ DOMAIN a' = AgentFields /\ a'.done = a.done /\ a'.panic = a.panic
          /\ a'.go = [g \in Goroutines |-> IF g = "reader" THEN "run" ELSE a.go[g]]
      BY <1>1, AckedFields, GoFields
    <2>. QED  BY <2>1 DEF AgentMoves, AgentShape, Receives, Goroutines
  <1>2. CASE a' = Acked([r EXCEPT !.go["reader"] = "run"])
    <2>. DEFINE s == [r EXCEPT !.go["reader"] = "run"]
    <2>1. /\ DOMAIN s = AgentFields /\ s.done = a.done /\ s.panic = a.panic
          /\ s.go = [a.go EXCEPT !["reader"] = "run"]
      BY DEF AgentFields
    <2>. HIDE DEF s
    <2>2. /\ DOMAIN a' = AgentFields /\ a'.done = a.done /\ a'.panic = a.panic
          /\ a'.go = [a.go EXCEPT !["reader"] = "run"]
      BY <1>2, <2>1, AckedFields DEF s
    <2>. QED  BY <2>2 DEF AgentMoves, AgentShape, Receives, Goroutines
  <1>. QED  BY <1>1, <1>2

\* The end of a goroutine changes only it and the tomb.
LEMMA ReturnsFields ==
  ASSUME NEW r, DOMAIN r = AgentFields \/ DOMAIN r = DaemonFields,
         NEW g \in Goroutines, NEW failed \in BOOLEAN, DOMAIN r.go = Goroutines
  PROVE  /\ DOMAIN Returns(r, g, failed) = DOMAIN r
         /\ Returns(r, g, failed).go = [r.go EXCEPT ![g] = "end"]
         /\ Returns(r, g, failed).done = r.done /\ Returns(r, g, failed).panic = r.panic
         /\ Returns(r, g, failed).dc = r.dc
         /\ DOMAIN r = DaemonFields => /\ Returns(r, g, failed).act = r.act
                                       /\ Returns(r, g, failed).handler = r.handler
  BY DEF Returns, AgentFields, DaemonFields

\* Closing doneChan panics when it is closed already.
LEMMA CloseDoneFields ==
  ASSUME NEW r, DOMAIN r = AgentFields \/ DOMAIN r = DaemonFields
  PROVE  /\ DOMAIN CloseDone(r) = DOMAIN r
         /\ CloseDone(r).go = r.go /\ CloseDone(r).dc = r.dc
         /\ CloseDone(r).panic => r.panic \/ r.done
         /\ DOMAIN r = DaemonFields =>
              CloseDone(r).act = r.act /\ CloseDone(r).handler = r.handler
  BY DEF CloseDone, AgentFields, DaemonFields

\* The agent's reader ends and closes doneChan.
LEMMA AgentEnds ==
  ASSUME AgentShape, NEW failed \in BOOLEAN, Reading,
         UNCHANGED <<scene, outbox, d, up>>,
         NEW z, z = CloseDone(Returns(a, "reader", failed)),
         DOMAIN a' = DOMAIN z, a'.go = z.go, a'.done = z.done, a'.panic = z.panic
  PROVE  AgentMoves
  <1>. DEFINE r == Returns(a, "reader", failed)
  <1>1. /\ DOMAIN r = AgentFields /\ r.go = [a.go EXCEPT !["reader"] = "end"]
        /\ r.done = a.done /\ r.panic = a.panic
    <2>1. "reader" \in Goroutines
      BY DEF Goroutines
    <2>. QED  BY <2>1, ReturnsFields DEF AgentShape
  <1>. HIDE DEF r
  <1>2. z = CloseDone(r)
    BY DEF r
  <1>3. DOMAIN a' = AgentFields /\ a'.go = r.go /\ (a'.panic => r.panic \/ r.done)
    BY <1>1, <1>2, CloseDoneFields
  <1>. QED  BY <1>1, <1>3 DEF AgentMoves, AgentShape, Goroutines

\* A goroutine of the daemon's action returns; it has been started.
LEMMA DaemonReturns ==
  ASSUME DaemonShape, PanicInv, Kind \in Careful, NEW r, NEW failed \in BOOLEAN,
         NEW g \in {"reader", "writer"}, d.go[g] \notin {"off", "end"},
         DOMAIN r = DaemonFields, r.go = d.go, r.done = d.done, r.panic = d.panic,
         r.act = d.act, r.handler = d.handler,
         UNCHANGED <<scene, a>>, PipeMoves, Opener' = Opener,
         \/ d' = Returns(r, g, failed)
         \/ d' = CloseDone(Returns(r, g, failed)) /\ (Kind \in Unguarded /\ g = Closer)
  PROVE  DaemonMoves
  <1>. DEFINE s == Returns(r, g, failed)
  <1>1. /\ DOMAIN s = DaemonFields /\ s.go = [d.go EXCEPT ![g] = "end"]
        /\ s.done = d.done /\ s.panic = d.panic /\ s.act = d.act /\ s.handler = d.handler
    <2>1. g \in Goroutines
      BY DEF Goroutines
    <2>. QED  BY <2>1, ReturnsFields DEF DaemonShape
  <1>. HIDE DEF s
  <1>2. CASE d' = s
    BY <1>1, <1>2 DEF DaemonMoves, DaemonShape, Unsent, Starting, CloserMoves, Closing,
       Goroutines, Closer, Kind, PanicInv
  <1>3. CASE d' = CloseDone(s) /\ Kind \in Unguarded /\ g = Closer
    <2>1. /\ DOMAIN d' = DaemonFields /\ d'.go = s.go /\ (d'.panic => s.panic \/ s.done)
          /\ d'.act = s.act /\ d'.handler = s.handler
      BY <1>1, <1>3, CloseDoneFields
    <2>. QED
      BY <1>1, <1>3, <2>1 DEF DaemonMoves, DaemonShape, Unsent, Starting, CloserMoves,
         Closing, Goroutines, Closer, Kind, PanicInv
  <1>. QED  BY <1>2, <1>3 DEF s

\* What is sent is not the opener.
LEMMA PutMoves ==
  ASSUME NEW m, m.t # Opener, Put(m), UNCHANGED <<scene, up>>
  PROVE  PipeMoves /\ Opener' = Opener
  BY DEF PipeMoves, Put, Opener, Kind

\* An input that fails is a move.
LEMMA FailedMoves ==
  ASSUME AgentShape, Failed, AgentOnly, up' = up \/ (up # <<>> /\ up' = Tail(up))
  PROVE  AgentMoves
  BY DEF AgentMoves, AgentShape, AgentFields, AgentOnly, Failed

\* The opener comes.
LEMMA AgentOpenerMoves ==
  ASSUME AgentShape, Kind \in Careful
  PROVE  \/ DialStartReceived \/ PwdbConnectReceived \/ OpaqueOpenReceived
         \/ ShellOpenReceived \/ WebDialLastReceived \/ KubeExecStartReceived
         => AgentMoves
  <1>. DEFINE r == [a EXCEPT !.conn = "open"]
  <1>1. /\ DOMAIN r = AgentFields /\ r.go = a.go /\ r.done = a.done /\ r.panic = a.panic
        /\ [a EXCEPT !.conn = "open", !.go["reader"] = "run"]
             = [r EXCEPT !.go["reader"] = "run"]
    BY DEF AgentShape, AgentFields
  <1>. HIDE DEF r
  <1>2. ASSUME NEW t, Receives(t), AgentOnly, Failed PROVE AgentMoves
    BY <1>2, FailedMoves DEF Receives
  <1>3. ASSUME DialStartReceived PROVE AgentMoves
    <2>1. Receives(Opener) /\ AgentOnly /\ (a' = Acked(Go(r, {"reader"})) \/ Failed)
      BY <1>3 DEF DialStartReceived, Opened, Opener, r
    <2>. QED  BY <1>1, <1>2, <2>1, AgentOpens DEF AgentOnly
  <1>4. ASSUME PwdbConnectReceived PROVE AgentMoves
    <2>1. Receives(Opener) /\ AgentOnly /\ (a' = Acked(Go(r, {"reader"})) \/ Failed)
      BY <1>4 DEF PwdbConnectReceived, Opened, Opener, r
    <2>. QED  BY <1>1, <1>2, <2>1, AgentOpens DEF AgentOnly
  <1>5. ASSUME OpaqueOpenReceived PROVE AgentMoves
    <2>. DEFINE s(k) == [a EXCEPT !.seq = k]
    <2>1. /\ Receives(Opener) /\ AgentOnly
          /\ (\E k \in 0..HostKeyFiles : a' = Acked(Go(s(k), {"reader"}))) \/ Failed
      BY <1>5 DEF OpaqueOpenReceived, Opener
    <2>2. \A k : /\ DOMAIN s(k) = AgentFields /\ s(k).go = a.go /\ s(k).done = a.done
                /\ s(k).panic = a.panic
      BY DEF AgentShape, AgentFields
    <2>. HIDE DEF s
    <2>. QED  BY <1>2, <2>1, <2>2, AgentOpens DEF AgentOnly
  <1>6. ASSUME ShellOpenReceived PROVE AgentMoves
    <2>1. /\ Receives(Opener) /\ AgentOnly
          /\ a' = Acked([r EXCEPT !.go["reader"] = "run"]) \/ Failed
      BY <1>1, <1>6 DEF ShellOpenReceived, ShellKinds, Opener
    <2>. QED  BY <1>1, <1>2, <2>1, AgentOpens DEF AgentOnly
  <1>7. ASSUME WebDialLastReceived PROVE AgentMoves
    <2>. DEFINE s == [a EXCEPT !.conn = "open", !.stopped = TRUE]
    <2>1. /\ DOMAIN s = AgentFields /\ s.go = a.go /\ s.done = a.done
          /\ s.panic = a.panic
      BY DEF AgentShape, AgentFields
    <2>. HIDE DEF s
    <2>2. /\ Receives(Opener) /\ AgentOnly
          /\ a' = Acked(Go(s, {"reader"})) \/ a' = [a EXCEPT !.broken = TRUE]
      BY <1>7 DEF WebDialLastReceived, Opener, s
    <2>3. CASE a' = [a EXCEPT !.broken = TRUE]
      BY <2>2, <2>3 DEF AgentMoves, AgentShape, AgentFields, AgentOnly, Receives
    <2>. QED  BY <2>1, <2>2, <2>3, AgentOpens DEF AgentOnly
  <1>8. ASSUME KubeExecStartReceived PROVE AgentMoves
    <2>1. /\ Receives(Opener) /\ AgentOnly
          /\ a' = Acked([r EXCEPT !.go["reader"] = "run"]) \/ Failed
      BY <1>1, <1>8 DEF KubeExecStartReceived, Opener
    <2>. QED  BY <1>1, <1>2, <2>1, AgentOpens DEF AgentOnly
  <1>. QED  BY <1>3, <1>4, <1>5, <1>6, <1>7, <1>8

\* The agent's reader ends, or reads.
LEMMA AgentReaderMoves ==
  ASSUME AgentShape, Kind \in Careful
  PROVE  OpaqueRemoteRead \/ OpaqueRemoteSend \/ WebDialReads \/ WebDialResponse
         => AgentMoves
  <1>. DEFINE z(failed) == CloseDone(Returns(a, "reader", failed))
  <1>1. ASSUME AgentOnly, up' = up, Reading,
               \/ a' = [a EXCEPT !.go["reader"] = "put"]
               \/ a' = [a EXCEPT !.go["reader"] = "stop"]
               \/ a' = [a EXCEPT !.go["reader"] = "read"]
               \/ a' = [a EXCEPT !.go["reader"] = "run"]
               \/ a' = [a EXCEPT !.go["reader"] = "run", !.seq = @ + 1]
        PROVE  AgentMoves
    <2>1. /\ DOMAIN a' = AgentFields /\ a'.done = a.done /\ a'.panic = a.panic
          /\ \E v \in {"put", "stop", "read", "run"} :
               a'.go = [a.go EXCEPT !["reader"] = v]
      BY <1>1 DEF AgentShape, AgentFields
    <2>. QED
      BY <1>1, <2>1 DEF AgentMoves, AgentShape, AgentOnly, Goroutines, Reading
  <1>2. ASSUME AgentOnly, up' = up, Reading, a' = z(FALSE) \/ a' = z(TRUE)
        PROVE  AgentMoves
    <2>1. CASE a' = z(FALSE)
      BY <1>2, <2>1, AgentEnds DEF AgentOnly
    <2>2. CASE a' = z(TRUE)
      BY <1>2, <2>2, AgentEnds DEF AgentOnly
    <2>. QED  BY <1>2, <2>1, <2>2
  <1>3. ASSUME OpaqueRemoteRead PROVE AgentMoves
    <2>1. /\ AgentOnly /\ up' = up /\ Reading
          /\ \/ a' = [a EXCEPT !.go["reader"] = "put"]
             \/ a' = [a EXCEPT !.go["reader"] = "stop"]
             \/ a' = z(FALSE)
      BY <1>3 DEF OpaqueRemoteRead, Reading
    <2>. QED  BY <1>1, <1>2, <2>1
  <1>4. ASSUME OpaqueRemoteSend PROVE AgentMoves
    <2>1. /\ AgentOnly /\ up' = up /\ Reading
          /\ a' = [a EXCEPT !.go["reader"] = "run"] \/ a' = z(TRUE)
      BY <1>4 DEF OpaqueRemoteSend, Reading
    <2>. QED  BY <1>1, <1>2, <2>1
  <1>5. ASSUME WebDialResponse PROVE AgentMoves
    <2>1. /\ AgentOnly /\ up' = up /\ Reading
          /\ \/ a' = [z(FALSE) EXCEPT !.seq = @ + 1]
             \/ a' = [[a EXCEPT !.go["reader"] = "run"] EXCEPT !.seq = @ + 1]
             \/ a' = [a EXCEPT !.go["reader"] = "run", !.seq = @ + 1]
      BY <1>5 DEF WebDialResponse, Reading
    <2>2. CASE a' = [z(FALSE) EXCEPT !.seq = @ + 1]
      <3>. DEFINE y == z(FALSE)
      <3>1. DOMAIN y = AgentFields
        BY ZenonT(40), CloseDoneFields, ReturnsFields DEF AgentShape, Goroutines
      <3>2. y = CloseDone(Returns(a, "reader", FALSE)) /\ a' = [y EXCEPT !.seq = @ + 1]
        BY <2>2
      <3>. HIDE DEF y
      <3>3. DOMAIN a' = DOMAIN y /\ a'.go = y.go /\ a'.done = y.done /\ a'.panic = y.panic
        BY <3>1, <3>2 DEF AgentFields
      <3>. QED  BY <2>1, <3>2, <3>3, AgentEnds DEF AgentOnly
    <2>3. [[a EXCEPT !.go["reader"] = "run"] EXCEPT !.seq = @ + 1]
            = [a EXCEPT !.go["reader"] = "run", !.seq = @ + 1]
      BY DEF AgentShape, AgentFields
    <2>. QED  BY <1>1, <2>1, <2>2, <2>3
  <1>6. ASSUME WebDialReads PROVE AgentMoves
    <2>1. /\ AgentOnly /\ up' = up /\ Reading
          /\ a' = [a EXCEPT !.go["reader"] = "read"] \/ a' = z(FALSE)
      BY <1>6 DEF WebDialReads, Reading
    <2>. QED  BY <1>1, <1>2, <2>1
  <1>. QED  BY <1>3, <1>4, <1>5, <1>6

\* A write to the target is a move.
LEMMA AgentWriteMoves ==
  ASSUME AgentShape, DialInputReceived
  PROVE  AgentMoves
  <1>1. /\ AgentOnly /\ up # <<>> /\ up' = Tail(up)
        /\ a' = Acked(a) \/ a' = [DbKilled(a) EXCEPT !.input = "kill"]
    BY DEF DialInputReceived, Receives, KillByInput
  <1>2. CASE a' = Acked(a)
    BY <1>1, <1>2 DEF Acked, AgentMoves, AgentShape, AgentFields, AgentOnly
  <1>3. CASE a' = [DbKilled(a) EXCEPT !.input = "kill"]
    BY <1>1, <1>3 DEF DbKilled, AgentMoves, AgentShape, AgentFields, AgentOnly
  <1>. QED  BY <1>1, <1>2, <1>3

\* The daemon's goroutines that return.
LEMMA DaemonReturnMoves ==
  ASSUME DaemonShape, PanicInv, Kind \in Careful
  PROVE  \/ DialStopSent \/ PwdbCloseSent \/ DialProcess \/ PwdbProcess
         \/ OpaqueSend \/ KubeExecWrite \/ KubeExecClosed \/ KubeExecSend
         => DaemonMoves
  <1>. DEFINE Quiet == UNCHANGED <<outbox, up>>
  <1>1. ASSUME DaemonOnly, Quiet PROVE PipeMoves /\ Opener' = Opener
    BY <1>1 DEF PipeMoves, DaemonOnly, Opener, Kind
  <1>2. ASSUME NEW t \in {"Close", "Input", "Stop"}, NEW ns, Put(Act(t, ns)), DaemonOnly,
               up' = up
        PROVE  PipeMoves /\ Opener' = Opener
    <2>1. Act(t, ns).t # Opener
      BY DEF Act, Opener
    <2>. QED  BY <1>2, <2>1, PutMoves DEF DaemonOnly
  <1>3. ASSUME DialStopSent PROVE DaemonMoves
    <2>1. /\ DaemonOnly /\ Put(Act("Close", <<>>)) /\ up' = up /\ Kind = "dial"
          /\ d.go["reader"] \notin {"off", "end"}
          /\ d' = CloseDone(Returns(d, "reader", FALSE))
      BY <1>3 DEF DialStopSent
    <2>2. PipeMoves /\ Opener' = Opener
      BY <1>2, <2>1
    <2>. QED
      BY <2>1, <2>2, DaemonReturns DEF DaemonOnly, DaemonShape, Unguarded, Closer
  <1>4. ASSUME PwdbCloseSent PROVE DaemonMoves
    <2>1. /\ DaemonOnly /\ Put(Act("Close", <<>>)) /\ up' = up /\ Kind = "pwdb"
          /\ d.go["reader"] \notin {"off", "end"}
          /\ d' = CloseDone(Returns(d, "reader", TRUE))
      BY <1>4 DEF PwdbCloseSent
    <2>2. PipeMoves /\ Opener' = Opener
      BY <1>2, <2>1
    <2>. QED
      BY <2>1, <2>2, DaemonReturns DEF DaemonOnly, DaemonShape, Unguarded, Closer
  <1>5. ASSUME DialProcess PROVE DaemonMoves
    <2>1. /\ DaemonOnly /\ Quiet /\ Kind = "dial" /\ d.go["writer"] = "run"
      BY <1>5 DEF DialProcess
    <2>2. PipeMoves /\ Opener' = Opener
      BY <1>1, <2>1
    <2>3. PICK m : \/ DialStream(m)
                   \/ d' = [d EXCEPT !.buf = @ \ {m}, !.next = @ + 1]
      BY <1>5 DEF DialProcess
    <2>. DEFINE r == [d EXCEPT !.lost = Unshown(m),
                               !.tmb = IF m.ns # <<>> /\ client.eof THEN "dying" ELSE @]
                s == [r EXCEPT !.ended = TRUE]
    <2>4. \/ d' = [d EXCEPT !.buf = @ \ {m}, !.next = @ + 1]
          \/ d' = [r EXCEPT !.buf = @ \ {m}, !.next = @ + 1]
          \/ d' = Returns(s, "writer", FALSE)
      BY <2>3 DEF DialStream, WriterReturns
    <2>5. /\ DOMAIN r = DaemonFields /\ r.go = d.go /\ r.done = d.done /\ r.panic = d.panic
          /\ r.act = d.act /\ r.handler = d.handler
      BY DEF DaemonShape, DaemonFields
    <2>. HIDE DEF r
    <2>6. /\ DOMAIN s = DaemonFields /\ s.go = d.go /\ s.done = d.done /\ s.panic = d.panic
          /\ s.act = d.act /\ s.handler = d.handler
      BY <2>5 DEF DaemonFields
    <2>. HIDE DEF s
    <2>7. CASE d' = [d EXCEPT !.buf = @ \ {m}, !.next = @ + 1]
      BY <2>1, <2>2, <2>7 DEF DaemonMoves, DaemonShape, DaemonFields, DaemonOnly, Unsent,
         Starting, CloserMoves, Kind, Closer, Goroutines
    <2>8. CASE d' = [r EXCEPT !.buf = @ \ {m}, !.next = @ + 1]
      BY <2>1, <2>2, <2>5, <2>8 DEF DaemonMoves, DaemonShape, DaemonFields, DaemonOnly,
         Unsent, Starting, CloserMoves, Kind, Closer, Goroutines
    <2>9. CASE d' = Returns(s, "writer", FALSE)
      BY <2>1, <2>2, <2>6, <2>9, DaemonReturns DEF DaemonOnly
    <2>. QED  BY <2>4, <2>7, <2>8, <2>9
  <1>6. ASSUME PwdbProcess PROVE DaemonMoves
    <2>1. /\ DaemonOnly /\ Quiet /\ Kind = "pwdb" /\ d.go["writer"] = "run"
      BY <1>6 DEF PwdbProcess
    <2>2. PipeMoves /\ Opener' = Opener
      BY <1>1, <2>1
    <2>. DEFINE r == [d EXCEPT !.ended = TRUE]
                s == [d EXCEPT !.lost = TRUE]
    <2>3. \/ d' = [d EXCEPT !.inq = Tail(@)]
          \/ d' = Returns(r, "writer", TRUE)
          \/ d' = Returns(s, "writer", TRUE)
      BY <1>6 DEF PwdbProcess, PwdbWrite, WriterReturns
    <2>4. /\ DOMAIN r = DaemonFields /\ r.go = d.go /\ r.done = d.done /\ r.panic = d.panic
          /\ r.act = d.act /\ r.handler = d.handler
          /\ DOMAIN s = DaemonFields /\ s.go = d.go /\ s.done = d.done /\ s.panic = d.panic
          /\ s.act = d.act /\ s.handler = d.handler
      BY DEF DaemonShape, DaemonFields
    <2>. HIDE DEF r, s
    <2>5. CASE d' = [d EXCEPT !.inq = Tail(@)]
      BY <2>1, <2>2, <2>5 DEF DaemonMoves, DaemonShape, DaemonFields, DaemonOnly, Unsent,
         Starting, CloserMoves, Kind, Closer, Goroutines
    <2>6. CASE d' = Returns(r, "writer", TRUE)
      BY <2>1, <2>2, <2>4, <2>6, DaemonReturns DEF DaemonOnly
    <2>7. CASE d' = Returns(s, "writer", TRUE)
      BY <2>1, <2>2, <2>4, <2>7, DaemonReturns DEF DaemonOnly
    <2>. QED  BY <2>3, <2>5, <2>6, <2>7
  <1>7. ASSUME OpaqueSend PROVE DaemonMoves
    <2>1. DaemonOnly /\ up' = up /\ Kind = "opaque"
      BY <1>7 DEF OpaqueSend
    <2>2. CASE /\ d.go["reader"] = "put" /\ Put(Act("Input", <<client.sent>>))
               /\ d' = [d EXCEPT !.go["reader"] = "run"]
      <3>1. PipeMoves /\ Opener' = Opener
        BY <1>2, <2>1, <2>2
      <3>. QED
        BY <2>1, <2>2, <3>1 DEF DaemonMoves, DaemonShape, DaemonFields, DaemonOnly, Unsent,
           Starting, Unguarded, Kind, Closer, Goroutines, PanicInv
    <2>3. CASE /\ d.go["reader"] = "stop" /\ Put(Act("Close", <<>>))
               /\ d' = Returns(d, "reader", TRUE)
      <3>1. PipeMoves /\ Opener' = Opener
        BY <1>2, <2>1, <2>3
      <3>. QED  BY <2>1, <2>3, <3>1, DaemonReturns DEF DaemonOnly, DaemonShape
    <2>. QED  BY <1>7, <2>2, <2>3 DEF OpaqueSend
  <1>8. ASSUME KubeExecWrite PROVE DaemonMoves
    <2>1. /\ DaemonOnly /\ Quiet /\ Kind = "kubeexec" /\ d.go["writer"] = "run"
      BY <1>8 DEF KubeExecWrite
    <2>2. PipeMoves /\ Opener' = Opener
      BY <1>1, <2>1
    <2>. DEFINE m == Head(d.inq)
                r == [d EXCEPT !.inq = Tail(@)]
                s == [r EXCEPT !.ended = m.t = "StdOut"]
    <2>3. \/ d' = [r EXCEPT !.lost = Unshown(m)]
          \/ d' = CloseDone(Returns(s, "writer", m.t = "Error"))
      BY <1>8 DEF KubeExecWrite
    <2>4. /\ DOMAIN r = DaemonFields /\ r.go = d.go /\ r.done = d.done /\ r.panic = d.panic
          /\ r.act = d.act /\ r.handler = d.handler
      BY DEF DaemonShape, DaemonFields
    <2>. HIDE DEF r, m
    <2>5. /\ DOMAIN s = DaemonFields /\ s.go = d.go /\ s.done = d.done /\ s.panic = d.panic
          /\ s.act = d.act /\ s.handler = d.handler
      BY <2>4 DEF DaemonFields
    <2>. HIDE DEF s
    <2>6. CASE d' = [r EXCEPT !.lost = Unshown(m)]
      BY <2>1, <2>2, <2>4, <2>6 DEF DaemonMoves, DaemonShape, DaemonFields, DaemonOnly,
         Unsent, Starting, CloserMoves, Kind, Closer, Goroutines
    <2>7. CASE d' = CloseDone(Returns(s, "writer", m.t = "Error"))
      <3>. DEFINE failed == m.t = "Error"
      <3>1. failed \in BOOLEAN /\ d' = CloseDone(Returns(s, "writer", failed))
        BY <2>7
      <3>. HIDE DEF failed
      <3>. QED
        BY <2>1, <2>2, <2>5, <3>1, DaemonReturns DEF DaemonOnly, Unguarded, Closer
    <2>. QED  BY <2>3, <2>6, <2>7
  <1>9. ASSUME KubeExecClosed PROVE DaemonMoves
    <2>1. /\ DaemonOnly /\ Quiet /\ Kind = "kubeexec" /\ d.go["writer"] = "run"
          /\ \/ d' = CloseDone(Returns(d, "writer", FALSE))
             \/ d' = [d EXCEPT !.go["writer"] = "stop"]
      BY <1>9 DEF KubeExecClosed
    <2>2. PipeMoves /\ Opener' = Opener
      BY <1>1, <2>1
    <2>3. CASE d' = CloseDone(Returns(d, "writer", FALSE))
      BY <2>1, <2>2, <2>3, DaemonReturns DEF DaemonOnly, DaemonShape, Unguarded, Closer
    <2>4. CASE d' = [d EXCEPT !.go["writer"] = "stop"]
      BY <2>1, <2>2, <2>4 DEF DaemonMoves, DaemonShape, DaemonFields, DaemonOnly, Unsent,
         Starting, CloserMoves, Closing, Kind, Closer, Goroutines, PanicInv
    <2>. QED  BY <2>1, <2>3, <2>4
  <1>10. ASSUME KubeExecSend PROVE DaemonMoves
    <2>1. DaemonOnly /\ up' = up /\ Kind = "kubeexec"
      BY <1>10 DEF KubeExecSend
    <2>2. CASE /\ d.handler = "put" /\ Put(Act("Input", <<client.sent>>))
               /\ d' = [d EXCEPT !.handler = "run"]
      <3>1. PipeMoves /\ Opener' = Opener
        BY <1>2, <2>1, <2>2
      <3>. QED
        BY <2>1, <2>2, <3>1 DEF DaemonMoves, DaemonShape, DaemonFields, DaemonOnly, Unsent,
           Starting, CloserMoves, Kind, Closer, Goroutines, PanicInv
    <2>3. CASE /\ d.handler = "stop" /\ Put(Act("Stop", <<>>))
               /\ d' = [d EXCEPT !.handler = "end", !.stopped = TRUE]
      <3>1. PipeMoves /\ Opener' = Opener
        BY <1>2, <2>1, <2>3
      <3>. QED
        BY <2>1, <2>3, <3>1 DEF DaemonMoves, DaemonShape, DaemonFields, DaemonOnly, Unsent,
           Starting, CloserMoves, Kind, Closer, Goroutines, PanicInv
    <2>4. CASE /\ d.go["writer"] = "stop" /\ Put(Act("Stop", <<>>))
               /\ d' = CloseDone(Returns([d EXCEPT !.stopped = TRUE], "writer", FALSE))
      <3>1. PipeMoves /\ Opener' = Opener
        BY <1>2, <2>1, <2>4
      <3>. DEFINE r == [d EXCEPT !.stopped = TRUE]
      <3>2. /\ DOMAIN r = DaemonFields /\ r.go = d.go /\ r.done = d.done
            /\ r.panic = d.panic /\ r.act = d.act /\ r.handler = d.handler
            /\ d' = CloseDone(Returns(r, "writer", FALSE))
        BY <2>4 DEF DaemonShape, DaemonFields
      <3>. HIDE DEF r
      <3>. QED
        BY <2>1, <2>4, <3>1, <3>2, DaemonReturns DEF DaemonOnly, Unguarded, Closer
    <2>. QED  BY <1>10, <2>2, <2>3, <2>4 DEF KubeExecSend
  <1>. QED  BY <1>3, <1>4, <1>5, <1>6, <1>7, <1>8, <1>9, <1>10

\* kubeexec starts; webdial writes the response.
LEMMA DaemonOtherMoves ==
  ASSUME DaemonShape, PanicInv, Kind \in Careful
  PROVE  KubeExecStart \/ WebDialProcess => DaemonMoves
  <1>1. ASSUME KubeExecStart PROVE DaemonMoves
    <2>. DEFINE r == [d EXCEPT !.act = "started"]
                s == Go(r, {"writer"})
                h == IF HasStdin THEN "run" ELSE "end"
    <2>1. /\ DaemonOnly /\ up' = up /\ Kind = "kubeexec" /\ d.act = "none"
          /\ \/ Put(Act("Start", <<>>)) /\ d' = [s EXCEPT !.handler = h]
             \/ UNCHANGED outbox /\ d' = [r EXCEPT !.handler = "end"]
      BY <1>1 DEF KubeExecStart, KubeStarts, Leaves
    <2>2. /\ DOMAIN r = DaemonFields /\ r.go = d.go /\ r.done = d.done /\ r.panic = d.panic
          /\ r.act = "started"
      BY DEF DaemonShape, DaemonFields
    <2>. HIDE DEF r, h
    <2>3. /\ DOMAIN s = DaemonFields /\ DOMAIN s.go = Goroutines /\ s.done = d.done
          /\ s.panic = d.panic /\ s.act = "started"
      BY <2>2 DEF Go, DaemonFields
    <2>. HIDE DEF s
    <2>4. CASE Put(Act("Start", <<>>)) /\ d' = [s EXCEPT !.handler = h]
      <3>1. /\ DaemonShape' /\ d'.act = "started" /\ d'.done = d.done /\ d'.panic = d.panic
        BY <2>3, <2>4 DEF DaemonShape, DaemonFields
      <3>2. PipeMoves
        BY <2>1, <2>4, <3>1 DEF PipeMoves, Put, Act, Unsent, Kind, DaemonOnly
      <3>. QED
        BY <2>1, <3>1, <3>2 DEF DaemonMoves, DaemonOnly, Unsent, Starting, CloserMoves
    <2>5. CASE UNCHANGED outbox /\ d' = [r EXCEPT !.handler = "end"]
      BY <2>1, <2>2, <2>5 DEF DaemonMoves, DaemonShape, DaemonFields, DaemonOnly, Unsent,
         Starting, CloserMoves, PipeMoves
    <2>. QED  BY <2>1, <2>4, <2>5
  <1>2. ASSUME WebDialProcess PROVE DaemonMoves
    <2>1. /\ DaemonOnly /\ UNCHANGED <<outbox, up>> /\ Kind = "webdial" /\ d.handler = "run"
      BY <1>2 DEF WebDialProcess
    <2>2. PICK m :
            LET r == [d EXCEPT !.lost = Unshown(m), !.next = @ + 1, !.buf = @ \ {m}]
            IN \/ d' = r
               \/ d' = [r EXCEPT !.handler = "end", !.done = TRUE, !.ended = TRUE]
      BY <1>2 DEF WebDialProcess
    <2>. DEFINE r == [d EXCEPT !.lost = Unshown(m), !.next = @ + 1, !.buf = @ \ {m}]
    <2>3. /\ DOMAIN r = DaemonFields /\ r.go = d.go /\ r.done = d.done /\ r.panic = d.panic
          /\ r.act = d.act /\ r.handler = d.handler
      BY DEF DaemonShape, DaemonFields
    <2>4. d' = r \/ d' = [r EXCEPT !.handler = "end", !.done = TRUE, !.ended = TRUE]
      BY <2>2
    <2>. HIDE DEF r
    <2>5. /\ DOMAIN d' = DaemonFields /\ d'.go = d.go /\ d'.panic = d.panic
          /\ d'.act = d.act /\ d'.handler \in {"run", "end"}
      BY <2>1, <2>3, <2>4 DEF DaemonFields
    <2>6. Kind' = Kind /\ Closer' = Closer /\ Kind \notin Unguarded /\ d.act # "none"
      BY <2>1 DEF Kind, Closer, DaemonOnly, Unguarded, PanicInv
    <2>. QED
      BY <2>1, <2>5, <2>6 DEF DaemonMoves, DaemonShape, DaemonOnly, Unsent, Starting,
         PipeMoves
  <1>. QED  BY <1>1, <1>2

\* The frame.
LEMMA DaemonSharedMoves ==
  ASSUME DaemonShape, PanicInv, Kind \in Careful
  PROVE  \/ ClientEnds \/ TargetEnds \/ Close \/ Zap \/ ReceiveError
         \/ ReceiveStream(Queueing, Streams) \/ PushStream \/ Undelivered
         \/ KillWaiting(DbKinds \cup WebKinds \cup {"kubeexec"})
         \/ KillReturns \/ PluginDone(Kind \in Flushing) \/ Drain \/ Drained
         => DaemonMoves
  <1>. USE DEF PanicInv, DaemonOnly, DaemonMoves, DaemonFields, DaemonShape,
               Goroutines, Careful, Unguarded, Closing, Starting, Unsent,
               CloserMoves, PipeMoves, Closer, Opener, Kind, Put, Act, Go,
               Returns, KillTomb, CloseDone
  <1>1. ASSUME ClientEnds PROVE DaemonMoves
    BY <1>1 DEF ClientEnds
  <1>2. ASSUME TargetEnds PROVE DaemonMoves
    BY <1>2 DEF TargetEnds
  <1>3. ASSUME Close PROVE DaemonMoves
    BY <1>3 DEF Close
  <1>4. ASSUME Zap PROVE DaemonMoves
    BY <1>4 DEF Zap
  <1>5. ASSUME ReceiveError PROVE DaemonMoves
    BY <1>5 DEF ReceiveError
  <1>6. ASSUME ReceiveStream(Queueing, Streams) PROVE DaemonMoves
    BY <1>6 DEF ReceiveStream
  <1>7. ASSUME PushStream PROVE DaemonMoves
    BY <1>7 DEF PushStream
  <1>8. ASSUME Undelivered PROVE DaemonMoves
    BY <1>8 DEF Undelivered
  <1>9. ASSUME KillWaiting(DbKinds \cup WebKinds \cup {"kubeexec"}) PROVE DaemonMoves
    BY <1>9 DEF KillWaiting
  <1>10. ASSUME KillReturns PROVE DaemonMoves
    BY <1>10 DEF KillReturns
  <1>11. ASSUME PluginDone(Kind \in Flushing) PROVE DaemonMoves
    BY <1>11 DEF PluginDone
  <1>12. ASSUME Drain PROVE DaemonMoves
    BY <1>12 DEF Drain
  <1>13. ASSUME Drained PROVE DaemonMoves
    BY <1>13 DEF Drained
  <1>. QED  BY <1>1, <1>2, <1>3, <1>4, <1>5, <1>6, <1>7, <1>8, <1>9, <1>10,
               <1>11, <1>12, <1>13

\* What the agent's datachannel does is a move,
LEMMA AgentSharedMoves ==
  ASSUME AgentShape, Kind \in Careful
  PROVE  \/ ReceiveRefused \/ AgentClose \/ AgentKilled \/ InputKilled
         \/ AgentPluginDone
         => AgentMoves
  <1>. USE DEF AgentOnly, AgentMoves, AgentFields, AgentShape, Goroutines,
               Careful, Reading, Opener, Kind, Receives, Acked, Failed, Send,
               Go, Returns, KillTomb, CloseDone
  <1>1. ASSUME ReceiveRefused PROVE AgentMoves
    BY <1>1 DEF ReceiveRefused
  <1>2. ASSUME AgentClose PROVE AgentMoves
    BY <1>2 DEF AgentClose
  <1>3. ASSUME AgentKilled PROVE AgentMoves
    BY <1>3 DEF AgentKilled
  <1>4. ASSUME InputKilled PROVE AgentMoves
    BY <1>4 DEF InputKilled
  <1>5. ASSUME AgentPluginDone PROVE AgentMoves
    BY <1>5 DEF AgentPluginDone
  <1>. QED  BY <1>1, <1>2, <1>3, <1>4, <1>5

\* dial and pwdb.
LEMMA DaemonDbMoves ==
  ASSUME DaemonShape, PanicInv, Kind \in Careful
  PROVE  \/ DbStartRefused \/ LocalRead \/ LocalReadDying \/ LocalInput
         \/ WriterDying \/ DialStart \/ DialTake \/ PwdbStart
         \/ PwdbReceiveMrtap \/ PwdbStartFails
         => DaemonMoves
  <1>. USE DEF PanicInv, DaemonOnly, DaemonMoves, DaemonFields, DaemonShape,
               Goroutines, Careful, Unguarded, Closing, Starting, Unsent,
               CloserMoves, PipeMoves, Closer, Opener, Kind, Put, Act, Go,
               Returns, KillTomb, CloseDone, DbKinds
  <1>1. ASSUME DbStartRefused PROVE DaemonMoves
    BY <1>1 DEF DbStartRefused
  <1>2. ASSUME LocalRead PROVE DaemonMoves
    BY <1>2 DEF LocalRead
  <1>3. ASSUME LocalReadDying PROVE DaemonMoves
    BY <1>3 DEF LocalReadDying
  <1>4. ASSUME LocalInput PROVE DaemonMoves
    BY <1>4 DEF LocalInput
  <1>5. ASSUME WriterDying PROVE DaemonMoves
    BY <1>5 DEF WriterDying, WriterReturns
  <1>6. ASSUME DialStart PROVE DaemonMoves
    BY <1>6 DEF DialStart, DbStarts
  <1>7. ASSUME DialTake PROVE DaemonMoves
    BY <1>7 DEF DialTake
  <1>8. ASSUME PwdbStart PROVE DaemonMoves
    BY <1>8 DEF PwdbStart, DbStarts
  <1>9. ASSUME PwdbReceiveMrtap PROVE DaemonMoves
    BY <1>9 DEF PwdbReceiveMrtap
  <1>10. ASSUME PwdbStartFails PROVE DaemonMoves
    BY <1>10 DEF PwdbStartFails
  <1>. QED  BY <1>1, <1>2, <1>3, <1>4, <1>5, <1>6, <1>7, <1>8, <1>9, <1>10

\* so is what the db actions do,
LEMMA AgentDbMoves ==
  ASSUME AgentShape, Kind \in Careful
  PROVE  \/ DbCloseReceived \/ PwdbInputReceived \/ RemoteRead \/ RemoteStream
         \/ RemoteEnd \/ RemoteReadDying \/ DbDying
         => AgentMoves
  <1>. USE DEF AgentOnly, AgentMoves, AgentFields, AgentShape, Goroutines,
               Careful, Reading, Opener, Kind, Receives, Acked, Failed, Send,
               Go, Returns, KillTomb, CloseDone, DbKinds
  <1>1. ASSUME DbCloseReceived PROVE AgentMoves
    BY <1>1 DEF DbCloseReceived, KillByInput, DbKilled
  <1>2. ASSUME PwdbInputReceived PROVE AgentMoves
    BY <1>2 DEF PwdbInputReceived
  <1>3. ASSUME RemoteRead PROVE AgentMoves
    BY <1>3 DEF RemoteRead
  <1>4. ASSUME RemoteStream PROVE AgentMoves
    BY <1>4 DEF RemoteStream
  <1>5. ASSUME RemoteEnd PROVE AgentMoves
    BY <1>5 DEF RemoteEnd
  <1>6. ASSUME RemoteReadDying PROVE AgentMoves
    BY <1>6 DEF RemoteReadDying
  <1>7. ASSUME DbDying PROVE AgentMoves
    BY <1>7 DEF DbDying, AgentDying, DbKilled
  <1>. QED  BY <1>1, <1>2, <1>3, <1>4, <1>5, <1>6, <1>7

\* opaque.
LEMMA DaemonOpaqueMoves ==
  ASSUME DaemonShape, PanicInv, Kind \in Careful
  PROVE  \/ OpaqueStart \/ OpaqueRead \/ OpaqueReceiveStream \/ OpaqueDone
         \/ OpaqueKill
         => DaemonMoves
  <1>. USE DEF PanicInv, DaemonOnly, DaemonMoves, DaemonFields, DaemonShape,
               Goroutines, Careful, Unguarded, Closing, Starting, Unsent,
               CloserMoves, PipeMoves, Closer, Opener, Kind, Put, Act, Go,
               Returns, KillTomb, CloseDone
  <1>1. ASSUME OpaqueStart PROVE DaemonMoves
    BY <1>1 DEF OpaqueStart, SshStarts, SshStarted
  <1>2. ASSUME OpaqueRead PROVE DaemonMoves
    BY ZenonT(40), <1>2 DEF OpaqueRead
  <1>3. ASSUME OpaqueReceiveStream PROVE DaemonMoves
    BY ZenonT(40), <1>3 DEF OpaqueReceiveStream
  <1>4. ASSUME OpaqueDone PROVE DaemonMoves
    BY <1>4 DEF OpaqueDone
  <1>5. ASSUME OpaqueKill PROVE DaemonMoves
    BY <1>5 DEF OpaqueKill
  <1>. QED  BY <1>1, <1>2, <1>3, <1>4, <1>5

\* opaque ssh,
LEMMA AgentOpaqueMoves ==
  ASSUME AgentShape, Kind \in Careful
  PROVE  \/ OpaqueInputReceived \/ OpaqueCloseReceived \/ OpaqueDying
         => AgentMoves
  <1>. USE DEF AgentOnly, AgentMoves, AgentFields, AgentShape, Goroutines,
               Careful, Reading, Opener, Kind, Receives, Acked, Failed, Send,
               Go, Returns, KillTomb, CloseDone
  <1>1. ASSUME OpaqueInputReceived PROVE AgentMoves
    BY ZenonT(40), <1>1 DEF OpaqueInputReceived, OpaqueKilled
  <1>2. ASSUME OpaqueCloseReceived PROVE AgentMoves
    BY <1>2 DEF OpaqueCloseReceived, OpaqueKilled
  <1>3. ASSUME OpaqueDying PROVE AgentMoves
    BY <1>3 DEF OpaqueDying, AgentDying, OpaqueKilled
  <1>. QED  BY <1>1, <1>2, <1>3

\* shell and attach.
LEMMA DaemonShellMoves ==
  ASSUME DaemonShape, PanicInv, Kind \in Careful
  PROVE  \/ ShellStart \/ ShellResize \/ ShellKey \/ ShellInput \/ ShellDone
         \/ ShellReceive \/ ShellKill
         => DaemonMoves
  <1>. USE DEF PanicInv, DaemonOnly, DaemonMoves, DaemonFields, DaemonShape,
               Goroutines, Careful, Unguarded, Closing, Starting, Unsent,
               CloserMoves, PipeMoves, Closer, Opener, Kind, Put, Act, Go,
               Returns, KillTomb, CloseDone, ShellKinds
  <1>1. ASSUME ShellStart PROVE DaemonMoves
    BY <1>1 DEF ShellStart, ShellOpen
  <1>2. ASSUME ShellResize PROVE DaemonMoves
    BY <1>2 DEF ShellResize
  <1>3. ASSUME ShellKey PROVE DaemonMoves
    BY ZenonT(40), <1>3 DEF ShellKey
  <1>4. ASSUME ShellInput PROVE DaemonMoves
    BY <1>4 DEF ShellInput
  <1>5. ASSUME ShellDone PROVE DaemonMoves
    BY <1>5 DEF ShellDone
  <1>6. ASSUME ShellReceive PROVE DaemonMoves
    BY ZenonT(40), <1>6 DEF ShellReceive
  <1>7. ASSUME ShellKill PROVE DaemonMoves
    BY <1>7 DEF ShellKill
  <1>. QED  BY <1>1, <1>2, <1>3, <1>4, <1>5, <1>6, <1>7

\* the shell,
LEMMA AgentShellMoves ==
  ASSUME AgentShape, Kind \in Careful
  PROVE  \/ ShellInputReceived \/ ShellResizeReceived \/ ShellReplayReceived
         \/ ShellPumpRead \/ ShellPumpSend \/ ShellPumpEnds \/ ShellDying
         \/ ShellKilled
         => AgentMoves
  <1>. USE DEF AgentOnly, AgentMoves, AgentFields, AgentShape, Goroutines,
               Careful, Reading, Opener, Kind, Receives, Acked, Failed, Send,
               Go, Returns, KillTomb, CloseDone, ShellKinds
  <1>1. ASSUME ShellInputReceived PROVE AgentMoves
    BY <1>1 DEF ShellInputReceived
  <1>2. ASSUME ShellResizeReceived PROVE AgentMoves
    BY <1>2 DEF ShellResizeReceived
  <1>3. ASSUME ShellReplayReceived PROVE AgentMoves
    BY <1>3 DEF ShellReplayReceived
  <1>4. ASSUME ShellPumpRead PROVE AgentMoves
    BY <1>4 DEF ShellPumpRead
  <1>5. ASSUME ShellPumpSend PROVE AgentMoves
    BY <1>5 DEF ShellPumpSend
  <1>6. ASSUME ShellPumpEnds PROVE AgentMoves
    BY <1>6 DEF ShellPumpEnds, PumpReturns
  <1>7. ASSUME ShellDying PROVE AgentMoves
    BY <1>7 DEF ShellDying, AgentDying
  <1>8. ASSUME ShellKilled PROVE AgentMoves
    BY <1>8 DEF ShellKilled
  <1>. QED  BY <1>1, <1>2, <1>3, <1>4, <1>5, <1>6, <1>7, <1>8

\* webdial.
LEMMA DaemonWebDialMoves ==
  ASSUME DaemonShape, PanicInv, Kind \in Careful
  PROVE  \/ WebStartRefused \/ WebDialStart \/ WebDialBody \/ WebDialCancelled
         \/ WebDialDying \/ WebDialTake
         => DaemonMoves
  <1>. USE DEF PanicInv, DaemonOnly, DaemonMoves, DaemonFields, DaemonShape,
               Goroutines, Careful, Unguarded, Closing, Starting, Unsent,
               CloserMoves, PipeMoves, Closer, Opener, Kind, Put, Act, Go,
               Returns, KillTomb, CloseDone
  <1>1. ASSUME WebStartRefused PROVE DaemonMoves
    BY <1>1 DEF WebStartRefused
  <1>2. ASSUME WebDialStart PROVE DaemonMoves
    BY <1>2 DEF WebDialStart, WebStarts
  <1>3. ASSUME WebDialBody PROVE DaemonMoves
    BY <1>3 DEF WebDialBody
  <1>4. ASSUME WebDialCancelled PROVE DaemonMoves
    BY <1>4 DEF WebDialCancelled, HandlerReturns
  <1>5. ASSUME WebDialDying PROVE DaemonMoves
    BY <1>5 DEF WebDialDying, HandlerReturns
  <1>6. ASSUME WebDialTake PROVE DaemonMoves
    BY <1>6 DEF WebDialTake
  <1>. QED  BY <1>1, <1>2, <1>3, <1>4, <1>5, <1>6

\* webdial
LEMMA AgentWebDialMoves ==
  ASSUME AgentShape, Kind \in Careful
  PROVE  \/ WebDialStartReceived \/ WebDialInputReceived
         \/ WebDialInterruptReceived \/ WebAgentDying
         => AgentMoves
  <1>. USE DEF AgentOnly, AgentMoves, AgentFields, AgentShape, Goroutines,
               Careful, Reading, Opener, Kind, Receives, Acked, Failed, Send,
               Go, Returns, KillTomb, CloseDone
  <1>1. ASSUME WebDialStartReceived PROVE AgentMoves
    BY <1>1 DEF WebDialStartReceived
  <1>2. ASSUME WebDialInputReceived PROVE AgentMoves
    BY <1>2 DEF WebDialInputReceived
  <1>3. ASSUME WebDialInterruptReceived PROVE AgentMoves
    BY <1>3 DEF WebDialInterruptReceived
  <1>4. ASSUME WebAgentDying PROVE AgentMoves
    BY <1>4 DEF WebAgentDying, AgentDying
  <1>. QED  BY <1>1, <1>2, <1>3, <1>4

\* kubeexec.
LEMMA DaemonKubeExecMoves ==
  ASSUME DaemonShape, PanicInv, Kind \in Careful
  PROVE  \/ KubeStartRefused \/ KubeExecRead \/ KubeExecResize
         => DaemonMoves
  <1>. USE DEF PanicInv, DaemonOnly, DaemonMoves, DaemonFields, DaemonShape,
               Goroutines, Careful, Unguarded, Closing, Starting, Unsent,
               CloserMoves, PipeMoves, Closer, Opener, Kind, Put, Act, Go,
               Returns, KillTomb, CloseDone
  <1>1. ASSUME KubeStartRefused PROVE DaemonMoves
    BY <1>1 DEF KubeStartRefused
  <1>2. ASSUME KubeExecRead PROVE DaemonMoves
    BY <1>2 DEF KubeExecRead
  <1>3. ASSUME KubeExecResize PROVE DaemonMoves
    BY <1>3 DEF KubeExecResize
  <1>. QED  BY <1>1, <1>2, <1>3

\* and kube exec.
LEMMA AgentKubeExecMoves ==
  ASSUME AgentShape, Kind \in Careful
  PROVE  \/ KubeExecInputReceived \/ KubeExecResizeReceived \/ KubeExecStopReceived
         \/ KubeExecStdin \/ KubeExecStdout \/ KubeExecEnds \/ KubeExecDying \/ KubeExecKilled
         => AgentMoves
  <1>. USE DEF AgentOnly, AgentMoves, AgentFields, AgentShape, Goroutines,
               Careful, Reading, Opener, Kind, Receives, Acked, Failed, Send,
               Go, Returns, KillTomb, CloseDone
  <1>1. ASSUME KubeExecInputReceived PROVE AgentMoves
    BY <1>1 DEF KubeExecInputReceived
  <1>2. ASSUME KubeExecStopReceived PROVE AgentMoves
    BY <1>2 DEF KubeExecStopReceived
  <1>3. ASSUME KubeExecStdin PROVE AgentMoves
    BY <1>3 DEF KubeExecStdin
  <1>4. ASSUME KubeExecStdout PROVE AgentMoves
    BY <1>4 DEF KubeExecStdout
  <1>5. ASSUME KubeExecEnds PROVE AgentMoves
    BY <1>5 DEF KubeExecEnds
  <1>6. ASSUME KubeExecDying PROVE AgentMoves
    BY <1>6 DEF KubeExecDying, AgentDying
  <1>7. ASSUME KubeExecKilled PROVE AgentMoves
    BY <1>7 DEF KubeExecKilled
  <1>8. ASSUME KubeExecResizeReceived PROVE AgentMoves
    BY <1>8 DEF KubeExecResizeReceived
  <1>. QED  BY <1>1, <1>2, <1>3, <1>4, <1>5, <1>6, <1>7, <1>8

-----------------------------------------------------------------------------
(* All steps together.                                                     *)

\* No step changes the scene.
LEMMA SceneStays ==
  ASSUME Next
  PROVE  UNCHANGED scene
  <1>. USE DEF DaemonOnly, AgentOnly, AgentDying
  <1>1. CASE DaemonChannel
    BY <1>1 DEF DaemonChannel, ReceiveError, ReceiveStream, PushStream, Undelivered,
       KillWaiting, KillReturns, PluginDone, Drain, Drained
  <1>2. CASE AgentChannel
    BY <1>2 DEF AgentChannel, ReceiveRefused, AgentClose, AgentKilled, InputKilled,
       AgentPluginDone
  <1>3. CASE DbNext
    BY <1>3 DEF DbNext, DbStartRefused, LocalRead, LocalReadDying, LocalInput, WriterDying,
       DialStart, DialStopSent, DialTake, DialProcess, PwdbStart, PwdbReceiveMrtap,
       PwdbStartFails, PwdbCloseSent, PwdbProcess, DialStartReceived,
       DialInputReceived, DbCloseReceived, PwdbConnectReceived, PwdbInputReceived,
       RemoteRead, RemoteStream, RemoteEnd, RemoteReadDying, DbDying
  <1>4. CASE SshNext
    BY <1>4 DEF SshNext, OpaqueStart, OpaqueRead, OpaqueSend, OpaqueReceiveStream, OpaqueDone,
       OpaqueKill, TransparentStart, TransparentRequest, TransparentExec,
       TransparentRead, TransparentSend, TransparentReceiveStream, TransparentKill,
       OpaqueOpenReceived, OpaqueInputReceived, OpaqueCloseReceived, OpaqueRemoteRead,
       OpaqueRemoteSend, OpaqueDying, TransparentOpenReceived,
       TransparentInputReceived, TransparentExecReceived, TransparentCloseReceived,
       TransparentKillsTomb, TransparentStdin, TransparentPipe, TransparentDying
  <1>5. CASE ShellNext
    BY <1>5 DEF ShellNext, ShellStart, ShellResize, ShellKey, ShellInput, ShellDone,
       ShellReceive, ShellKill, ShellOpenReceived, ShellInputReceived,
       ShellResizeReceived, ShellReplayReceived, ShellPumpRead, ShellPumpSend,
       ShellPumpEnds, ShellDying, ShellKilled
  <1>6. CASE WebNext
    BY <1>6 DEF WebNext, WebStartRefused, WebDialStart, WebDialBody, WebDialCancelled,
       WebDialDying, WebDialTake, WebDialProcess, WebWsStart, WebWsRead, WebWsSend,
       WebWsWrite, WebDialStartReceived, WebDialInputReceived, WebDialLastReceived,
       WebDialInterruptReceived, WebDialReads, WebDialResponse, WebWsStartReceived,
       WebWsInputReceived, WebWsStopReceived, WebWsRemoteRead, WebAgentDying
  <1>7. CASE KubeNext
    BY <1>7 DEF KubeNext, KubeStartRefused, KubeBodyBreaks, KubeKill, KubeHandlerDone,
       RestStart, RestCancelled, RestReceiveMrtap, RestResponse, KubeStreamStart,
       KubeStreamHead, KubeStreamKept, KubeStreamTake, KubeStreamCancelled,
       KubeExecStart, KubeExecWrite, KubeExecClosed, KubeExecRead, KubeExecSend,
       KubeExecResize, KubeExecResizeReceived,
       RestRequestReceived, RestReplied, RestDying, KubeStreamStartReceived,
       KubeStreamStopReceived, KubeStreamRead, KubeStreamSend, KubeStreamLastLog,
       KubeStreamDying, KubeExecStartReceived, KubeExecInputReceived,
       KubeExecStopReceived, KubeExecStdin, KubeExecStdout, KubeExecEnds,
       KubeExecDying, KubeExecKilled
  <1>8. CASE PfNext
    BY <1>8 DEF PfNext, PfStart, PfReady, PfStreamArrives, PfPairTimesOut, PfEnds, PfClose,
       PfKill, PfReceiveStream, PfTake, PfTakeKept, PfForwarded, PfRead, PfSend,
       PfErrorStream, PfStartReceived, PfDataReceived, PfStopRequestReceived,
       PfRequestKilled, PfStopReceived, PfStopped, PfDying, PfKilled, PfConnBreaks,
       PfConnClosed, PfWrite, PfRemoteRead, PfRemoteSend, PfRemoteErrors
  <1>. QED
    BY <1>1, <1>2, <1>3, <1>4, <1>5, <1>6, <1>7, <1>8 DEF Next, ClientEnds,
       TargetEnds, Close, Zap

\* A kind that does not panic moves like that.
LEMMA StepMoves ==
  ASSUME DaemonShape, AgentShape, PanicInv, Kind \in Careful, Next
  PROVE  DaemonMoves \/ AgentMoves
  <1>1. CASE ClientEnds \/ TargetEnds \/ Close \/ Zap \/ DaemonChannel
    BY <1>1, DaemonSharedMoves DEF DaemonChannel
  <1>2. CASE AgentChannel
    BY <1>2, AgentSharedMoves DEF AgentChannel
  <1>3. CASE DbNext
    BY <1>3, DaemonDbMoves, AgentDbMoves, DaemonReturnMoves, AgentOpenerMoves,
       AgentWriteMoves DEF DbNext
  <1>4. CASE SshNext
    <2>1. ~(\/ TransparentStart \/ TransparentRequest \/ TransparentExec
            \/ TransparentRead \/ TransparentSend \/ TransparentReceiveStream
            \/ TransparentKill \/ TransparentOpenReceived \/ TransparentInputReceived
            \/ TransparentExecReceived \/ TransparentCloseReceived
            \/ TransparentKillsTomb \/ TransparentStdin
            \/ TransparentPipe("reader", "StdOut")
            \/ TransparentPipe("errs", "StdErr") \/ TransparentDying)
      BY DEF Careful, TransparentStart, TransparentRequest, TransparentExec,
         TransparentRead, TransparentSend, TransparentReceiveStream, TransparentKill,
         TransparentOpenReceived, TransparentInputReceived, TransparentExecReceived,
         TransparentCloseReceived, TransparentKillsTomb, TransparentStdin,
         TransparentPipe, TransparentDying
    <2>. QED
      BY <1>4, <2>1, DaemonOpaqueMoves, AgentOpaqueMoves, DaemonReturnMoves,
         AgentOpenerMoves, AgentReaderMoves DEF SshNext
  <1>5. CASE ShellNext
    BY <1>5, DaemonShellMoves, AgentShellMoves, AgentOpenerMoves DEF ShellNext
  <1>6. CASE WebNext
    <2>1. ~(\/ WebWsStart \/ WebWsRead \/ WebWsSend \/ WebWsWrite
            \/ WebWsStartReceived \/ WebWsInputReceived \/ WebWsStopReceived
            \/ WebWsRemoteRead)
      BY DEF Careful, WebWsStart, WebWsRead, WebWsSend, WebWsWrite, WebWsStartReceived,
         WebWsInputReceived, WebWsStopReceived, WebWsRemoteRead
    <2>. QED
      BY <1>6, <2>1, DaemonWebDialMoves, AgentWebDialMoves, DaemonOtherMoves,
         AgentOpenerMoves, AgentReaderMoves DEF WebNext
  <1>7. CASE KubeNext
    <2>1. ~(\/ KubeBodyBreaks \/ KubeKill \/ KubeHandlerDone \/ RestStart
            \/ RestCancelled \/ RestReceiveMrtap \/ RestResponse \/ KubeStreamStart
            \/ KubeStreamHead \/ KubeStreamKept \/ KubeStreamTake
            \/ KubeStreamCancelled \/ RestRequestReceived \/ RestReplied \/ RestDying
            \/ KubeStreamStartReceived \/ KubeStreamStopReceived \/ KubeStreamRead
            \/ KubeStreamSend \/ KubeStreamLastLog \/ KubeStreamDying)
      BY DEF Careful, KubeBodyBreaks, KubeKill, KubeHandlerDone, RestStart, RestCancelled,
         RestReceiveMrtap, RestResponse, KubeStreamStart, KubeStreamHead,
         KubeStreamKept, KubeStreamTake, KubeStreamCancelled, RestRequestReceived,
         RestReplied, RestDying, KubeStreamStartReceived, KubeStreamStopReceived,
         KubeStreamRead, KubeStreamSend, KubeStreamLastLog, KubeStreamDying
    <2>. QED
      BY <1>7, <2>1, DaemonKubeExecMoves, AgentKubeExecMoves, DaemonReturnMoves,
         DaemonOtherMoves, AgentOpenerMoves DEF KubeNext
  <1>8. CASE PfNext
    BY <1>8 DEF Careful, PfKind, PfNext, PfStart, PfReady, PfStreamArrives, PfPairTimesOut,
       PfEnds, PfClose, PfKill, PfReceiveStream, PfTake, PfTakeKept, PfForwarded,
       PfRead, PfSend, PfErrorStream, PfStartReceived, PfDataReceived,
       PfStopRequestReceived, PfRequestKilled, PfStopReceived, PfStopped, PfDying,
       PfKilled, PfConnBreaks, PfConnClosed, PfWrite, PfRemoteRead, PfRemoteSend,
       PfRemoteErrors
  <1>. QED
    BY <1>1, <1>2, <1>3, <1>4, <1>5, <1>6, <1>7, <1>8 DEF Next

-----------------------------------------------------------------------------
\* The whole invariant.
NoPanicInv ==
  /\ scene \in Scenes
  /\ Kind \in Careful => DaemonShape /\ AgentShape /\ OpenerInv /\ PanicInv

\* The invariants hold at the start of a session.
LEMMA InitShapes ==
  ASSUME Init
  PROVE  /\ scene \in Scenes /\ outbox = <<>> /\ up = <<>> /\ DaemonShape /\ AgentShape
         /\ d.act = "none" /\ d.handler = "off" /\ ~d.done /\ ~d.panic
         /\ d.go = [g \in Goroutines |-> "off"]
         /\ ~a.done /\ ~a.panic /\ (Kind # "attach" => a.go["reader"] = "off")
  <1>1. /\ scene \in Scenes /\ outbox = <<>> /\ up = <<>>
    BY DEF Init, SessionInit
  <1>2. /\ DaemonShape /\ d.act = "none" /\ d.handler = "off" /\ ~d.done /\ ~d.panic
        /\ d.go = [g \in Goroutines |-> "off"]
    BY DEF Init, DaemonInit, DaemonShape, DaemonFields
  <1>. DEFINE a0 == AgentInit(Kind \in SshKinds, Ring!New(RingSize))
  <1>3. /\ DOMAIN a0 = AgentFields /\ a0.go = [g \in Goroutines |-> "off"]
        /\ a0.done = FALSE /\ a0.panic = FALSE
    BY DEF AgentInit, AgentFields
  <1>4. a = IF Kind = "attach" THEN Attachable(a0) ELSE a0
    BY DEF Init
  <1>. HIDE DEF a0
  <1>5. AgentShape /\ ~a.done /\ ~a.panic /\ (Kind # "attach" => a.go["reader"] = "off")
    BY <1>3, <1>4 DEF Attachable, AgentShape, AgentFields, Goroutines
  <1>. QED  BY <1>1, <1>2, <1>5

\* It holds in every state that a session reaches.
LEMMA NeverPanics == Spec => []NoPanicInv
  <1>1. Init => NoPanicInv
    <2>. SUFFICES ASSUME Init PROVE NoPanicInv
      OBVIOUS
    <2>1. OpenerInv
      <3>1. IsSeq(<<>>)
        BY DEF IsSeq
      <3>. QED  BY <3>1, InitShapes DEF OpenerInv, HasOpener, OneOpener
    <2>2. PanicInv
      BY InitShapes DEF PanicInv, Goroutines, Closer
    <2>. QED  BY <2>1, <2>2, InitShapes DEF NoPanicInv
  <1>2. NoPanicInv /\ [Next]_vars => NoPanicInv'
    <2>. SUFFICES ASSUME NoPanicInv, [Next]_vars PROVE NoPanicInv'
      OBVIOUS
    <2>1. CASE Next
      <3>1. scene' = scene /\ Kind' = Kind
        BY <2>1, SceneStays DEF Kind
      <3>2. CASE Kind \in Careful
        <4>1. DaemonShape /\ AgentShape /\ OpenerInv /\ PanicInv
          BY <3>2 DEF NoPanicInv
        <4>2. DaemonMoves \/ AgentMoves
          BY <2>1, <3>2, <4>1, StepMoves
        <4>3. DaemonShape' /\ AgentShape'
          BY <4>1, <4>2 DEF DaemonMoves, AgentMoves, DaemonShape, AgentShape
        <4>4. OpenerInv' /\ PanicInv'
          BY <4>1, <4>2, DaemonMovesKeep, AgentMovesKeep
        <4>. QED  BY <3>1, <4>3, <4>4 DEF NoPanicInv
      <3>. QED  BY <3>1, <3>2 DEF NoPanicInv, Careful
    <2>2. CASE UNCHANGED vars
      BY <2>2 DEF vars, NoPanicInv, Kind, DaemonShape, AgentShape, OpenerInv, PanicInv,
         HasOpener, OneOpener, Opener, Unsent, Closer
    <2>. QED  BY <2>1, <2>2
  <1>. QED  BY <1>1, <1>2, PTL DEF Spec

\* doneChan of the seven careful actions is closed once, and nothing that is gone is
\* used: neither the daemon nor the agent panics, however long the session and whatever
\* the client, the target, the data channel and Close do at the same time.  (NoPanic)
THEOREM ActionsDoNotPanic == Spec => []NoPanic
  <1>1. NoPanicInv => NoPanic
    BY SceneAssumption DEF NoPanicInv, NoPanic, PanicInv, Careful, Kind, Early, Flushing,
       SshKinds, ShellKinds, DbKinds, WebKinds, KubeKinds
  <1>. QED  BY <1>1, NeverPanics, PTL

-----------------------------------------------------------------------------
(* The host keys come first.                                               *)

\* Without reordering the daemon takes the oldest message.
LEMMA TakesHead ==
  ASSUME IsSeq(down), ~scene.reorder, NEW m, Takes(m)
  PROVE  down # <<>> /\ m = Head(down) /\ down' = Tail(down)
  <1>1. PICK i \in DOMAIN down : i = 1 /\ m = down[i] /\ down' = RemoveAt(down, i)
    BY DEF Takes
  <1>2. PICK S : down \in Seq(S)
    BY DEF IsSeq
  <1>3. down # <<>> /\ Len(down) \in Nat \ {0} /\ m = Head(down)
    BY <1>1, <1>2
  <1>4. SubSeq(down, 1, 0) = <<>> /\ SubSeq(down, 2, Len(down)) = Tail(down)
    BY <1>2, <1>3
  <1>5. Tail(down) \in Seq(S)
    BY <1>2, <1>3
  <1>6. <<>> \o Tail(down) = Tail(down)
    BY <1>5
  <1>. QED  BY <1>1, <1>3, <1>4, <1>6 DEF RemoveAt

\* The steps of an opaque ssh session.
OpaqueShared ==
  \/ ClientEnds \/ TargetEnds \/ Close \/ Zap \/ ReceiveError \/ PushStream
  \/ Undelivered \/ KillReturns \/ PluginDone(Kind \in Flushing) \/ Drain \/ Drained
  \/ AgentChannel

OpaqueSteps ==
  \/ OpaqueStart \/ OpaqueRead \/ OpaqueSend \/ OpaqueReceiveStream
  \/ OpaqueDone \/ OpaqueKill
  \/ OpaqueOpenReceived \/ OpaqueInputReceived \/ OpaqueCloseReceived
  \/ OpaqueRemoteRead \/ OpaqueRemoteSend \/ OpaqueDying

\* The steps of a session of opaque ssh.
LEMMA OpaqueNext ==
  ASSUME Kind = "opaque", Next
  PROVE  OpaqueShared \/ OpaqueSteps
  <1>. USE DEF DbKinds, ShellKinds, WebKinds, KubeKinds
  <1>1. ~DbNext
    BY DEF DbNext, DbStartRefused, LocalRead, LocalReadDying, LocalInput, WriterDying,
       DialStart, DialStopSent, DialTake, DialProcess, PwdbStart, PwdbReceiveMrtap,
       PwdbStartFails, PwdbCloseSent, PwdbProcess, DialStartReceived,
       DialInputReceived, DbCloseReceived, PwdbConnectReceived, PwdbInputReceived,
       RemoteRead, RemoteStream, RemoteEnd, RemoteReadDying, DbDying
  <1>2. ~ShellNext
    BY DEF ShellNext, ShellStart, ShellResize, ShellKey, ShellInput, ShellDone,
       ShellReceive, ShellKill, ShellOpenReceived, ShellInputReceived,
       ShellResizeReceived, ShellReplayReceived, ShellPumpRead, ShellPumpSend,
       ShellPumpEnds, ShellDying, ShellKilled
  <1>3. ~WebNext
    BY DEF WebNext, WebStartRefused, WebDialStart, WebDialBody, WebDialCancelled,
       WebDialDying, WebDialTake, WebDialProcess, WebWsStart, WebWsRead, WebWsSend,
       WebWsWrite, WebDialStartReceived, WebDialInputReceived, WebDialLastReceived,
       WebDialInterruptReceived, WebDialReads, WebDialResponse, WebWsStartReceived,
       WebWsInputReceived, WebWsStopReceived, WebWsRemoteRead, WebAgentDying
  <1>4. ~KubeNext
    BY DEF KubeNext, KubeStartRefused, KubeBodyBreaks, KubeKill, KubeHandlerDone,
       RestStart, RestCancelled, RestReceiveMrtap, RestResponse, KubeStreamStart,
       KubeStreamHead, KubeStreamKept, KubeStreamTake, KubeStreamCancelled,
       KubeExecStart, KubeExecWrite, KubeExecClosed, KubeExecRead, KubeExecSend,
       KubeExecResize, KubeExecResizeReceived,
       RestRequestReceived, RestReplied, RestDying, KubeStreamStartReceived,
       KubeStreamStopReceived, KubeStreamRead, KubeStreamSend, KubeStreamLastLog,
       KubeStreamDying, KubeExecStartReceived, KubeExecInputReceived,
       KubeExecStopReceived, KubeExecStdin, KubeExecStdout, KubeExecEnds,
       KubeExecDying, KubeExecKilled
  <1>5. ~PfNext
    BY DEF PfNext, PfKind, PfStart, PfReady, PfStreamArrives, PfPairTimesOut, PfEnds,
       PfClose, PfKill, PfReceiveStream, PfTake, PfTakeKept, PfForwarded, PfRead,
       PfSend, PfErrorStream, PfStartReceived, PfDataReceived, PfStopRequestReceived,
       PfRequestKilled, PfStopReceived, PfStopped, PfDying, PfKilled, PfConnBreaks,
       PfConnClosed, PfWrite, PfRemoteRead, PfRemoteSend, PfRemoteErrors
  <1>6. ~(\/ TransparentStart \/ TransparentRequest \/ TransparentExec
          \/ TransparentRead \/ TransparentSend \/ TransparentReceiveStream
          \/ TransparentKill \/ TransparentOpenReceived \/ TransparentInputReceived
          \/ TransparentExecReceived \/ TransparentCloseReceived
          \/ TransparentKillsTomb \/ TransparentStdin
          \/ TransparentPipe("reader", "StdOut") \/ TransparentPipe("errs", "StdErr")
          \/ TransparentDying)
    BY DEF TransparentStart, TransparentRequest, TransparentExec, TransparentRead,
       TransparentSend, TransparentReceiveStream, TransparentKill,
       TransparentOpenReceived, TransparentInputReceived, TransparentExecReceived,
       TransparentCloseReceived, TransparentKillsTomb, TransparentStdin,
       TransparentPipe, TransparentDying
  <1>7. /\ ~ReceiveStream(Queueing, Streams)
        /\ ~KillWaiting(DbKinds \cup WebKinds \cup {"kubeexec"})
    BY DEF ReceiveStream, KillWaiting, Queueing, Flushing
  <1>. QED
    BY <1>1, <1>2, <1>3, <1>4, <1>5, <1>6, <1>7 DEF Next, SshNext, DaemonChannel,
       OpaqueShared, OpaqueSteps

ClientFields == {"sent", "got", "eof", "shut"}

\* No host key and no output is on its way.
NothingComes == \A i \in DOMAIN down : down[i].t \notin {"Data", "StdOut"}

\* The host keys come before everything else, and with those that have come they
\* are all that the agent has; or they stay in the agent, and so does the output.
KeysFirst ==
  \/ ~Forwards(a) /\ client.got = <<>> /\ NothingComes
  \/ \E k \in 0..Len(down) : /\ \A i \in DOMAIN down : down[i].t = "Data" <=> i <= k
                             /\ d.next + k = a.seq

\* Nothing comes before the daemon has its data channel, which would throw it
\* away, and nothing before the agent has answered to Open.
KeysInv ==
  /\ IsSeq(down) /\ DOMAIN client = ClientFields
  /\ a.seq \in Nat /\ d.next \in Nat
  /\ d.dc \in {"none", "run", "gone"}
  /\ d.dc = "none" =>
       /\ outbox = <<>> /\ up = <<>> /\ down = <<>>
       /\ d.go["reader"] = "off" /\ a.go["reader"] = "off"
  /\ a.go["reader"] = "off" =>
       /\ a.seq = 0 /\ d.next = 0 /\ client.got = <<>>
       /\ NothingComes /\ (a.broken \/ down = <<>>)
  /\ client.got # <<>> => d.next = a.seq
  /\ d.dc = "gone" \/ KeysFirst

\* The agent's data channel only goes on; its reader was started with the keys.
ReaderMoves ==
  /\ a'.seq = a.seq /\ (a.broken => a'.broken)
  /\ a'.go["reader"] = "off" <=> a.go["reader"] = "off"
  /\ Forwards(a') => Forwards(a)

\* KeysInv survives a step that moves no messages,
LEMMA KeysQuiet ==
  ASSUME KeysInv, UNCHANGED down, DOMAIN client' = ClientFields, client'.got = client.got,
         d'.next = d.next, ReaderMoves,
         \/ d'.dc = d.dc /\ (d.dc = "none" => UNCHANGED <<outbox, up>>)
         \/ d.dc = "none" /\ d'.dc = "run"
         \/ d.dc # "none" /\ d'.dc = "gone",
         d'.dc = "none" => d'.go["reader"] = "off"
  PROVE  KeysInv'
  <1>1. NothingComes => NothingComes'
    BY DEF NothingComes
  <1>2. KeysFirst => KeysFirst'
    BY <1>1 DEF KeysFirst, ReaderMoves, NothingComes
  <1>. QED  BY <1>1, <1>2 DEF KeysInv, ReaderMoves

\* one that takes a message from the wire
LEMMA KeysTaken ==
  ASSUME KeysInv, UNCHANGED a, down # <<>>, down' = Tail(down), d.dc # "none",
         d'.dc = d.dc, DOMAIN client' = ClientFields,
         client'.got # client.got => d.dc # "gone" /\ Head(down).t = "StdOut",
         d'.next = IF d.dc # "gone" /\ Head(down).t = "Data" THEN d.next + 1 ELSE d.next
  PROVE  KeysInv'
  <1>1. /\ IsSeq(down') /\ DOMAIN down' = 1..(Len(down) - 1) /\ DOMAIN down = 1..Len(down)
        /\ Len(down) \in Nat \ {0} /\ Head(down) = down[1]
        /\ \A i \in 1..(Len(down) - 1) : down'[i] = down[i + 1]
        /\ IsSeq(down') /\ Len(down') = Len(down) - 1
    BY TailMoves DEF KeysInv, IsSeq
  <1>2. NothingComes => NothingComes' /\ client'.got = client.got /\ d'.next = d.next
    BY <1>1 DEF NothingComes
  <1>3. ASSUME d.dc # "gone"
        PROVE  /\ client'.got # client.got => d'.next = a.seq
               /\ KeysFirst'
               /\ client.got # <<>> => d'.next = a.seq
    <2>1. CASE ~Forwards(a) /\ client.got = <<>> /\ NothingComes
      BY <1>2, <2>1 DEF KeysFirst
    <2>2. ASSUME NEW k \in 0..Len(down), d.next + k = a.seq,
                 \A i \in DOMAIN down : down[i].t = "Data" <=> i <= k
          PROVE  /\ client'.got # client.got => d'.next = a.seq
                 /\ KeysFirst'
                 /\ client.got # <<>> => d'.next = a.seq
      <3>1. CASE Head(down).t = "Data"
        <4>1. /\ k - 1 \in 0..Len(down') /\ d'.next = d.next + 1
              /\ d'.next + (k - 1) = a'.seq
          BY <1>1, <1>3, <2>2, <3>1 DEF KeysInv
        <4>2. \A i \in DOMAIN down' : down'[i].t = "Data" <=> i <= k - 1
          BY <1>1, <2>2
        <4>3. client.got = <<>>
          BY <1>1, <2>2, <3>1 DEF KeysInv
        <4>. QED  BY <3>1, <4>1, <4>2, <4>3 DEF KeysFirst
      <3>2. CASE Head(down).t # "Data"
        <4>1. k = 0 /\ d'.next = d.next /\ d'.next = a.seq
          BY <1>1, <2>2, <3>2 DEF KeysInv
        <4>2. 0 \in 0..Len(down') /\ d'.next + 0 = a'.seq
          BY <1>1, <4>1 DEF KeysInv
        <4>3. \A i \in DOMAIN down' : down'[i].t = "Data" <=> i <= 0
          BY <1>1, <2>2, <4>1
        <4>. QED  BY <4>1, <4>2, <4>3 DEF KeysFirst
      <3>. QED  BY <3>1, <3>2
    <2>. QED  BY <1>3, <2>1, <2>2 DEF KeysInv, KeysFirst
  <1>4. a.go["reader"] = "off" => a.broken
    BY DEF KeysInv
  <1>. QED  BY <1>1, <1>2, <1>3, <1>4 DEF KeysInv

\* and one that sends a message, if the keys went first.
LEMMA KeysSent ==
  ASSUME KeysInv, UNCHANGED <<d, client>>, d.dc # "none", NEW m,
         Forwards(a), down' = Append(down, m), m.t # "Data",
         m.t = "StdOut" => a.go["reader"] # "off",
         a.go["reader"] = "off" => a'.broken,
         ReaderMoves
  PROVE  KeysInv'
  <1>1. /\ IsSeq(down') /\ DOMAIN down' = 1..(Len(down) + 1) /\ DOMAIN down = 1..Len(down)
        /\ Len(down) \in Nat /\ down'[Len(down) + 1] = m
        /\ \A i \in 1..Len(down) : down'[i] = down[i]
        /\ Len(down') = Len(down) + 1
    <2>1. PICK S : down \in Seq(S)
      BY DEF KeysInv, IsSeq
    <2>2. down \in Seq(S \union {m})
      BY <2>1
    <2>3. Len(down') = Len(down) + 1
      BY <2>2
    <2>. QED  BY <2>3, AppendMoves DEF KeysInv
  <1>2. NothingComes /\ m.t # "StdOut" => NothingComes'
    BY <1>1 DEF NothingComes
  <1>3. ASSUME KeysFirst PROVE KeysFirst'
    <2>1. PICK k \in 0..Len(down) : /\ \A i \in DOMAIN down : down[i].t = "Data" <=> i <= k
                                    /\ d.next + k = a.seq
      BY <1>3 DEF KeysFirst
    <2>2. \A i \in DOMAIN down' : down'[i].t = "Data" <=> i <= k
      BY <1>1, <2>1
    <2>. QED  BY <1>1, <2>1, <2>2 DEF KeysFirst, ReaderMoves
  <1>. QED  BY <1>1, <1>2, <1>3 DEF KeysInv, ReaderMoves

\* The answer to Open: the keys are all that is on its way, or nothing is forwarded.
LEMMA KeysOpen ==
  ASSUME KeysInv, UNCHANGED <<d, client>>, d.dc # "none", ~a.broken,
         a.go["reader"] = "off", a'.go["reader"] # "off", NEW k \in Nat, a'.seq = k,
         a'.dc = a.dc,
         IF Forwards(a) THEN down' = down \o HostKeys(k) ELSE down' = down
  PROVE  KeysInv'
  <1>1. /\ down = <<>> /\ d.next = 0 /\ client.got = <<>> /\ IsSeq(down)
        /\ (Forwards(a') <=> Forwards(a))
    BY DEF KeysInv, Forwards
  <1>2. CASE Forwards(a)
    <2>1. /\ HostKeys(k) \in Seq({Smsg("Data", 0, <<>>, FALSE)}) /\ Len(HostKeys(k)) = k
          /\ DOMAIN HostKeys(k) = 1..k
          /\ \A i \in 1..k : HostKeys(k)[i] = Smsg("Data", 0, <<>>, FALSE)
      <3>. PICK m : m = Smsg("Data", 0, <<>>, FALSE)
        OBVIOUS
      <3>1. HostKeys(k) = [i \in 1..k |-> m]
        BY DEF HostKeys
      <3>2. HostKeys(k) \in Seq({m})
        BY <3>1
      <3>3. Len(HostKeys(k)) = k
        BY <3>1
      <3>. QED  BY <3>1, <3>2, <3>3
    <2>2. down' = HostKeys(k)
      <3>1. \A S, s : s \in Seq(S) => <<>> \o s = s
        OBVIOUS
      <3>. QED  BY <1>1, <1>2, <2>1, <3>1
    <2>3. /\ IsSeq(down') /\ Len(down') = k /\ DOMAIN down' = 1..k
          /\ \A i \in DOMAIN down' : down'[i].t = "Data"
      BY <2>1, <2>2 DEF Smsg, IsSeq
    <2>4. KeysFirst'
      <3>1. d'.next + k = a'.seq
        BY <1>1
      <3>2. k \in 0..Len(down') /\ \A i \in DOMAIN down' : down'[i].t = "Data" <=> i <= k
        BY <2>3
      <3>. QED  BY <3>1, <3>2 DEF KeysFirst
    <2>. QED  BY <1>1, <2>3, <2>4 DEF KeysInv
  <1>3. CASE ~Forwards(a)
    <2>1. KeysFirst'
      BY <1>1, <1>3 DEF KeysFirst, NothingComes
    <2>. QED  BY <1>1, <1>3, <2>1 DEF KeysInv
  <1>. QED  BY <1>2, <1>3

\* The steps of the daemon's side keep KeysInv,
LEMMA OpaqueDaemonKeys ==
  ASSUME DaemonShape, KeysInv, Kind = "opaque", ~scene.reorder,
         \/ Close \/ Zap \/ ReceiveError \/ PushStream \/ Undelivered \/ KillReturns
         \/ PluginDone(Kind \in Flushing) \/ Drain \/ Drained
         \/ OpaqueStart \/ OpaqueRead \/ OpaqueSend \/ OpaqueReceiveStream
         \/ OpaqueDone \/ OpaqueKill
  PROVE  KeysInv'
  <1>. USE DEF DaemonShape, DaemonFields, DaemonOnly
  <1>1. UNCHANGED a /\ ReaderMoves
    BY DEF Close, Zap, ReceiveError, PushStream, Undelivered, KillReturns, PluginDone, Drain,
       Drained, OpaqueStart, OpaqueRead, OpaqueSend, OpaqueReceiveStream, OpaqueDone,
       OpaqueKill, ReaderMoves
  <1>2. ASSUME UNCHANGED <<down, client>>, d'.next = d.next,
               \/ /\ d'.dc = d.dc
                  /\ d.dc = "none" => UNCHANGED <<outbox, up>> /\ d'.go = d.go
               \/ d.dc = "none" /\ d'.dc = "run"
               \/ d.dc # "none" /\ d'.dc = "gone"
        PROVE  KeysInv'
    BY <1>1, <1>2, KeysQuiet DEF KeysInv
  <1>3. ASSUME Close \/ OpaqueDone \/ OpaqueKill PROVE KeysInv'
    BY <1>2, <1>3 DEF Close, OpaqueDone, OpaqueKill, CloseDone, KillTomb
  <1>4. ASSUME Zap PROVE KeysInv'
    <2>1. d.dc # "none"
      BY <1>4 DEF Zap, KeysInv
    <2>. QED  BY <1>2, <1>4, <2>1 DEF Zap
  <1>5. ASSUME ReceiveError PROVE KeysInv'
    <2>1. PICK m \in Arrived({"Fail"}) : Takes(m)
      BY <1>5 DEF ReceiveError
    <2>2. down # <<>> /\ m = Head(down) /\ down' = Tail(down) /\ m.t = "Fail"
      BY <2>1, TakesHead DEF KeysInv, Arrived
    <2>3. /\ d.dc = "run" /\ d'.dc = d.dc /\ d'.next = d.next /\ client' = client
      BY <1>5 DEF ReceiveError
    <2>. QED  BY <1>1, <2>2, <2>3, KeysTaken DEF KeysInv
  <1>6. ASSUME PushStream \/ KillReturns \/ Drain \/ Drained PROVE KeysInv'
    BY <1>6 DEF PushStream, KillReturns, Drain, Drained, KeysInv
  <1>7. ASSUME Undelivered PROVE KeysInv'
    <2>1. /\ d.dc = "gone" /\ down # <<>> /\ down' = Tail(down) /\ UNCHANGED <<d, client>>
      BY <1>7 DEF Undelivered, KeysInv
    <2>. QED  BY <1>1, <2>1, KeysTaken DEF KeysInv
  <1>8. ASSUME PluginDone(Kind \in Flushing) PROVE KeysInv'
    BY <1>2, <1>8 DEF PluginDone, Flushing, DbKinds, WebKinds, KubeKinds
  <1>9. ASSUME OpaqueStart PROVE KeysInv'
    <2>1. d.dc = "none" /\ UNCHANGED <<down, client>> /\ d' = Go(SshStarted, {"reader"})
      BY <1>9 DEF OpaqueStart, SshStarts
    <2>2. d'.dc = "run" /\ d'.next = d.next
      BY <2>1 DEF Go, SshStarted
    <2>. QED  BY <1>2, <2>1, <2>2
  <1>10. ASSUME OpaqueRead PROVE KeysInv'
    <2>1. /\ UNCHANGED <<outbox, up, down>> /\ d'.dc = d.dc /\ d'.next = d.next
      BY <1>10 DEF OpaqueRead, Returns
    <2>2. DOMAIN client' = ClientFields /\ client'.got = client.got
      BY <1>10 DEF OpaqueRead, FromClient, KeysInv, ClientFields
    <2>3. d.dc # "none"
      BY <1>10 DEF OpaqueRead, KeysInv
    <2>. QED  BY <1>1, <2>1, <2>2, <2>3, KeysQuiet
  <1>11. ASSUME OpaqueSend PROVE KeysInv'
    <2>1. UNCHANGED <<down, client>> /\ d'.dc = d.dc /\ d'.next = d.next
      BY <1>11 DEF OpaqueSend, Returns
    <2>2. d.dc # "none"
      BY <1>11 DEF OpaqueSend, KeysInv
    <2>. QED  BY <1>2, <2>1, <2>2
  <1>12. ASSUME OpaqueReceiveStream PROVE KeysInv'
    <2>1. PICK m \in Arrived({"Data", "StdOut", "Error"}) :
            /\ Takes(m)
            /\ \/ m.t = "Data" /\ d' = [d EXCEPT !.next = @ + 1] /\ UNCHANGED client
               \/ /\ m.t = "StdOut" /\ client' = Shown(m)
                  /\ d' = [d EXCEPT !.lost = Unshown(m), !.ended = @ \/ ~m.more,
                                    !.tmb = IF m.more THEN @ ELSE "dying"]
               \/ m.t = "Error" /\ d' = KillTomb(d) /\ UNCHANGED client
      BY <1>12 DEF OpaqueReceiveStream
    <2>2. down # <<>> /\ m = Head(down) /\ down' = Tail(down) /\ d.dc = "run"
      BY <1>12, <2>1, TakesHead DEF KeysInv, OpaqueReceiveStream
    <2>3. d'.dc = d.dc /\ d'.next = IF m.t = "Data" THEN d.next + 1 ELSE d.next
      BY <2>1 DEF KillTomb
    <2>4. /\ DOMAIN client' = ClientFields /\ (client'.got # client.got => m.t = "StdOut")
      BY <2>1 DEF Shown, KeysInv, ClientFields
    <2>. QED  BY <1>1, <2>2, <2>3, <2>4, KeysTaken
  <1>. QED
    BY <1>3, <1>4, <1>5, <1>6, <1>7, <1>8, <1>9, <1>10, <1>11, <1>12

\* (the end of a goroutine changes nothing else that KeysInv speaks of)
LEMMA EndFields ==
  ASSUME AgentShape, NEW failed \in BOOLEAN
  PROVE  LET z == CloseDone(Returns(a, "reader", failed))
         IN /\ z.dc = a.dc /\ z.seq = a.seq /\ z.broken = a.broken
            /\ z.go["reader"] = "end"
  <1>. DEFINE r == Returns(a, "reader", failed)
  <1>1. /\ DOMAIN r = AgentFields /\ r.dc = a.dc /\ r.seq = a.seq /\ r.broken = a.broken
        /\ r.go["reader"] = "end"
    BY DEF Returns, AgentShape, AgentFields, Goroutines
  <1>. HIDE DEF r
  <1>2. /\ CloseDone(r).dc = r.dc /\ CloseDone(r).seq = r.seq
        /\ CloseDone(r).broken = r.broken /\ CloseDone(r).go = r.go
    BY <1>1 DEF CloseDone, AgentFields
  <1>. QED  BY <1>1, <1>2 DEF r

\* so do those of the agent's side,
LEMMA OpaqueAgentKeys ==
  ASSUME AgentShape, OpenerInv, KeysInv, Kind = "opaque",
         \/ AgentChannel
         \/ OpaqueOpenReceived \/ OpaqueInputReceived \/ OpaqueCloseReceived
         \/ OpaqueRemoteRead \/ OpaqueRemoteSend \/ OpaqueDying
  PROVE  KeysInv'
  <1>. USE DEF AgentShape, AgentFields, AgentOnly, Goroutines
  <1>1. UNCHANGED <<outbox, d, client>>
    BY DEF AgentChannel, ReceiveRefused, AgentClose, AgentKilled, InputKilled,
       AgentPluginDone, OpaqueOpenReceived, OpaqueInputReceived, OpaqueCloseReceived,
       OpaqueRemoteRead, OpaqueRemoteSend, OpaqueDying, AgentDying
  <1>2. ASSUME UNCHANGED down, ReaderMoves, up' = up \/ up # <<>>
        PROVE  KeysInv'
    BY <1>1, <1>2, KeysQuiet DEF KeysInv
  <1>3. ASSUME ReceiveRefused PROVE KeysInv'
    BY <1>2, <1>3 DEF ReceiveRefused, ReaderMoves
  <1>4. ASSUME AgentClose \/ AgentKilled PROVE KeysInv'
    BY <1>2, <1>4 DEF AgentClose, AgentKilled, ReaderMoves, Forwards
  <1>5. ASSUME InputKilled PROVE KeysInv'
    BY <1>2, <1>5 DEF InputKilled, Acked, ReaderMoves, Forwards
  <1>6. ASSUME AgentPluginDone PROVE KeysInv'
    BY <1>2, <1>6 DEF AgentPluginDone, ReaderMoves, Forwards
  <1>7. ASSUME OpaqueOpenReceived PROVE KeysInv'
    <2>1. /\ d.dc # "none" /\ ~a.broken /\ up # <<>> /\ up' = Tail(up)
          /\ Head(up).t = Opener
      BY <1>7 DEF OpaqueOpenReceived, Receives, KeysInv, Opener
    <2>2. a.go["reader"] = "off"
      <3>1. HasOpener(up)
        BY <2>1, TailMoves DEF OpenerInv, HasOpener
      <3>. QED  BY <3>1 DEF OpenerInv
    <2>3. ASSUME NEW k \in 0..HostKeyFiles, SendAll(HostKeys(k)),
                 a' = Acked(Go([a EXCEPT !.seq = k], {"reader"}))
          PROVE  KeysInv'
      <3>. DEFINE r == [a EXCEPT !.seq = k]
                  s == Go(r, {"reader"})
      <3>1. DOMAIN r = AgentFields /\ r.dc = a.dc /\ r.seq = k /\ r.go = a.go
        OBVIOUS
      <3>. HIDE DEF r
      <3>2. /\ DOMAIN s = AgentFields /\ s.dc = a.dc /\ s.seq = k
            /\ s.go["reader"] = "run"
        BY <3>1 DEF Go
      <3>. HIDE DEF s
      <3>3. a' = Acked(s)
        BY <2>3 DEF r, s
      <3>4. a'.dc = a.dc /\ a'.seq = k /\ a'.go["reader"] # "off"
        BY <3>2, <3>3 DEF Acked
      <3>5. IF Forwards(a) THEN down' = down \o HostKeys(k) ELSE down' = down
        BY <2>3 DEF SendAll
      <3>6. k \in Nat
        BY DEF HostKeyFiles
      <3>. QED  BY <1>1, <2>1, <2>2, <3>4, <3>5, <3>6, KeysOpen
    <2>4. CASE Failed
      <3>1. ReaderMoves /\ a'.broken
        BY <2>4 DEF Failed, ReaderMoves, Forwards
      <3>2. CASE Forwards(a)
        <4>1. down' = Append(down, Fail)
          BY <2>4, <3>2 DEF Failed
        <4>. QED  BY <1>1, <2>1, <3>1, <3>2, <4>1, KeysSent DEF Smsg, Fail
      <3>3. CASE ~Forwards(a)
        BY <1>1, <1>2, <2>1, <2>4, <3>1, <3>3 DEF Failed
      <3>. QED  BY <3>2, <3>3
    <2>. QED  BY <1>7, <2>3, <2>4 DEF OpaqueOpenReceived
  <1>8. ASSUME OpaqueInputReceived PROVE KeysInv'
    BY <1>2, <1>8 DEF OpaqueInputReceived, Receives, Acked, OpaqueKilled, ReaderMoves,
       Forwards
  <1>9. ASSUME OpaqueCloseReceived PROVE KeysInv'
    BY <1>2, <1>9 DEF OpaqueCloseReceived, Receives, OpaqueKilled, ReaderMoves, Forwards
  <1>10. ASSUME OpaqueRemoteRead PROVE KeysInv'
    <2>1. CASE a' = CloseDone(Returns(a, "reader", FALSE))
      BY <1>2, <1>10, <2>1, EndFields DEF OpaqueRemoteRead, ReaderMoves, Forwards
    <2>2. CASE \E v \in {"put", "stop"} : a' = [a EXCEPT !.go["reader"] = v]
      BY <1>2, <1>10, <2>2 DEF OpaqueRemoteRead, ReaderMoves, Forwards
    <2>. QED  BY <1>10, <2>1, <2>2 DEF OpaqueRemoteRead
  <1>11. ASSUME OpaqueRemoteSend PROVE KeysInv'
    <2>1. ReaderMoves /\ a.go["reader"] # "off"
      <3>1. CASE a' = CloseDone(Returns(a, "reader", TRUE))
        BY <1>11, <3>1, EndFields DEF OpaqueRemoteSend, ReaderMoves, Forwards
      <3>2. CASE a' = [a EXCEPT !.go["reader"] = "run"]
        BY <1>11, <3>2 DEF OpaqueRemoteSend, ReaderMoves, Forwards
      <3>. QED  BY <1>11, <3>1, <3>2 DEF OpaqueRemoteSend
    <2>2. PICK m : Send(m) /\ m.t # "Data"
      <3>1. \A ty, ns, more : Smsg(ty, 0, ns, more).t = ty
        BY DEF Smsg
      <3>2. \/ Send(Smsg("StdOut", 0, <<target.sent>>, TRUE))
            \/ Send(Smsg(IF target.err THEN "Error" ELSE "StdOut", 0, <<>>, FALSE))
        BY <1>11 DEF OpaqueRemoteSend
      <3>3. CASE Send(Smsg("StdOut", 0, <<target.sent>>, TRUE))
        BY <3>1, <3>3
      <3>4. CASE Send(Smsg(IF target.err THEN "Error" ELSE "StdOut", 0, <<>>, FALSE))
        <4>1. Smsg(IF target.err THEN "Error" ELSE "StdOut", 0, <<>>, FALSE).t # "Data"
          BY DEF Smsg
        <4>. QED  BY <3>4, <4>1
      <3>. QED  BY <3>2, <3>3, <3>4
    <2>3. CASE Forwards(a)
      <3>1. down' = Append(down, m)
        BY <2>2, <2>3 DEF Send
      <3>2. d.dc # "none"
        BY <2>1 DEF KeysInv
      <3>. QED  BY <1>1, <2>1, <2>2, <2>3, <3>1, <3>2, KeysSent
    <2>4. CASE ~Forwards(a)
      BY <1>2, <1>11, <2>1, <2>2, <2>4 DEF OpaqueRemoteSend, Send
    <2>. QED  BY <2>3, <2>4
  <1>12. ASSUME OpaqueDying PROVE KeysInv'
    BY <1>2, <1>12 DEF OpaqueDying, AgentDying, OpaqueKilled, ReaderMoves, Forwards
  <1>. QED
    BY <1>3, <1>4, <1>5, <1>6, <1>7, <1>8, <1>9, <1>10, <1>11, <1>12 DEF AgentChannel

\* and those of the client, the target and the datachannels.
LEMMA OpaqueEnvKeys ==
  ASSUME KeysInv, ClientEnds \/ TargetEnds
  PROVE  KeysInv'
  <1>1. /\ UNCHANGED <<outbox, up, down, d, a>>
        /\ DOMAIN client' = ClientFields /\ client'.got = client.got
    BY DEF ClientEnds, TargetEnds, KeysInv, ClientFields
  <1>. QED  BY <1>1, KeysQuiet DEF KeysInv, ReaderMoves

\* The daemon has the target's host keys before the local ssh gets the first byte it
\* checks against them: provided the messages of an ssh session keep their order,
\* however many keys the agent could read, none or several, all of them have come
\* when the first output is shown, and none comes after it.  (HostKeysFirst)
THEOREM KeysComeFirst ==
  ASSUME \A s \in Scenes : s.kind = "opaque" => ~s.reorder
  PROVE  Spec => []HostKeysFirst
  <1>. DEFINE I == Kind = "opaque" => KeysInv
  <1>1. Init => I
    <2>. SUFFICES ASSUME Init, Kind = "opaque"
                  PROVE  KeysInv
      OBVIOUS
    <2>1. /\ outbox = <<>> /\ up = <<>> /\ down = <<>>
          /\ client = [sent |-> 0, got |-> <<>>, eof |-> FALSE, shut |-> FALSE]
      BY DEF Init, SessionInit
    <2>2. d.dc = "none" /\ d.go["reader"] = "off" /\ d.next = 0
      BY DEF Init, DaemonInit, Early, SshKinds, Goroutines
    <2>3. a.go["reader"] = "off" /\ a.seq = 0
      <3>1. a.seq = 0
        BY DEF Init, AgentInit
      <3>. QED  BY <3>1, InitShapes
    <2>4. IsSeq(<<>>)
      BY DEF IsSeq
    <2>5. KeysFirst /\ NothingComes
      BY <2>1, <2>2, <2>3 DEF KeysFirst, NothingComes
    <2>. QED  BY <2>1, <2>2, <2>3, <2>4, <2>5 DEF KeysInv, ClientFields
  <1>2. NoPanicInv /\ I /\ [Next]_vars => I'
    <2>. SUFFICES ASSUME NoPanicInv, I, [Next]_vars, Kind' = "opaque"
                  PROVE  KeysInv'
      OBVIOUS
    <2>1. CASE Next
      <3>1. Kind = "opaque"
        BY <2>1, SceneStays DEF Kind
      <3>2. DaemonShape /\ AgentShape /\ OpenerInv /\ KeysInv /\ ~scene.reorder
        BY <3>1 DEF NoPanicInv, Careful, Kind
      <3>. QED
        BY <2>1, <3>1, <3>2, OpaqueNext, OpaqueDaemonKeys, OpaqueAgentKeys, OpaqueEnvKeys
           DEF OpaqueShared, OpaqueSteps
    <2>2. CASE UNCHANGED vars
      BY <2>2 DEF vars, Kind, KeysInv, KeysFirst, NothingComes, Forwards
    <2>. QED  BY <2>1, <2>2
  <1>3. I => HostKeysFirst
    BY DEF KeysInv, HostKeysFirst
  <1>. QED  BY <1>1, <1>2, <1>3, NeverPanics, PTL DEF Spec

-----------------------------------------------------------------------------
(* The shells: for ring buffers of any size, channels of any capacity and  *)
(* outputs of any length.                                                  *)

RP == INSTANCE RingBufferProofs

-----------------------------------------------------------------------------
(* The ring buffer.                                                        *)

\* Two instances of the ring buffer: the one the shell uses and the one proved about.
LEMMA SameRing ==
  ASSUME NEW rb, NEW size, NEW w
  PROVE  /\ Ring!RingOK(rb, size, w) <=> RP!RingOK(rb, size, w)
         /\ Ring!Write(rb, size, w) = RP!Write(rb, size, w)
         /\ Ring!ReadAll(rb, size) = RP!ReadAll(rb, size)
         /\ Ring!LastOf(w, size) = RP!LastOf(w, size)
         /\ Ring!New(size) = RP!New(size)
  <1>1. Ring!RingOK(rb, size, w) <=> RP!RingOK(rb, size, w)
    BY DEF Ring!RingOK, RP!RingOK
  <1>2. Ring!Write(rb, size, w) = RP!Write(rb, size, w)
    BY DEF Ring!Write, RP!Write, Ring!WriteLong, RP!WriteLong, Ring!WriteShort,
       RP!WriteShort, Ring!Fills, RP!Fills, Ring!Lesser, RP!Lesser
  <1>3. Ring!ReadAll(rb, size) = RP!ReadAll(rb, size)
    BY DEF Ring!ReadAll, RP!ReadAll, Ring!Read, RP!Read, Ring!ReadLen, RP!ReadLen,
       Ring!Lesser, RP!Lesser
  <1>4. Ring!LastOf(w, size) = RP!LastOf(w, size)
    BY DEF Ring!LastOf, RP!LastOf, Ring!Lesser, RP!Lesser
  <1>5. Ring!New(size) = RP!New(size)
    BY DEF Ring!New, RP!New, Ring!Blank, RP!Blank
  <1>. QED  BY <1>1, <1>2, <1>3, <1>4, <1>5

History(n) == [i \in 1..n |-> i]

\* A history grows by its next chunk.
LEMMA HistoryAppends ==
  ASSUME NEW n \in Nat
  PROVE  /\ History(n) \in Seq(Int) /\ <<n + 1>> \in Seq(Int)
         /\ History(n) \o <<n + 1>> = History(n + 1)
         /\ History(0) = <<>>
  <1>1. History(n) \in Seq(Int) /\ Len(History(n)) = n
    BY DEF History
  <1>. QED  BY <1>1 DEF History

-----------------------------------------------------------------------------
(* The steps of a shell.                                                   *)

ShellShared ==
  \/ ClientEnds \/ TargetEnds \/ Close \/ Zap \/ ReceiveError \/ PushStream
  \/ Undelivered \/ KillReturns \/ PluginDone(Kind \in Flushing) \/ Drain \/ Drained
  \/ AgentChannel

\* The steps of a session of a shell.
LEMMA ShellSteps ==
  ASSUME Kind \in ShellKinds, Next
  PROVE  ShellShared \/ ShellNext
  <1>. USE DEF ShellKinds
  <1>1. ~DbNext
    BY DEF DbKinds, DbNext, DbStartRefused, LocalRead, LocalReadDying, LocalInput,
       WriterDying, DialStart, DialStopSent, DialTake, DialProcess, PwdbStart,
       PwdbReceiveMrtap, PwdbStartFails, PwdbCloseSent, PwdbProcess,
       DialStartReceived, DialInputReceived, DbCloseReceived, PwdbConnectReceived,
       PwdbInputReceived, RemoteRead, RemoteStream, RemoteEnd, RemoteReadDying,
       DbDying
  <1>2. ~SshNext
    BY DEF SshNext, OpaqueStart, OpaqueRead, OpaqueSend, OpaqueReceiveStream, OpaqueDone,
       OpaqueKill, TransparentStart, TransparentRequest, TransparentExec,
       TransparentRead, TransparentSend, TransparentReceiveStream, TransparentKill,
       OpaqueOpenReceived, OpaqueInputReceived, OpaqueCloseReceived, OpaqueRemoteRead,
       OpaqueRemoteSend, OpaqueDying, TransparentOpenReceived,
       TransparentInputReceived, TransparentExecReceived, TransparentCloseReceived,
       TransparentKillsTomb, TransparentStdin, TransparentPipe, TransparentDying
  <1>3. ~WebNext
    BY DEF WebKinds, WebNext, WebStartRefused, WebDialStart, WebDialBody,
       WebDialCancelled, WebDialDying, WebDialTake, WebDialProcess, WebWsStart,
       WebWsRead, WebWsSend, WebWsWrite, WebDialStartReceived, WebDialInputReceived,
       WebDialLastReceived, WebDialInterruptReceived, WebDialReads, WebDialResponse,
       WebWsStartReceived, WebWsInputReceived, WebWsStopReceived, WebWsRemoteRead,
       WebAgentDying
  <1>4. ~KubeNext
    BY DEF KubeKinds, KubeNext, KubeStartRefused, KubeBodyBreaks, KubeKill,
       KubeHandlerDone, RestStart, RestCancelled, RestReceiveMrtap, RestResponse,
       KubeStreamStart, KubeStreamHead, KubeStreamKept, KubeStreamTake,
       KubeStreamCancelled, KubeExecStart, KubeExecWrite, KubeExecClosed,
       KubeExecRead, KubeExecSend, KubeExecResize, KubeExecResizeReceived,
       RestRequestReceived, RestReplied, RestDying,
       KubeStreamStartReceived, KubeStreamStopReceived, KubeStreamRead,
       KubeStreamSend, KubeStreamLastLog, KubeStreamDying, KubeExecStartReceived,
       KubeExecInputReceived, KubeExecStopReceived, KubeExecStdin, KubeExecStdout,
       KubeExecEnds, KubeExecDying, KubeExecKilled
  <1>5. ~PfNext
    BY DEF PfKind, PfNext, PfStart, PfReady, PfStreamArrives, PfPairTimesOut, PfEnds,
       PfClose, PfKill, PfReceiveStream, PfTake, PfTakeKept, PfForwarded, PfRead,
       PfSend, PfErrorStream, PfStartReceived, PfDataReceived, PfStopRequestReceived,
       PfRequestKilled, PfStopReceived, PfStopped, PfDying, PfKilled, PfConnBreaks,
       PfConnClosed, PfWrite, PfRemoteRead, PfRemoteSend, PfRemoteErrors
  <1>6. /\ ~ReceiveStream(Queueing, Streams)
        /\ ~KillWaiting(DbKinds \cup WebKinds \cup {"kubeexec"})
    BY DEF ReceiveStream, KillWaiting, Queueing, Flushing, DbKinds, WebKinds, KubeKinds
  <1>. QED
    BY <1>1, <1>2, <1>3, <1>4, <1>5, <1>6 DEF Next, DaemonChannel, ShellShared

-----------------------------------------------------------------------------
(* The ring buffer in the shell.                                           *)

TargetShape == DOMAIN target = {"sent", "got", "eof", "err"}

RingInv ==
  /\ TargetShape
  /\ target.sent \in Nat /\ Ring!RingOK(a.ring, RingSize, History(target.sent))

RingMoves ==
  /\ TargetShape'
  /\ \/ a'.ring = a.ring /\ target'.sent = target.sent
     \/ /\ a'.ring = Ring!Write(a.ring, RingSize, <<target.sent + 1>>)
        /\ target'.sent = target.sent + 1

\* The agent's datachannel leaves the ring alone.
LEMMA SharedRingMoves ==
  ASSUME AgentShape, TargetShape, ShellShared
  PROVE  RingMoves
  <1>. USE DEF RingMoves, TargetShape, AgentShape, AgentFields, DaemonOnly, AgentOnly
  <1>1. CASE ClientEnds \/ TargetEnds \/ Close \/ Zap \/ ReceiveError \/ PushStream
    BY <1>1 DEF ClientEnds, TargetEnds, Close, Zap, ReceiveError, PushStream
  <1>2. CASE \/ Undelivered \/ KillReturns \/ PluginDone(Kind \in Flushing)
             \/ Drain \/ Drained
    BY <1>2 DEF Undelivered, KillReturns, PluginDone, Drain, Drained
  <1>3. CASE AgentChannel
    BY <1>3 DEF AgentChannel, ReceiveRefused, AgentClose, AgentKilled, InputKilled,
       AgentPluginDone, Acked
  <1>. QED  BY <1>1, <1>2, <1>3 DEF ShellShared

\* A shell writes what the target sent, once.
LEMMA ShellRingMoves ==
  ASSUME AgentShape, TargetShape, ShellNext
  PROVE  RingMoves
  <1>. USE DEF RingMoves, TargetShape, AgentShape, AgentFields, DaemonOnly, AgentOnly
  <1>1. CASE \/ ShellStart \/ ShellResize \/ ShellKey \/ ShellInput \/ ShellDone
             \/ ShellReceive \/ ShellKill
    BY <1>1 DEF ShellStart, ShellResize, ShellKey, ShellInput, ShellDone, ShellReceive,
       ShellKill
  <1>2. CASE ShellOpenReceived
    <2>. DEFINE r == [a EXCEPT !.conn = "open", !.go["reader"] = "run"]
    <2>1. DOMAIN r = AgentFields /\ r.ring = a.ring
      OBVIOUS
    <2>. HIDE DEF r
    <2>2. UNCHANGED target /\ (a' = Acked(r) \/ a' = [a EXCEPT !.broken = TRUE])
      BY <1>2 DEF ShellOpenReceived, Failed, r
    <2>. QED  BY <2>1, <2>2, AckedFields
  <1>3. CASE ShellInputReceived
    BY <1>3 DEF ShellInputReceived, Delivered, Acked, Failed
  <1>4. CASE ShellResizeReceived \/ ShellReplayReceived
    BY <1>4 DEF ShellResizeReceived, ShellReplayReceived, Acked, Failed
  <1>5. CASE ShellPumpRead
    BY <1>5 DEF ShellPumpRead, FromTarget
  <1>6. CASE ShellPumpSend \/ ShellPumpEnds \/ ShellDying \/ ShellKilled
    BY <1>6 DEF ShellPumpSend, ShellPumpEnds, ShellDying, ShellKilled, PumpReturns,
       CloseDone, AgentDying
  <1>. QED  BY <1>1, <1>2, <1>3, <1>4, <1>5, <1>6 DEF ShellNext

\* Every such move keeps RingInv.
LEMMA RingMovesKeep ==
  ASSUME RingInv, RingMoves
  PROVE  RingInv'
  <1>1. CASE a'.ring = a.ring /\ target'.sent = target.sent
    BY <1>1 DEF RingInv, RingMoves
  <1>2. CASE /\ a'.ring = Ring!Write(a.ring, RingSize, <<target.sent + 1>>)
             /\ target'.sent = target.sent + 1
    <2>. DEFINE n == target.sent
    <2>1. /\ n \in Nat /\ History(n) \in Seq(Int) /\ <<n + 1>> \in Seq(Int)
          /\ History(n) \o <<n + 1>> = History(n + 1)
      BY HistoryAppends DEF RingInv
    <2>2. RP!RingOK(a.ring, RingSize, History(n))
      BY SameRing DEF RingInv
    <2>3. RP!RingOK(RP!Write(a.ring, RingSize, <<n + 1>>), RingSize, History(n + 1))
      BY <2>1, <2>2, RP!WriteKeepsHistory, RingAssumption
    <2>. QED  BY <1>2, <2>1, <2>3, SameRing DEF RingInv, RingMoves
  <1>. QED  BY <1>1, <1>2 DEF RingMoves

\* RingInv holds at the start: an attached shell has written a chunk, a new one none.
LEMMA RingInitially ==
  ASSUME Init, Kind \in ShellKinds
  PROVE  RingInv
  <1>1. TargetShape /\ target.sent = IF Kind = "attach" THEN 1 ELSE 0
    BY DEF Init, NewTarget, TargetShape
  <1>2. Ring!RingOK(Ring!New(RingSize), RingSize, History(0))
    BY RingAssumption, RP!NewIsEmpty, SameRing, HistoryAppends
  <1>. DEFINE a0 == AgentInit(Kind \in SshKinds, Ring!New(RingSize))
  <1>3. DOMAIN a0 = AgentFields /\ a0.ring = Ring!New(RingSize)
    BY DEF AgentInit, AgentFields
  <1>4. a = IF Kind = "attach" THEN Attachable(a0) ELSE a0
    BY DEF Init
  <1>. HIDE DEF a0
  <1>5. CASE Kind # "attach"
    BY <1>1, <1>2, <1>3, <1>4, <1>5 DEF RingInv
  <1>6. CASE Kind = "attach"
    <2>1. a.ring = Ring!Write(Ring!New(RingSize), RingSize, <<1>>)
      BY <1>3, <1>4, <1>6 DEF Attachable, AgentFields
    <2>2. RP!RingOK(RP!Write(Ring!New(RingSize), RingSize, <<1>>), RingSize, History(1))
      <3>1. RP!RingOK(Ring!New(RingSize), RingSize, History(0))
        BY <1>2, SameRing
      <3>2. /\ History(0) \in Seq(Int) /\ <<1>> \in Seq(Int)
            /\ History(0) \o <<1>> = History(1)
        BY HistoryAppends
      <3>. QED  BY <3>1, <3>2, RP!WriteKeepsHistory, RingAssumption
    <2>. QED  BY <1>1, <1>6, <2>1, <2>2, SameRing DEF RingInv
  <1>. QED  BY <1>5, <1>6

\* The ring buffer of a shell holds the last chunks of its output, whatever the size of
\* the buffer and however much the shell writes: what a daemon that attaches is sent is
\* exactly that.  (RingHolds)
THEOREM RingHoldsTheLast == Spec => []RingHolds
  <1>. DEFINE I == Kind \in ShellKinds => RingInv
  <1>1. Init => I
    BY RingInitially
  <1>2. NoPanicInv /\ I /\ [Next]_vars => I'
    <2>. SUFFICES ASSUME NoPanicInv, I, [Next]_vars, Kind' \in ShellKinds
                  PROVE  RingInv'
      OBVIOUS
    <2>1. CASE Next
      <3>1. Kind \in ShellKinds
        BY <2>1, SceneStays DEF Kind
      <3>2. AgentShape /\ RingInv
        BY <3>1 DEF NoPanicInv, Careful, ShellKinds
      <3>. QED
        BY <2>1, <3>1, <3>2, ShellSteps, SharedRingMoves, ShellRingMoves, RingMovesKeep
           DEF RingInv
    <2>2. CASE UNCHANGED vars
      BY <2>2 DEF vars, Kind, RingInv, TargetShape
    <2>. QED  BY <2>1, <2>2
  <1>3. I => RingHolds
    <2>. SUFFICES ASSUME RingInv
                  PROVE  LET written == [i \in 1..target.sent |-> i]
                         IN /\ Ring!RingOK(a.ring, RingSize, written)
                            /\ Ring!ReadAll(a.ring, RingSize)
                                 = Ring!LastOf(written, RingSize)
      BY DEF RingHolds
    <2>1. Ring!RingOK(a.ring, RingSize, History(target.sent))
      BY DEF RingInv
    <2>2. Ring!ReadAll(a.ring, RingSize) = Ring!LastOf(History(target.sent), RingSize)
      <3>. DEFINE w == History(target.sent)
      <3>1. w \in Seq(Int) /\ RP!RingOK(a.ring, RingSize, w)
        BY <2>1, SameRing, HistoryAppends DEF RingInv
      <3>. HIDE DEF w
      <3>2. RP!ReadAll(a.ring, RingSize) = RP!LastOf(w, RingSize)
        BY <3>1, RingAssumption, RP!ReadAllIsLast
      <3>. QED  BY <3>2, SameRing DEF w
    <2>. QED  BY <2>1, <2>2 DEF History
  <1>. QED  BY <1>1, <1>2, <1>3, NeverPanics, PTL DEF Spec

-----------------------------------------------------------------------------
(* The shell that a daemon attaches to.                                    *)

\* S is an interval that ends with n, or with the chunk after it.
UpTo(S, n) == \E lo, hi \in Nat : S = lo..hi /\ (lo > hi \/ hi \in {n, n + 1})

\* Two intervals that end at the same chunk, or one apart, make one.
LEMMA UpToUnion ==
  ASSUME NEW n \in Nat, NEW S, NEW T, UpTo(S, n), UpTo(T, n)
  PROVE  UpTo(S \cup T, n)
  <1>1. PICK lo \in Nat, hi \in Nat : S = lo..hi /\ (lo > hi \/ hi \in {n, n + 1})
    BY DEF UpTo
  <1>2. PICK l \in Nat, h \in Nat : T = l..h /\ (l > h \/ h \in {n, n + 1})
    BY DEF UpTo
  <1>3. CASE lo > hi
    <2>1. S \cup T = l..h
      BY <1>1, <1>2, <1>3
    <2>. QED  BY <1>2, <2>1 DEF UpTo
  <1>4. CASE l > h
    <2>1. S \cup T = lo..hi
      BY <1>1, <1>2, <1>4
    <2>. QED  BY <1>1, <2>1 DEF UpTo
  <1>5. CASE lo <= hi /\ l <= h
    <2>. DEFINE from == IF lo <= l THEN lo ELSE l
                to == IF hi >= h THEN hi ELSE h
    <2>1. from \in Nat /\ to \in Nat /\ to \in {n, n + 1}
      BY <1>1, <1>2, <1>5
    <2>2. S \cup T = from..to
      BY <1>1, <1>2, <1>5
    <2>. QED  BY <2>1, <2>2 DEF UpTo
  <1>. QED  BY <1>3, <1>4, <1>5

\* An interval up to n and the chunk after it make one.
LEMMA UpToNext ==
  ASSUME NEW n \in Nat, NEW S, UpTo(S, n)
  PROVE  UpTo(S \cup {n + 1}, n + 1)
  <1>1. PICK lo \in Nat, hi \in Nat : S = lo..hi /\ (lo > hi \/ hi \in {n, n + 1})
    BY DEF UpTo
  <1>2. CASE lo > hi \/ lo > n + 1
    <2>1. S \cup {n + 1} = (n + 1)..(n + 1)
      BY <1>1, <1>2
    <2>. QED  BY <2>1 DEF UpTo
  <1>3. CASE lo <= hi /\ lo <= n + 1
    <2>1. S \cup {n + 1} = lo..(n + 1)
      BY <1>1, <1>3
    <2>. QED  BY <2>1 DEF UpTo
  <1>. QED  BY <1>1, <1>2, <1>3

\* No chunk at all is an interval.
LEMMA UpToNothing ==
  ASSUME NEW n
  PROVE  UpTo({}, n)
  <1>1. {} = 1..0 /\ 1 \in Nat /\ 0 \in Nat /\ 1 > 0
    OBVIOUS
  <1>. QED  BY <1>1 DEF UpTo

\* The chunks of two sequences one after the other.
LEMMA ConcatRange ==
  ASSUME NEW s \in Seq(Nat), NEW t \in Seq(Nat)
  PROVE  s \o t \in Seq(Nat) /\ Range(s \o t) = Range(s) \cup Range(t)
  <1>1. s \o t \in Seq(Nat)
    OBVIOUS
  <1>2. /\ DOMAIN s = 1..Len(s) /\ DOMAIN t = 1..Len(t)
        /\ DOMAIN (s \o t) = 1..(Len(s) + Len(t)) /\ Len(s) \in Nat /\ Len(t) \in Nat
        /\ \A i \in 1..(Len(s) + Len(t)) :
             (s \o t)[i] = IF i <= Len(s) THEN s[i] ELSE t[i - Len(s)]
    BY ConcatProperties
  <1>3. ASSUME NEW i \in DOMAIN s PROVE s[i] \in Range(s \o t)
    <2>1. i \in DOMAIN (s \o t) /\ (s \o t)[i] = s[i]
      BY <1>2
    <2>. QED  BY <2>1 DEF Range
  <1>4. ASSUME NEW i \in DOMAIN t PROVE t[i] \in Range(s \o t)
    <2>. DEFINE k == Len(s) + i
    <2>1. k \in 1..(Len(s) + Len(t)) /\ ~(k <= Len(s)) /\ k - Len(s) = i
      BY <1>2
    <2>. HIDE DEF k
    <2>2. k \in DOMAIN (s \o t) /\ (s \o t)[k] = t[i]
      BY <1>2, <2>1
    <2>. QED  BY <2>2 DEF Range
  <1>5. ASSUME NEW i \in DOMAIN (s \o t) PROVE (s \o t)[i] \in Range(s) \cup Range(t)
    <2>1. CASE i <= Len(s)
      BY <1>2, <2>1 DEF Range
    <2>2. CASE i > Len(s)
      <3>1. i - Len(s) \in DOMAIN t /\ (s \o t)[i] = t[i - Len(s)]
        BY <1>2, <2>2
      <3>. QED  BY <3>1 DEF Range
    <2>. QED  BY <1>2, <2>1, <2>2
  <1>. QED  BY <1>1, <1>3, <1>4, <1>5 DEF Range

-----------------------------------------------------------------------------
\* The last chunk that has been on its way to the daemon.
LastSent == IF a.go["reader"] = "put" THEN target.sent - 1 ELSE target.sent

Output == {"StdOut", "Replay"}

\* q is the last chunk sent with message m, if p is that before it.
Link(m, p, q) ==
  /\ q = IF m.t = "StdOut" THEN p + 1 ELSE p
  /\ m.t \in Output => m.ns \in Seq(Nat)
  /\ m.t = "StdOut" => Range(m.ns) = {q}
  /\ m.t = "Replay" => UpTo(Range(m.ns), q)

\* f[i] is the last chunk sent before, or with, the i-th message in s.
Chain(s, f) == \A i \in 1..Len(s) : Link(s[i], f[i - 1], f[i])

\* What is shown is an interval, which ends where the messages in down go on.
ShownUpTo(n) ==
  \/ UpTo(Range(client.got), n)
  \/ /\ client.eof \/ d.dc = "gone"
     /\ \E lo, hi \in Nat : Range(client.got) = lo..hi

GapInv ==
  /\ IsSeq(down) /\ DOMAIN client = ClientFields /\ client.got \in Seq(Nat)
  /\ d.dc \in {"none", "run", "gone"}
  /\ d.dc = "none" => client.got = <<>>
  /\ \E f \in [0..Len(down) -> Nat] :
       /\ Forwards(a) => f[Len(down)] = LastSent
       /\ Chain(down, f) /\ ShownUpTo(f[0])

\* GapInv survives a step that moves no messages.
LEMMA GapQuiet ==
  ASSUME GapInv, UNCHANGED down, DOMAIN client' = ClientFields, client'.got = client.got,
         client.eof => client'.eof,
         \/ d'.dc = d.dc
         \/ d.dc = "none" /\ d'.dc = "run"
         \/ d'.dc = "gone",
         Forwards(a') => Forwards(a) /\ LastSent' = LastSent
  PROVE  GapInv'
  <1>1. PICK f \in [0..Len(down) -> Nat] :
          /\ Forwards(a) => f[Len(down)] = LastSent
          /\ Chain(down, f) /\ ShownUpTo(f[0])
    BY DEF GapInv
  <1>2. ShownUpTo(f[0])'
    BY <1>1 DEF ShownUpTo, GapInv
  <1>3. /\ Forwards(a') => f[Len(down')] = LastSent'
        /\ Chain(down', f) /\ f \in [0..Len(down') -> Nat]
    BY <1>1
  <1>. QED  BY <1>2, <1>3 DEF GapInv

\* The chain without its first message.
LEMMA Shifted ==
  ASSUME NEW s, IsSeq(s), s # <<>>, NEW f \in [0..Len(s) -> Nat], Chain(s, f)
  PROVE  \E g \in [0..Len(Tail(s)) -> Nat] :
           /\ Chain(Tail(s), g) /\ g[Len(Tail(s))] = f[Len(s)] /\ g[0] = f[1]
  <1>1. /\ Len(Tail(s)) = Len(s) - 1 /\ Len(s) \in Nat \ {0}
        /\ \A i \in 1..(Len(s) - 1) : Tail(s)[i] = s[i + 1]
    <2>1. PICK S : s \in Seq(S)
      BY DEF IsSeq
    <2>2. Len(Tail(s)) = Len(s) - 1
      BY <2>1
    <2>. QED  BY <2>2, TailMoves
  <1>. DEFINE n == Len(s) - 1
              g == [i \in 0..n |-> f[i + 1]]
  <1>2. g \in [0..n -> Nat] /\ g[n] = f[Len(s)] /\ g[0] = f[1]
    BY <1>1
  <1>3. ASSUME NEW i \in 1..n PROVE Link(Tail(s)[i], g[i - 1], g[i])
    <2>1. /\ i + 1 \in 1..Len(s) /\ Tail(s)[i] = s[i + 1] /\ (i + 1) - 1 = i
          /\ g[i] = f[i + 1] /\ g[i - 1] = f[i]
      BY <1>1
    <2>2. Link(s[i + 1], f[(i + 1) - 1], f[i + 1])
      BY <2>1 DEF Chain
    <2>. QED  BY <2>1, <2>2
  <1>4. Chain(Tail(s), g)
    BY <1>1, <1>3 DEF Chain
  <1>. QED  BY <1>1, <1>2, <1>4

\* The chain with a message more.
LEMMA Extended ==
  ASSUME NEW s, IsSeq(s), NEW f \in [0..Len(s) -> Nat], Chain(s, f), NEW m, NEW v \in Nat,
         Link(m, f[Len(s)], v)
  PROVE  \E g \in [0..Len(Append(s, m)) -> Nat] :
           /\ Chain(Append(s, m), g) /\ g[Len(Append(s, m))] = v /\ g[0] = f[0]
  <1>. DEFINE t == Append(s, m)
              n == Len(s)
  <1>1. /\ Len(t) = n + 1 /\ n \in Nat /\ t[n + 1] = m
        /\ \A i \in 1..n : t[i] = s[i]
    <2>1. PICK S : s \in Seq(S)
      BY DEF IsSeq
    <2>2. Len(t) = n + 1
      BY <2>1
    <2>. QED  BY <2>2, AppendMoves
  <1>. HIDE DEF t
  <1>. DEFINE g == [i \in 0..n + 1 |-> IF i <= n THEN f[i] ELSE v]
  <1>2. g \in [0..n + 1 -> Nat] /\ g[n + 1] = v /\ g[0] = f[0] /\ g[n] = f[n]
    BY <1>1
  <1>3. ASSUME NEW i \in 1..n + 1 PROVE Link(t[i], g[i - 1], g[i])
    <2>1. CASE i \in 1..n
      <3>1. t[i] = s[i] /\ g[i] = f[i] /\ g[i - 1] = f[i - 1]
        BY <1>1, <2>1
      <3>. QED  BY <2>1, <3>1 DEF Chain
    <2>2. CASE i = n + 1
      <3>1. t[i] = m /\ g[i] = v /\ g[i - 1] = f[n]
        BY <1>1, <1>2, <2>2
      <3>. QED  BY <3>1
    <2>. QED  BY <1>1, <2>1, <2>2
  <1>. HIDE DEF g
  <1>4. Chain(t, g)
    BY <1>1, <1>3 DEF Chain
  <1>. QED  BY <1>1, <1>2, <1>4 DEF t

\* GapInv survives a message taken and shown
LEMMA GapTaken ==
  ASSUME GapInv, UNCHANGED <<a, target>>, down # <<>>, down' = Tail(down),
         d'.dc = d.dc, DOMAIN client' = ClientFields, client'.eof = client.eof,
         \/ /\ client'.got = client.got
            /\ Head(down).t \in Output => d.dc \in {"none", "gone"} \/ client.eof
         \/ /\ client'.got = client.got \o Head(down).ns
            /\ Head(down).t \in Output /\ ~client.eof /\ d.dc = "run"
  PROVE  GapInv'
  <1>1. PICK f \in [0..Len(down) -> Nat] :
          /\ Forwards(a) => f[Len(down)] = LastSent
          /\ Chain(down, f) /\ ShownUpTo(f[0])
    BY DEF GapInv
  <1>2. PICK g \in [0..Len(down') -> Nat] :
          Chain(down', g) /\ g[Len(down')] = f[Len(down)] /\ g[0] = f[1]
    BY <1>1, Shifted DEF GapInv
  <1>. DEFINE m == Head(down)
  <1>3. IsSeq(down') /\ Link(m, f[0], f[1]) /\ f[0] \in Nat /\ f[1] \in Nat
    <2>1. Len(down) \in Nat \ {0} /\ m = down[1] /\ IsSeq(down')
      BY TailMoves DEF GapInv
    <2>2. Link(down[1], f[1 - 1], f[1])
      BY <1>1, <2>1 DEF Chain
    <2>3. 1 - 1 = 0
      OBVIOUS
    <2>. QED  BY <2>1, <2>2, <2>3
  <1>. HIDE DEF m
  <1>4. Forwards(a') => g[Len(down')] = LastSent'
    BY <1>1, <1>2 DEF LastSent
  <1>5. client'.got \in Seq(Nat) /\ ShownUpTo(g[0])'
    <2>1. CASE client'.got = client.got /\ d.dc = "none"
      <3>1. Range(<<>>) = {}
        BY DEF Range
      <3>. QED  BY <2>1, <3>1, UpToNothing DEF GapInv, ShownUpTo
    <2>2. CASE client'.got = client.got /\ (client.eof \/ d.dc = "gone")
      <3>1. \E lo, hi \in Nat : Range(client.got) = lo..hi
        BY <1>1 DEF ShownUpTo, UpTo
      <3>. QED  BY <2>2, <3>1 DEF GapInv, ShownUpTo
    <2>3. CASE client'.got = client.got /\ m.t \notin Output
      <3>1. g[0] = f[0]
        BY <1>2, <1>3, <2>3 DEF Link, Output
      <3>. QED  BY <1>1, <2>3, <3>1 DEF GapInv, ShownUpTo
    <2>4. CASE /\ client'.got = client.got \o m.ns /\ m.t \in Output /\ ~client.eof
               /\ d.dc = "run"
      <3>1. /\ client'.got \in Seq(Nat)
            /\ Range(client'.got) = Range(client.got) \cup Range(m.ns)
        BY <1>3, <2>4, ConcatRange DEF GapInv, Link
      <3>2. UpTo(Range(client.got), f[0])
        BY <1>1, <2>4 DEF ShownUpTo
      <3>3. UpTo(Range(client'.got), g[0])
        <4>1. CASE m.t = "StdOut"
          <5>1. UpTo(Range(client.got) \cup {f[0] + 1}, f[0] + 1)
            BY <1>3, <3>2, UpToNext
          <5>2. g[0] = f[0] + 1 /\ Range(m.ns) = {f[0] + 1}
            BY <1>2, <1>3, <4>1 DEF Link
          <5>. QED  BY <3>1, <5>1, <5>2
        <4>2. CASE m.t = "Replay"
          <5>1. g[0] = f[0] /\ UpTo(Range(m.ns), f[0])
            BY <1>2, <1>3, <4>2 DEF Link
          <5>2. UpTo(Range(client.got) \cup Range(m.ns), f[0])
            BY <1>3, <3>2, <5>1, UpToUnion
          <5>. QED  BY <3>1, <5>1, <5>2
        <4>. QED  BY <2>4, <4>1, <4>2 DEF Output
      <3>. QED  BY <3>1, <3>3 DEF ShownUpTo
    <2>. QED  BY <2>1, <2>2, <2>3, <2>4 DEF m
  <1>6. d'.dc \in {"none", "run", "gone"} /\ (d'.dc = "none" => client'.got = <<>>)
    BY DEF GapInv
  <1>. QED  BY <1>2, <1>3, <1>4, <1>5, <1>6 DEF GapInv

\* and a message sent that goes on from the last one.
LEMMA GapSent ==
  ASSUME GapInv, UNCHANGED <<d, client>>, NEW m, Forwards(a), down' = Append(down, m),
         NEW v \in Nat, LastSent \in Nat => Link(m, LastSent, v),
         Forwards(a') => LastSent' = v
  PROVE  GapInv'
  <1>1. PICK f \in [0..Len(down) -> Nat] :
          /\ f[Len(down)] = LastSent /\ Chain(down, f) /\ ShownUpTo(f[0])
    BY DEF GapInv
  <1>2. LastSent \in Nat
    <2>1. Len(down) \in Nat
      BY AppendMoves DEF GapInv
    <2>. QED  BY <1>1, <2>1
  <1>3. PICK g \in [0..Len(down') -> Nat] :
          Chain(down', g) /\ g[Len(down')] = v /\ g[0] = f[0]
    <2>1. IsSeq(down) /\ Link(m, f[Len(down)], v)
      BY <1>1, <1>2 DEF GapInv
    <2>. QED  BY <1>1, <2>1, Extended
  <1>4. ShownUpTo(g[0])'
    BY <1>1, <1>3 DEF ShownUpTo
  <1>5. IsSeq(down')
    BY AppendMoves DEF GapInv
  <1>. QED  BY <1>3, <1>4, <1>5 DEF GapInv

\* The steps of the daemon's side keep GapInv,
LEMMA AttachDaemonGap ==
  ASSUME DaemonShape, GapInv, Kind = "attach", ~scene.reorder,
         \/ Close \/ Zap \/ ReceiveError \/ PushStream \/ Undelivered \/ KillReturns
         \/ PluginDone(Kind \in Flushing) \/ Drain \/ Drained
         \/ ShellStart \/ ShellResize \/ ShellKey \/ ShellInput \/ ShellDone
         \/ ShellReceive \/ ShellKill
  PROVE  GapInv'
  <1>. USE DEF DaemonShape, DaemonFields, DaemonOnly
  <1>1. UNCHANGED <<a, target>> /\ (Forwards(a') => Forwards(a) /\ LastSent' = LastSent)
    BY DEF Close, Zap, ReceiveError, PushStream, Undelivered, KillReturns, PluginDone, Drain,
       Drained, ShellStart, ShellResize, ShellKey, ShellInput, ShellDone, ShellReceive,
       ShellKill, LastSent
  <1>2. ASSUME UNCHANGED <<down, client>>,
               d'.dc = d.dc \/ (d.dc = "none" /\ d'.dc = "run") \/ d'.dc = "gone"
        PROVE  GapInv'
    BY <1>1, <1>2, GapQuiet DEF GapInv
  <1>3. ASSUME Close \/ Zap PROVE GapInv'
    <2>1. UNCHANGED <<down, client>> /\ d'.dc = d.dc
      BY <1>3 DEF Close, Zap
    <2>. QED  BY <1>2, <2>1
  <1>4. ASSUME ReceiveError PROVE GapInv'
    <2>1. PICK m \in Arrived({"Fail"}) : Takes(m)
      BY <1>4 DEF ReceiveError
    <2>2. down # <<>> /\ Head(down).t \notin Output /\ down' = Tail(down)
      BY <2>1, TakesHead DEF GapInv, Arrived, Output
    <2>3. d'.dc = d.dc /\ client' = client
      BY <1>4 DEF ReceiveError
    <2>. QED  BY <1>1, <2>2, <2>3, GapTaken DEF GapInv
  <1>5. ASSUME PushStream \/ KillReturns \/ Drain \/ Drained PROVE GapInv'
    BY <1>5 DEF PushStream, KillReturns, Drain, Drained, GapInv
  <1>6. ASSUME Undelivered PROVE GapInv'
    <2>1. /\ d.dc \in {"none", "gone"} /\ down # <<>> /\ down' = Tail(down)
          /\ UNCHANGED <<d, client>>
      BY <1>6 DEF Undelivered
    <2>. QED  BY <1>1, <2>1, GapTaken DEF GapInv
  <1>7. ASSUME PluginDone(Kind \in Flushing) PROVE GapInv'
    BY <1>2, <1>7 DEF PluginDone, Flushing, DbKinds, WebKinds, KubeKinds
  <1>8. ASSUME ShellStart PROVE GapInv'
    BY <1>2, <1>8 DEF ShellStart, Go
  <1>9. ASSUME ShellResize \/ ShellInput \/ ShellDone \/ ShellKill PROVE GapInv'
    <2>1. UNCHANGED <<down, client>> /\ (d'.dc = d.dc \/ d'.dc = "gone")
      BY <1>9 DEF ShellResize, ShellInput, ShellDone, ShellKill, CloseDone, KillTomb
    <2>. QED  BY <1>2, <2>1
  <1>10. ASSUME ShellKey PROVE GapInv'
    <2>1. UNCHANGED down /\ d'.dc = d.dc
      BY <1>10 DEF ShellKey, Returns
    <2>2. /\ DOMAIN client' = ClientFields /\ client'.got = client.got
          /\ client'.eof = client.eof
      BY <1>10 DEF ShellKey, FromClient, GapInv, ClientFields
    <2>. QED  BY <1>1, <2>1, <2>2, GapQuiet
  <1>11. ASSUME ShellReceive PROVE GapInv'
    <2>1. PICK m \in Arrived({"StdOut", "Stop", "Replay"}) :
            /\ Takes(m)
            /\ \/ m.t \in Output /\ client' = Shown(m)
               \/ m.t = "Stop" /\ UNCHANGED client
      BY <1>11 DEF ShellReceive, Output
    <2>2. down # <<>> /\ m = Head(down) /\ down' = Tail(down)
      BY <2>1, TakesHead DEF GapInv
    <2>3. d.dc = "run" /\ d'.dc = d.dc
      BY <1>11 DEF ShellReceive, KillTomb
    <2>4. CASE m.t \in Output /\ client' = Shown(m)
      <3>1. /\ DOMAIN client' = ClientFields /\ client'.eof = client.eof
            /\ client'.got = IF client.eof THEN client.got ELSE client.got \o m.ns
        BY <2>4 DEF Shown, GapInv, ClientFields
      <3>. QED  BY <1>1, <2>2, <2>3, <2>4, <3>1, GapTaken
    <2>5. CASE m.t = "Stop" /\ UNCHANGED client
      BY <1>1, <2>2, <2>3, <2>5, GapTaken DEF Output, GapInv
    <2>. QED  BY <2>1, <2>4, <2>5
  <1>. QED
    BY <1>3, <1>4, <1>5, <1>6, <1>7, <1>8, <1>9, <1>10, <1>11

\* (what the agent has sent last is a number)
LEMMA LastSentIsNat ==
  ASSUME GapInv, Forwards(a)
  PROVE  LastSent \in Nat
  <1>1. PICK f \in [0..Len(down) -> Nat] : f[Len(down)] = LastSent
    BY DEF GapInv
  <1>2. Len(down) \in Nat
    BY AppendMoves DEF GapInv
  <1>. QED  BY <1>1, <1>2

\* The replayed output ends with the last chunk the shell has written.
LEMMA ReplayRange ==
  ASSUME RingInv
  PROVE  LET ns == Ring!ReadAll(a.ring, RingSize)
         IN ns \in Seq(Nat) /\ \E lo \in Nat : Range(ns) = lo..target.sent
  <1>. DEFINE w == History(target.sent)
              len == target.sent
              n == IF len < RingSize THEN len ELSE RingSize
              ns == Ring!ReadAll(a.ring, RingSize)
  <1>1. len \in Nat /\ w \in Seq(Int) /\ Len(w) = len
    BY HistoryAppends DEF RingInv, History
  <1>2. ns = Ring!LastOf(w, RingSize)
    <2>1. RP!RingOK(a.ring, RingSize, w)
      BY SameRing DEF RingInv
    <2>. HIDE DEF w
    <2>2. RP!ReadAll(a.ring, RingSize) = RP!LastOf(w, RingSize)
      BY <1>1, <2>1, RingAssumption, RP!ReadAllIsLast
    <2>. QED  BY <2>2, SameRing
  <1>3. ns = [k \in 1..n |-> w[len - n + k]]
    BY <1>1, <1>2 DEF Ring!LastOf, Ring!Lesser
  <1>4. n \in Nat /\ n <= len
    BY <1>1, RingAssumption
  <1>5. ns = [k \in 1..n |-> len - n + k]
    BY <1>1, <1>3, <1>4 DEF History
  <1>. HIDE DEF ns, n
  <1>6. ns \in Seq(Nat)
    <2>1. \A k \in 1..n : len - n + k \in Nat
      BY <1>1, <1>4
    <2>. QED  BY <1>4, <1>5, <2>1
  <1>7. Range(ns) = (len - n + 1)..len
    <2>1. ASSUME NEW x \in (len - n + 1)..len PROVE x \in Range(ns)
      <3>1. x - (len - n) \in 1..n /\ len - n + (x - (len - n)) = x
        BY <1>1, <1>4
      <3>. QED  BY <1>5, <3>1 DEF Range
    <2>2. ASSUME NEW k \in 1..n PROVE ns[k] \in (len - n + 1)..len
      BY <1>1, <1>4, <1>5
    <2>3. DOMAIN ns = 1..n
      BY <1>5
    <2>. QED  BY <2>1, <2>2, <2>3 DEF Range
  <1>8. len - n + 1 \in Nat
    BY <1>1, <1>4
  <1>. QED  BY <1>6, <1>7, <1>8 DEF ns

\* so do those of the agent's side,
LEMMA AttachAgentGap ==
  ASSUME AgentShape, OpenerInv, RingInv, GapInv, Kind = "attach",
         \/ AgentChannel
         \/ ShellOpenReceived \/ ShellInputReceived \/ ShellResizeReceived
         \/ ShellReplayReceived \/ ShellPumpRead \/ ShellPumpSend \/ ShellPumpEnds
         \/ ShellDying \/ ShellKilled
  PROVE  GapInv'
  <1>. USE DEF AgentShape, AgentFields, AgentOnly
  <1>1. UNCHANGED <<d, client>>
    BY DEF AgentChannel, ReceiveRefused, AgentClose, AgentKilled, InputKilled,
       AgentPluginDone, ShellOpenReceived, ShellInputReceived, ShellResizeReceived,
       ShellReplayReceived, ShellPumpRead, ShellPumpSend, ShellPumpEnds, ShellDying,
       ShellKilled, AgentDying
  <1>2. ASSUME UNCHANGED down, Forwards(a') => Forwards(a) /\ LastSent' = LastSent
        PROVE  GapInv'
    BY <1>1, <1>2, GapQuiet DEF GapInv
  \* The reader and the target stay where they are.
  <1>3. ASSUME UNCHANGED down, Forwards(a') => Forwards(a),
               a'.go["reader"] = a.go["reader"], target'.sent = target.sent
        PROVE  GapInv'
    BY <1>2, <1>3 DEF LastSent
  <1>4. ASSUME Failed, target'.sent = target.sent PROVE GapInv'
    <2>1. a'.go["reader"] = a.go["reader"] /\ a'.dc = a.dc
      BY <1>4 DEF Failed
    <2>2. CASE Forwards(a)
      <3>1. down' = Append(down, Fail) /\ LastSent' = LastSent
        BY <1>4, <2>1, <2>2 DEF Failed, LastSent
      <3>2. Link(Fail, LastSent, LastSent)
        BY DEF Link, Fail, Smsg, Output
      <3>3. CASE LastSent \in Nat
        BY <1>1, <2>2, <3>1, <3>2, <3>3, GapSent
      <3>. QED  BY <2>2, <3>3, LastSentIsNat
    <2>3. CASE ~Forwards(a)
      BY <1>2, <1>4, <2>1, <2>3 DEF Failed, Forwards
    <2>. QED  BY <2>2, <2>3
  <1>5. ASSUME ReceiveRefused \/ AgentClose \/ AgentKilled PROVE GapInv'
    <2>1. /\ UNCHANGED <<down, target>> /\ a'.go = a.go /\ (Forwards(a') => Forwards(a))
      BY <1>5 DEF ReceiveRefused, AgentClose, AgentKilled, Forwards
    <2>. QED  BY <1>3, <2>1
  <1>6. ASSUME InputKilled \/ AgentPluginDone PROVE GapInv'
    <2>1. /\ UNCHANGED <<down, target>> /\ a'.go = a.go /\ (Forwards(a') => Forwards(a))
      BY <1>6 DEF InputKilled, AgentPluginDone, Acked, Forwards
    <2>. QED  BY <1>3, <2>1
  <1>7. ASSUME ShellOpenReceived PROVE GapInv'
    <2>1. up # <<>> /\ Head(up).t = Opener
      BY <1>7 DEF ShellOpenReceived, Receives, Opener
    <2>2. HasOpener(up)
      BY <2>1, TailMoves DEF OpenerInv, HasOpener
    <2>. QED  BY <2>2 DEF OpenerInv
  <1>8. ASSUME ShellInputReceived PROVE GapInv'
    <2>1. target'.sent = target.sent
      BY <1>8 DEF ShellInputReceived, Delivered, RingInv, TargetShape
    <2>2. Failed \/ (a' = Acked(a) /\ UNCHANGED down)
      BY <1>8 DEF ShellInputReceived
    <2>. QED  BY <1>3, <1>4, <2>1, <2>2 DEF Acked, Forwards
  <1>9. ASSUME ShellResizeReceived PROVE GapInv'
    BY <1>3, <1>4, <1>9 DEF ShellResizeReceived, Acked, Forwards
  <1>10. ASSUME ShellReplayReceived PROVE GapInv'
    <2>1. /\ UNCHANGED target /\ a'.go = a.go /\ a'.dc = a.dc
          /\ LastSent' = LastSent
      BY <1>10 DEF ShellReplayReceived, Acked, LastSent
    <2>2. CASE Forwards(a)
      <3>. DEFINE ns == Ring!ReadAll(a.ring, RingSize)
                  m == Smsg("Replay", 0, ns, FALSE)
      <3>1. down' = Append(down, m)
        BY <1>10, <2>2 DEF ShellReplayReceived
      <3>2. ns \in Seq(Nat) /\ target.sent \in Nat /\ LastSent \in Nat
        BY <2>2, ReplayRange, LastSentIsNat DEF RingInv
      <3>3. PICK lo \in Nat : Range(ns) = lo..target.sent
        BY ReplayRange
      <3>. HIDE DEF ns
      <3>4. target.sent \in {LastSent, LastSent + 1}
        BY <3>2 DEF LastSent
      <3>5. UpTo(Range(ns), LastSent)
        BY <3>2, <3>3, <3>4 DEF UpTo
      <3>6. Link(m, LastSent, LastSent)
        BY <3>2, <3>5 DEF Link, Smsg, Output
      <3>. HIDE DEF m
      <3>. QED  BY <1>1, <2>1, <2>2, <3>1, <3>2, <3>6, GapSent
    <2>3. CASE ~Forwards(a)
      BY <1>3, <1>10, <2>1, <2>3 DEF ShellReplayReceived, Forwards
    <2>. QED  BY <2>2, <2>3
  <1>11. ASSUME ShellPumpRead PROVE GapInv'
    <2>1. /\ UNCHANGED down /\ a'.dc = a.dc /\ a'.go["reader"] = "put"
          /\ a.go["reader"] = "run" /\ target'.sent = target.sent + 1
      BY <1>11 DEF ShellPumpRead, FromTarget, RingInv, TargetShape, Goroutines
    <2>2. LastSent' = LastSent
      BY <2>1 DEF LastSent, RingInv
    <2>. QED  BY <1>2, <2>1, <2>2 DEF Forwards
  <1>12. ASSUME ShellPumpSend PROVE GapInv'
    <2>. DEFINE m == Smsg("StdOut", 0, <<target.sent>>, TRUE)
    <2>1. /\ UNCHANGED target /\ a'.dc = a.dc /\ a'.go["reader"] = "run"
          /\ a.go["reader"] = "put" /\ Send(m)
      BY <1>12 DEF ShellPumpSend, Goroutines
    <2>2. CASE Forwards(a)
      <3>1. /\ LastSent \in Nat /\ target.sent \in Nat /\ target.sent = LastSent + 1
            /\ LastSent' = target.sent
        BY <2>1, <2>2, LastSentIsNat DEF LastSent, RingInv
      <3>2. Link(m, LastSent, target.sent)
        <4>1. <<target.sent>> \in Seq(Nat) /\ Range(<<target.sent>>) = {target.sent}
          BY <3>1 DEF Range
        <4>. QED  BY <3>1, <4>1 DEF Link, Smsg, Output
      <3>3. down' = Append(down, m)
        BY <2>1, <2>2 DEF Send
      <3>. HIDE DEF m
      <3>. QED  BY <1>1, <2>2, <3>1, <3>2, <3>3, GapSent
    <2>3. CASE ~Forwards(a)
      BY <1>2, <2>1, <2>3 DEF Send, Forwards
    <2>. QED  BY <2>2, <2>3
  <1>13. ASSUME ShellPumpEnds PROVE GapInv'
    <2>. DEFINE m == Smsg("Stop", 0, <<>>, FALSE)
    <2>1. /\ UNCHANGED target /\ a.go["reader"] = "run" /\ a' = PumpReturns
          /\ Send(m) \/ UNCHANGED down
      BY <1>13 DEF ShellPumpEnds
    <2>2. a'.dc = a.dc /\ a'.go["reader"] = "end"
      BY <2>1 DEF PumpReturns, CloseDone, Goroutines
    <2>3. LastSent' = LastSent
      BY <2>1, <2>2 DEF LastSent
    <2>4. CASE Forwards(a) /\ Send(m)
      <3>1. LastSent \in Nat /\ down' = Append(down, m)
        BY <2>4, LastSentIsNat DEF Send
      <3>2. Link(m, LastSent, LastSent)
        BY DEF Link, Smsg, Output
      <3>. HIDE DEF m
      <3>. QED  BY <1>1, <2>3, <2>4, <3>1, <3>2, GapSent
    <2>5. CASE ~(Forwards(a) /\ Send(m))
      BY <1>2, <2>1, <2>2, <2>3, <2>5 DEF Send, Forwards
    <2>. QED  BY <2>4, <2>5
  <1>14. ASSUME ShellDying \/ ShellKilled PROVE GapInv'
    <2>1. /\ UNCHANGED <<down, target>> /\ a'.go = a.go /\ (Forwards(a') => Forwards(a))
      BY <1>14 DEF ShellDying, ShellKilled, AgentDying, Forwards
    <2>. QED  BY <1>3, <2>1
  <1>. QED
    BY <1>5, <1>6, <1>7, <1>8, <1>9, <1>10, <1>11, <1>12, <1>13, <1>14 DEF AgentChannel

\* and those of the client, the target and the datachannels.
LEMMA AttachEnvGap ==
  ASSUME GapInv, TargetShape, ClientEnds \/ TargetEnds
  PROVE  GapInv'
  <1>1. /\ UNCHANGED <<down, d, a>>
        /\ DOMAIN client' = ClientFields /\ client'.got = client.got
        /\ (client.eof => client'.eof) /\ target'.sent = target.sent
    BY DEF ClientEnds, TargetEnds, GapInv, ClientFields, TargetShape
  <1>2. LastSent' = LastSent
    BY <1>1 DEF LastSent
  <1>. QED  BY <1>1, <1>2, GapQuiet

\* A daemon that attaches sees no gap: if the messages of the session keep their order,
\* what it shows of the shell's output is always an interval, though the replayed output
\* is read from the ring buffer while the shell goes on writing, and whatever is cut off
\* at the end when the client, the target or the data channel goes away.  (NoGap)
THEOREM AttachedSeesNoGap ==
  ASSUME \A s \in Scenes : s.kind = "attach" => ~s.reorder
  PROVE  Spec => []NoGap
  <1>. DEFINE I == Kind = "attach" => RingInv /\ GapInv
  <1>1. Init => I
    <2>. SUFFICES ASSUME Init, Kind = "attach"
                  PROVE  RingInv /\ GapInv
      OBVIOUS
    <2>1. RingInv
      BY RingInitially DEF ShellKinds
    <2>2. /\ down = <<>>
          /\ client = [sent |-> 0, got |-> <<>>, eof |-> FALSE, shut |-> FALSE]
      BY DEF Init, SessionInit
    <2>3. d.dc = "none"
      BY DEF Init, DaemonInit, Early, ShellKinds
    <2>4. LastSent \in Nat
      <3>1. target.sent = 1
        BY DEF Init, NewTarget
      <3>. QED  BY <3>1 DEF LastSent
    <2>. DEFINE f == [i \in 0..0 |-> LastSent]
    <2>5. f \in [0..Len(down) -> Nat] /\ f[Len(down)] = LastSent /\ Chain(down, f)
      BY <2>2, <2>4 DEF Chain
    <2>6. ShownUpTo(f[0])
      <3>1. client.got = <<>> /\ Range(<<>>) = {}
        BY <2>2 DEF Range
      <3>. QED  BY <3>1, UpToNothing DEF ShownUpTo
    <2>7. IsSeq(<<>>) /\ <<>> \in Seq(Nat)
      BY DEF IsSeq
    <2>. HIDE DEF f
    <2>. QED  BY <2>1, <2>2, <2>3, <2>5, <2>6, <2>7 DEF GapInv, ClientFields
  <1>2. NoPanicInv /\ I /\ [Next]_vars => I'
    <2>. SUFFICES ASSUME NoPanicInv, I, [Next]_vars, Kind' = "attach"
                  PROVE  RingInv' /\ GapInv'
      OBVIOUS
    <2>1. CASE Next
      <3>1. Kind = "attach" /\ Kind \in ShellKinds
        BY <2>1, SceneStays DEF Kind, ShellKinds
      <3>2. /\ DaemonShape /\ AgentShape /\ OpenerInv /\ RingInv /\ GapInv /\ TargetShape
            /\ ~scene.reorder
        BY <3>1 DEF NoPanicInv, Careful, Kind, RingInv
      <3>3. ShellShared \/ ShellNext
        BY <2>1, <3>1, ShellSteps
      <3>4. RingInv'
        BY <3>2, <3>3, SharedRingMoves, ShellRingMoves, RingMovesKeep
      <3>5. GapInv'
        BY <3>1, <3>2, <3>3, AttachDaemonGap, AttachAgentGap, AttachEnvGap
           DEF ShellShared, ShellNext
      <3>. QED  BY <3>4, <3>5
    <2>2. CASE UNCHANGED vars
      <3>1. Kind = "attach" /\ RingInv'
        BY <2>2 DEF vars, Kind, RingInv, TargetShape
      <3>2. LastSent' = LastSent
        BY <2>2 DEF vars, LastSent
      <3>. QED  BY <2>2, <3>1, <3>2, GapQuiet DEF vars, GapInv
    <2>. QED  BY <2>1, <2>2
  <1>3. I => NoGap
    <2>. SUFFICES ASSUME GapInv, NEW i \in Range(client.got), NEW j \in Range(client.got)
                  PROVE  i..j \subseteq Range(client.got)
      BY DEF NoGap
    <2>1. PICK lo \in Nat, hi \in Nat : Range(client.got) = lo..hi
      BY DEF GapInv, ShownUpTo, UpTo
    <2>. QED  BY <2>1
  <1>. QED  BY <1>1, <1>2, <1>3, NeverPanics, PTL DEF Spec

-----------------------------------------------------------------------------
(* Chunks in order: runs of messages that carry the next chunks.           *)

\* ns is the chunks after p, up to q.
Segment(ns, p, q) == p <= q /\ ns = [i \in 1..(q - p) |-> p + i]

Shows == {"Stream", "StdOut"}

\* The message after which none with chunks comes, on the way up (from the client to the
\* target) or down; on the way down from a command run by kubeexec ("exec") an Error is
\* one more, after which nothing is looked at.
Final(m, way) ==
  IF way = "up" THEN m.t \in {"Close", "Stop", "Last"}
  ELSE m.t \in Shows /\ ~m.more

\* Before message m the last chunk sent is p, with it q; ends are the chunks after which
\* the final message may come.
Carries(m, p, q, way, ends) ==
  /\ Segment(m.ns, p, q) \/ (way = "exec" /\ m.t = "Error")
  /\ Final(m, way) => q \in ends /\ m.ns = <<>>
  /\ m.ns # <<>> => IF way = "up" THEN m.t = "Input" ELSE m.t \in Shows /\ q <= scene.downs

\* The messages in s carry the chunks after lo, up to hi.
Run(s, lo, hi, way, ends) ==
  \E f \in [0..Len(s) -> Nat] :
    /\ f[0] = lo /\ f[Len(s)] = hi
    /\ \A i \in 1..Len(s) : Carries(s[i], f[i - 1], f[i], way, ends)

-----------------------------------------------------------------------------
(* From the client to the target.                                          *)

Direct == {"dial", "pwdb", "opaque"}     \* written to the target when it comes

\* The daemon has read a chunk that it has not put in the outbox yet.
Pending ==
  \/ Kind \in Direct /\ d.go["reader"] = "put"
  \/ Kind = "kubeexec" /\ d.handler = "put"

\* It reads no more.
ReadingOver ==
  \/ Kind \in Direct /\ d.go["reader"] = "end"
  \/ Kind = "kubeexec" /\ d.handler = "end"
  \/ Kind = "webdial" /\ d.handler \in {"run", "end"}

\* s is the last chunk that is a key kept or in a message.  (A shell that is not connected
\* ends with the key that cancels it.)
SentUpTo(s) ==
  \/ IF Pending THEN s + 1 = client.sent ELSE s = client.sent
  \/ Kind \in ShellKinds /\ d.go["reader"] = "end"

UpEnds ==
  IF Kind = "kubeexec" /\ client.eof THEN Nat
  ELSE IF ReadingOver THEN {client.sent} ELSE {}

\* Nothing that is still on its way will be written to the target.
UpBlocked ==
  \/ a.broken
  \/ Kind \in Direct \cup ShellKinds /\ TargetGone
  \/ Kind \in Direct /\ a.conn = "closed"
  \/ Kind = "kubeexec" /\ a.stopped
  \/ Kind = "webdial" /\ a.go["reader"] # "off"

\* The messages on their way go on after chunk p.
UpFlow(p) ==
  \E q, r, s \in Nat :
    /\ Run(up, p, q, "up", UpEnds) /\ Run(outbox, q, r, "up", UpEnds)
    /\ Segment(d.keys, r, s) /\ SentUpTo(s)

\* The first message on its way is the opener.
OpenerFirst ==
  IF up # <<>> THEN up[1].t = Opener
  ELSE IF outbox # <<>> THEN outbox[1].t = Opener
  ELSE d.act \in {"none", "failed"} /\ d.go["reader"] = "off"

ConnInv ==
  /\ Kind \in DbKinds =>
       /\ a.conn \in {"none", "open", "closed"}
       /\ a.conn # "none" => a.go["reader"] # "off"
       /\ a.conn = "none" /\ ~a.broken => OpenerFirst
  /\ Kind = "opaque" => a.conn \in {"open", "closed"}
  /\ Kind \in Direct /\ a.conn = "closed" => TargetGone \/ a.dying \/ a.stopped

\* What the agent's action has taken to be all is all.
StopInv ==
  a.stopped =>
    /\ Kind \in Direct => a.conn = "closed"
    /\ Kind = "webdial" => a.go["reader"] # "off"
    /\ Kind = "kubeexec" =>
         UpEnds # {} /\ (client.eof \/ Len(target.got \o a.stdin) = client.sent)
    /\ UpEnds # {} \/ TargetGone \/ a.dying
    /\ CloseIsEnd /\ Kind \notin ShellKinds

\* webdial: the request has been made with the whole body.
Answering == Kind = "webdial" /\ a.go["reader"] # "off"

\* The chunk before those that the agent keeps.
Base(k) == IF Kind = "webdial" THEN 0 ELSE k

\* The target has the first chunks; those the agent keeps and those on their way go on.
UpChunks ==
  \E k, p \in Nat :
    /\ Segment(target.got, 0, k)
    /\ Answering \/ (Segment(a.stdin, Base(k), p) /\ (UpBlocked \/ UpFlow(p)))

UpShape ==
  /\ DOMAIN client = ClientFields /\ TargetShape /\ client.sent \in Nat
  /\ Kind \notin ShellKinds => d.keys = <<>>
  /\ Kind \notin {"kubeexec", "webdial"} => a.stdin = <<>>
  /\ Kind = "kubeexec" /\ d.go["writer"] = "stop" => client.eof
  /\ Kind = "webdial" /\ a.go["reader"] = "off" => target.got = <<>>

UpInv == UpShape /\ UpChunks /\ ConnInv /\ StopInv

\* A step that moves no chunk up.  (A dying data channel may close the connection.)
QuietUp ==
  /\ UNCHANGED <<scene, outbox, up>>
  /\ d'.go["reader"] = d.go["reader"] /\ d'.keys = d.keys /\ d'.handler = d.handler
  /\ Kind \in DbKinds => d'.act = d.act
  /\ Kind = "kubeexec" /\ d'.go["writer"] = "stop" => client'.eof
  /\ DOMAIN client' = ClientFields /\ client'.sent = client.sent
  /\ client.eof => client'.eof
  /\ TargetShape' /\ target'.got = target.got /\ (TargetGone => TargetGone')
  /\ a'.broken = a.broken /\ a'.stopped = a.stopped /\ a'.stdin = a.stdin
  /\ Kind \in Direct =>
       a'.conn = a.conn \/ (a.dying /\ a.conn # "none" /\ a'.conn = "closed")
  /\ a'.go["reader"] = "off" <=> a.go["reader"] = "off"
  /\ a.dying => a'.dying

-----------------------------------------------------------------------------
\* No chunks.
LEMMA SegmentNone ==
  ASSUME NEW p \in Nat
  PROVE  Segment(<<>>, p, p) /\ \A q \in Nat : Segment(<<>>, p, q) => q = p
  <1>1. Segment(<<>>, p, p)
    BY DEF Segment
  <1>2. ASSUME NEW q \in Nat, Segment(<<>>, p, q) PROVE q = p
    <2>. DEFINE s == [i \in 1..(q - p) |-> p + i]
    <2>1. DOMAIN s = 1..(q - p) /\ p <= q /\ s = <<>>
      BY <1>2 DEF Segment
    <2>2. DOMAIN <<>> = {}
      OBVIOUS
    <2>. HIDE DEF s
    <2>. QED  BY <2>1, <2>2
  <1>. QED  BY <1>1, <1>2

\* One chunk.
LEMMA SegmentOne ==
  ASSUME NEW p \in Nat
  PROVE  Segment(<<p + 1>>, p, p + 1)
  <1>1. (p + 1) - p = 1
    OBVIOUS
  <1>2. <<p + 1>> = [i \in 1..1 |-> p + i]
    OBVIOUS
  <1>. QED  BY <1>1, <1>2 DEF Segment

\* The length of a segment.
LEMMA SegmentLen ==
  ASSUME NEW s, NEW p \in Nat, NEW q \in Nat, Segment(s, p, q)
  PROVE  /\ s \in Seq(Nat) /\ Len(s) = q - p /\ DOMAIN s = 1..(q - p) /\ p <= q
         /\ \A i \in 1..(q - p) : s[i] = p + i
  BY DEF Segment

\* The chunks from the first.
LEMMA SegmentFirst ==
  ASSUME NEW s, NEW q \in Nat, Segment(s, 0, q)
  PROVE  s \in Seq(Nat) /\ Len(s) = q /\ DOMAIN s = 1..q /\ \A i \in 1..q : s[i] = i
  <1>1. q - 0 = q /\ \A i \in 1..q : 0 + i = i
    OBVIOUS
  <1>. QED  BY <1>1 DEF Segment

\* Segments that meet.
LEMMA SegmentConcat ==
  ASSUME NEW s, NEW t, NEW p \in Nat, NEW q \in Nat, NEW r \in Nat,
         Segment(s, p, q), Segment(t, q, r)
  PROVE  Segment(s \o t, p, r)
  <1>1. /\ s \in Seq(Nat) /\ Len(s) = q - p /\ p <= q /\ \A i \in 1..(q - p) : s[i] = p + i
        /\ t \in Seq(Nat) /\ Len(t) = r - q /\ q <= r /\ \A i \in 1..(r - q) : t[i] = q + i
    BY SegmentLen
  <1>. DEFINE u == s \o t
              w == [i \in 1..(r - p) |-> p + i]
  <1>2. u \in Seq(Nat) /\ Len(u) = r - p
    <2>1. u \in Seq(Nat) /\ Len(u) = Len(s) + Len(t)
      BY <1>1, ConcatProperties
    <2>. QED  BY <1>1, <2>1
  <1>3. w \in Seq(Nat) /\ Len(w) = r - p
    BY <1>1
  <1>4. ASSUME NEW i \in 1..(r - p) PROVE u[i] = w[i]
    <2>1. \A j \in 1..(Len(s) + Len(t)) : u[j] = IF j <= Len(s) THEN s[j] ELSE t[j - Len(s)]
      BY <1>1, ConcatProperties
    <2>2. i \in 1..(Len(s) + Len(t))
      BY <1>1
    <2>3. u[i] = IF i <= Len(s) THEN s[i] ELSE t[i - Len(s)]
      BY <2>1, <2>2
    <2>. HIDE DEF u
    <2>4. CASE i <= Len(s)
      BY <1>1, <2>3, <2>4
    <2>5. CASE i > Len(s)
      BY <1>1, <2>3, <2>5
    <2>. QED  BY <1>1, <2>4, <2>5
  <1>. HIDE DEF u, w
  <1>5. u = w
    BY <1>2, <1>3, <1>4, SeqEqual
  <1>. QED  BY <1>1, <1>5 DEF Segment, u, w

\* The first chunk of a segment.
LEMMA SegmentTail ==
  ASSUME NEW s, NEW p \in Nat, NEW q \in Nat, Segment(s, p, q), s # <<>>
  PROVE  /\ Segment(<<Head(s)>>, p, p + 1) /\ Segment(Tail(s), p + 1, q)
  <1>1. s \in Seq(Nat) /\ Len(s) = q - p /\ p <= q /\ \A i \in 1..(q - p) : s[i] = p + i
    BY SegmentLen
  <1>2. Head(s) = p + 1 /\ p + 1 <= q
    BY <1>1
  <1>. DEFINE u == Tail(s)
              w == [i \in 1..(q - (p + 1)) |-> p + 1 + i]
  <1>3. u \in Seq(Nat) /\ Len(u) = q - (p + 1) /\ w \in Seq(Nat) /\ Len(w) = q - (p + 1)
    BY <1>1, <1>2
  <1>4. ASSUME NEW i \in 1..(q - (p + 1)) PROVE u[i] = w[i]
    BY <1>1, <1>2
  <1>. HIDE DEF u, w
  <1>5. u = w
    BY <1>3, <1>4, SeqEqual
  <1>. QED  BY <1>2, <1>5, SegmentOne DEF Segment, u, w

\* No messages carry no chunks.
LEMMA RunNone ==
  ASSUME NEW p \in Nat, NEW way, NEW ends
  PROVE  Run(<<>>, p, p, way, ends) /\ \A q \in Nat : Run(<<>>, p, q, way, ends) => q = p
  <1>1. Len(<<>>) = 0
    OBVIOUS
  <1>. DEFINE f == [i \in 0..0 |-> p]
  <1>2. f \in [0..Len(<<>>) -> Nat] /\ f[0] = p
    BY <1>1
  <1>. HIDE DEF f
  <1>3. Run(<<>>, p, p, way, ends)
    BY <1>1, <1>2 DEF Run
  <1>. QED  BY <1>1, <1>3 DEF Run

\* A run without its first message.
LEMMA RunTail ==
  ASSUME NEW s, IsSeq(s), s # <<>>, NEW p \in Nat, NEW r \in Nat, NEW way, NEW ends,
         Run(s, p, r, way, ends)
  PROVE  \E q \in Nat : Carries(Head(s), p, q, way, ends) /\ Run(Tail(s), q, r, way, ends)
  <1>1. /\ Len(Tail(s)) = Len(s) - 1 /\ Len(s) \in Nat \ {0} /\ Head(s) = s[1]
        /\ \A i \in 1..(Len(s) - 1) : Tail(s)[i] = s[i + 1]
    <2>1. PICK S : s \in Seq(S)
      BY DEF IsSeq
    <2>2. Len(Tail(s)) = Len(s) - 1
      BY <2>1
    <2>. QED  BY <2>2, TailMoves
  <1>2. PICK f \in [0..Len(s) -> Nat] :
          /\ f[0] = p /\ f[Len(s)] = r
          /\ \A i \in 1..Len(s) : Carries(s[i], f[i - 1], f[i], way, ends)
    BY DEF Run
  <1>. DEFINE n == Len(s) - 1
              g == [i \in 0..n |-> f[i + 1]]
  <1>3. g \in [0..n -> Nat] /\ g[n] = r /\ g[0] = f[1] /\ f[1] \in Nat
    <2>1. n \in Nat /\ n + 1 = Len(s) /\ 1 \in 0..Len(s) /\ 0 + 1 = 1
      BY <1>1
    <2>2. \A i \in 0..n : i + 1 \in 0..Len(s)
      BY <2>1
    <2>. QED  BY <1>2, <2>1, <2>2
  <1>4. ASSUME NEW i \in 1..n PROVE Carries(Tail(s)[i], g[i - 1], g[i], way, ends)
    <2>1. /\ i + 1 \in 1..Len(s) /\ Tail(s)[i] = s[i + 1] /\ (i + 1) - 1 = i
          /\ g[i] = f[i + 1] /\ g[i - 1] = f[i]
      BY <1>1
    <2>2. Carries(s[i + 1], f[(i + 1) - 1], f[i + 1], way, ends)
      BY <1>2, <2>1
    <2>. QED  BY <2>1, <2>2
  <1>5. Carries(Head(s), p, f[1], way, ends)
    <2>1. Carries(s[1], f[1 - 1], f[1], way, ends)
      BY <1>1, <1>2
    <2>2. 1 - 1 = 0
      OBVIOUS
    <2>. QED  BY <1>1, <1>2, <2>1, <2>2
  <1>. HIDE DEF g
  <1>6. Run(Tail(s), f[1], r, way, ends)
    BY <1>1, <1>3, <1>4 DEF Run
  <1>. QED  BY <1>3, <1>5, <1>6

\* A run with a message more.
LEMMA RunAppend ==
  ASSUME NEW s, IsSeq(s), NEW p \in Nat, NEW q \in Nat, NEW r \in Nat, NEW way, NEW ends,
         Run(s, p, q, way, ends), NEW m, Carries(m, q, r, way, ends)
  PROVE  Run(Append(s, m), p, r, way, ends)
  <1>. DEFINE t == Append(s, m)
              n == Len(s)
  <1>1. /\ Len(t) = n + 1 /\ n \in Nat /\ t[n + 1] = m
        /\ \A i \in 1..n : t[i] = s[i]
    <2>1. PICK S : s \in Seq(S)
      BY DEF IsSeq
    <2>2. Len(t) = n + 1
      BY <2>1
    <2>. QED  BY <2>2, AppendMoves
  <1>2. PICK f \in [0..n -> Nat] :
          /\ f[0] = p /\ f[n] = q
          /\ \A i \in 1..n : Carries(s[i], f[i - 1], f[i], way, ends)
    BY DEF Run
  <1>. HIDE DEF t
  <1>. DEFINE g == [i \in 0..n + 1 |-> IF i <= n THEN f[i] ELSE r]
  <1>3. g \in [0..n + 1 -> Nat] /\ g[n + 1] = r /\ g[0] = p /\ g[n] = q
    BY <1>1, <1>2
  <1>4. ASSUME NEW i \in 1..n + 1 PROVE Carries(t[i], g[i - 1], g[i], way, ends)
    <2>1. CASE i \in 1..n
      <3>1. t[i] = s[i] /\ g[i] = f[i] /\ g[i - 1] = f[i - 1]
        BY <1>1, <2>1
      <3>. QED  BY <1>2, <2>1, <3>1
    <2>2. CASE i = n + 1
      <3>1. t[i] = m /\ g[i] = r /\ g[i - 1] = q
        BY <1>1, <1>3, <2>2
      <3>. QED  BY <3>1
    <2>. QED  BY <1>1, <2>1, <2>2
  <1>. HIDE DEF g
  <1>5. Run(t, p, r, way, ends)
    BY <1>1, <1>3, <1>4 DEF Run
  <1>. QED  BY <1>5 DEF t

\* A run may end at more places than it does.
LEMMA RunWider ==
  ASSUME NEW s, NEW p, NEW q, NEW way, NEW ends, NEW more, ends \subseteq more,
         Run(s, p, q, way, ends)
  PROVE  Run(s, p, q, way, more)
  BY DEF Run, Carries

\* A run is one in the next state, too.
LEMMA RunStays ==
  ASSUME UNCHANGED scene, NEW s, NEW p, NEW q, NEW way, NEW ends, Run(s, p, q, way, ends)
  PROVE  Run(s, p, q, way, ends)'
  BY DEF Run, Carries

-----------------------------------------------------------------------------
\* Where the final message may come stays possible when nothing more is read.
LEMMA EndsStay ==
  ASSUME UNCHANGED scene, client.eof => client'.eof,
         ReadingOver => ReadingOver' /\ client'.sent = client.sent, client.sent \in Nat
  PROVE  UpEnds \subseteq UpEnds'
  <1>1. Kind' = Kind
    BY DEF Kind
  <1>. HIDE DEF Kind, ReadingOver
  <1>. QED  BY <1>1 DEF UpEnds

\* UpChunks survives a step that moves none,
LEMMA ChunksQuiet ==
  ASSUME UpChunks, UNCHANGED <<scene, outbox, up>>,
         a'.stdin = a.stdin, target'.got = target.got, UpEnds \subseteq UpEnds',
         \A r, s \in Nat : Segment(d.keys, r, s) /\ SentUpTo(s) =>
           \E w \in Nat : Segment(d'.keys, r, w) /\ SentUpTo(w)',
         UpBlocked => UpBlocked', Answering => Answering'
  PROVE  UpChunks'
  <1>1. PICK k \in Nat, p \in Nat :
          /\ Segment(target.got, 0, k)
          /\ Answering \/ (Segment(a.stdin, Base(k), p) /\ (UpBlocked \/ UpFlow(p)))
    BY DEF UpChunks
  <1>2. ASSUME UpFlow(p) PROVE UpFlow(p)'
    <2>1. PICK q \in Nat, r \in Nat, s \in Nat :
            /\ Run(up, p, q, "up", UpEnds) /\ Run(outbox, q, r, "up", UpEnds)
            /\ Segment(d.keys, r, s) /\ SentUpTo(s)
      BY <1>2 DEF UpFlow
    <2>2. Run(up, p, q, "up", UpEnds') /\ Run(outbox, q, r, "up", UpEnds')
      BY <2>1, RunWider
    <2>3. Run(up, p, q, "up", UpEnds)' /\ Run(outbox, q, r, "up", UpEnds)'
      <3>1. Run(up', p, q, "up", UpEnds') /\ Run(outbox', q, r, "up", UpEnds')
        BY <2>2
      <3>. QED  BY <3>1, RunStays
    <2>4. PICK w \in Nat : Segment(d'.keys, r, w) /\ SentUpTo(w)'
      BY <2>1
    <2>5. Segment(d.keys, r, w)'
      BY <2>4 DEF Segment
    <2>. QED  BY <2>3, <2>4, <2>5 DEF UpFlow
  <1>3. Base(k)' = Base(k)
    BY DEF Base, Kind
  <1>4. /\ Segment(target.got, 0, k)'
        /\ Segment(a.stdin, Base(k), p) => Segment(a.stdin, Base(k), p)'
    BY <1>1, <1>3 DEF Segment
  <1>. QED  BY <1>1, <1>2, <1>4 DEF UpChunks

\* a message that goes from the outbox to the wire,
LEMMA ChunksZap ==
  ASSUME UpChunks, IsSeq(outbox), IsSeq(up), UNCHANGED <<scene, d, a, client, target>>,
         outbox # <<>>, up' = Append(up, Head(outbox)), outbox' = Tail(outbox)
  PROVE  UpChunks'
  <1>1. PICK k \in Nat, p \in Nat :
          /\ Segment(target.got, 0, k)
          /\ Answering \/ (Segment(a.stdin, Base(k), p) /\ (UpBlocked \/ UpFlow(p)))
    BY DEF UpChunks
  <1>2. UpEnds' = UpEnds /\ (Answering => Answering') /\ (UpBlocked => UpBlocked')
        /\ Base(k)' = Base(k)
    BY DEF UpEnds, ReadingOver, Answering, UpBlocked, TargetGone, Base, Kind
  <1>3. ASSUME UpFlow(p) PROVE UpFlow(p)'
    <2>1. PICK q \in Nat, r \in Nat, s \in Nat :
            /\ Run(up, p, q, "up", UpEnds) /\ Run(outbox, q, r, "up", UpEnds)
            /\ Segment(d.keys, r, s) /\ SentUpTo(s)
      BY <1>3 DEF UpFlow
    <2>2. PICK v \in Nat : /\ Carries(Head(outbox), q, v, "up", UpEnds)
                           /\ Run(Tail(outbox), v, r, "up", UpEnds)
      BY <2>1, RunTail
    <2>3. Run(Append(up, Head(outbox)), p, v, "up", UpEnds)
      BY <2>1, <2>2, RunAppend
    <2>4. Run(up, p, v, "up", UpEnds)' /\ Run(outbox, v, r, "up", UpEnds)'
      <3>1. Run(up', p, v, "up", UpEnds') /\ Run(outbox', v, r, "up", UpEnds')
        BY <1>2, <2>2, <2>3
      <3>. QED  BY <3>1, RunStays
    <2>5. Segment(d.keys, r, s)' /\ SentUpTo(s)'
      BY <2>1 DEF Segment, SentUpTo, Pending, Kind
    <2>. QED  BY <2>4, <2>5 DEF UpFlow
  <1>4. /\ Segment(target.got, 0, k)'
        /\ Segment(a.stdin, Base(k), p) => Segment(a.stdin, Base(k), p)'
    BY <1>1, <1>2 DEF Segment
  <1>. QED  BY <1>1, <1>2, <1>3, <1>4 DEF UpChunks

\* a message that is put in the outbox, with the chunks that are due,
LEMMA ChunksPut ==
  ASSUME UpChunks, IsSeq(outbox), UNCHANGED <<scene, a, target, up>>,
         NEW m, outbox' = Append(outbox, m), UpEnds \subseteq UpEnds',
         \A r, s \in Nat : Segment(d.keys, r, s) /\ SentUpTo(s) =>
           \E v, w \in Nat : /\ Carries(m, r, v, "up", UpEnds')
                             /\ Segment(d'.keys, v, w) /\ SentUpTo(w)'
  PROVE  UpChunks'
  <1>1. PICK k \in Nat, p \in Nat :
          /\ Segment(target.got, 0, k)
          /\ Answering \/ (Segment(a.stdin, Base(k), p) /\ (UpBlocked \/ UpFlow(p)))
    BY DEF UpChunks
  <1>2. (Answering => Answering') /\ (UpBlocked => UpBlocked') /\ Base(k)' = Base(k)
    BY DEF Answering, UpBlocked, TargetGone, Base, Kind
  <1>3. ASSUME UpFlow(p) PROVE UpFlow(p)'
    <2>1. PICK q \in Nat, r \in Nat, s \in Nat :
            /\ Run(up, p, q, "up", UpEnds) /\ Run(outbox, q, r, "up", UpEnds)
            /\ Segment(d.keys, r, s) /\ SentUpTo(s)
      BY <1>3 DEF UpFlow
    <2>2. PICK v \in Nat, w \in Nat : /\ Carries(m, r, v, "up", UpEnds')
                                      /\ Segment(d'.keys, v, w) /\ SentUpTo(w)'
      BY <2>1
    <2>3. Run(up, p, q, "up", UpEnds') /\ Run(outbox, q, r, "up", UpEnds')
      BY <2>1, RunWider
    <2>4. Run(Append(outbox, m), q, v, "up", UpEnds')
      BY <2>2, <2>3, RunAppend
    <2>5. Run(up, p, q, "up", UpEnds)' /\ Run(outbox, q, v, "up", UpEnds)'
      <3>1. Run(up', p, q, "up", UpEnds') /\ Run(outbox', q, v, "up", UpEnds')
        BY <2>3, <2>4
      <3>. QED  BY <3>1, RunStays
    <2>6. Segment(d.keys, v, w)'
      BY <2>2 DEF Segment
    <2>. QED  BY <2>2, <2>5, <2>6 DEF UpFlow
  <1>4. /\ Segment(target.got, 0, k)'
        /\ Segment(a.stdin, Base(k), p) => Segment(a.stdin, Base(k), p)'
    BY <1>1, <1>2 DEF Segment
  <1>. QED  BY <1>1, <1>2, <1>3, <1>4 DEF UpChunks

\* and a message that the agent takes, and what it makes of its chunks.
LEMMA ChunksTaken ==
  ASSUME UpChunks, IsSeq(up), UNCHANGED <<scene, outbox, d, client>>,
         up # <<>>, up' = Tail(up),
         Answering => Answering' /\ target'.got = target.got,
         UpBlocked /\ ~Answering =>
           UpBlocked' /\ target'.got = target.got /\ a'.stdin = a.stdin,
         \A k, p, q \in Nat :
           /\ ~UpBlocked /\ Segment(target.got, 0, k) /\ Segment(a.stdin, Base(k), p)
           /\ Carries(Head(up), p, q, "up", UpEnds)
           => \E l, o \in Nat :
                /\ Segment(target'.got, 0, l)
                /\ Answering' \/ (Segment(a'.stdin, Base(l), o) /\ (UpBlocked' \/ o = q))
  PROVE  UpChunks'
  <1>1. PICK k \in Nat, p \in Nat :
          /\ Segment(target.got, 0, k)
          /\ Answering \/ (Segment(a.stdin, Base(k), p) /\ (UpBlocked \/ UpFlow(p)))
    BY DEF UpChunks
  <1>2. UpEnds' = UpEnds /\ \A l : Base(l)' = Base(l)
    BY DEF UpEnds, ReadingOver, Base, Kind
  <1>3. CASE Answering
    BY <1>1, <1>3 DEF UpChunks, Segment
  <1>4. CASE UpBlocked /\ ~Answering
    <2>1. Segment(target.got, 0, k)' /\ Segment(a.stdin, Base(k), p)'
      BY <1>1, <1>2, <1>4 DEF Segment
    <2>. QED  BY <1>4, <2>1 DEF UpChunks
  <1>5. CASE ~UpBlocked /\ ~Answering
    <2>1. Segment(a.stdin, Base(k), p) /\ UpFlow(p)
      BY <1>1, <1>5
    <2>2. PICK q \in Nat, r \in Nat, s \in Nat :
            /\ Run(up, p, q, "up", UpEnds) /\ Run(outbox, q, r, "up", UpEnds)
            /\ Segment(d.keys, r, s) /\ SentUpTo(s)
      BY <2>1 DEF UpFlow
    <2>3. PICK v \in Nat : /\ Carries(Head(up), p, v, "up", UpEnds)
                           /\ Run(Tail(up), v, q, "up", UpEnds)
      BY <2>2, RunTail
    <2>4. PICK l \in Nat, o \in Nat :
            /\ Segment(target'.got, 0, l)
            /\ Answering' \/ (Segment(a'.stdin, Base(l), o) /\ (UpBlocked' \/ o = v))
      BY <1>1, <1>5, <2>1, <2>3
    <2>5. Run(up, v, q, "up", UpEnds)' /\ Run(outbox, q, r, "up", UpEnds)'
      <3>1. Run(up', v, q, "up", UpEnds') /\ Run(outbox', q, r, "up", UpEnds')
        BY <1>2, <2>2, <2>3
      <3>. QED  BY <3>1, RunStays
    <2>6. Segment(d.keys, r, s)' /\ SentUpTo(s)'
      BY <2>2 DEF Segment, SentUpTo, Pending, Kind
    <2>7. UpFlow(v)'
      BY <2>5, <2>6 DEF UpFlow
    <2>8. /\ Segment(target.got, 0, l)'
          /\ Segment(a'.stdin, Base(l), o) => Segment(a.stdin, Base(l), o)'
      BY <1>2, <2>4 DEF Segment
    <2>. QED  BY <2>4, <2>7, <2>8 DEF UpChunks
  <1>. QED  BY <1>3, <1>4, <1>5

-----------------------------------------------------------------------------
\* What a step of the daemon has to see to.
LEMMA UpDaemon ==
  ASSUME UpInv, UNCHANGED <<scene, a, target>>, UpChunks', UpEnds \subseteq UpEnds',
         DOMAIN client' = ClientFields, client'.sent \in Nat, client.eof => client'.eof,
         Kind \notin ShellKinds => d'.keys = <<>>,
         Kind = "kubeexec" /\ d'.go["writer"] = "stop" => client'.eof,
         Kind \in DbKinds /\ OpenerFirst => OpenerFirst'
  PROVE  UpInv'
  <1>1. Kind' = Kind /\ TargetGone' = TargetGone
    BY DEF Kind, TargetGone
  <1>2. UpShape'
    BY <1>1 DEF UpInv, UpShape, TargetShape
  <1>3. ConnInv'
    BY <1>1 DEF UpInv, ConnInv
  <1>4. StopInv'
    <2>. SUFFICES ASSUME a.stopped PROVE StopInv'
      BY DEF StopInv
    <2>1. /\ UpEnds # {} \/ TargetGone \/ a.dying
          /\ CloseIsEnd /\ Kind \notin ShellKinds
          /\ Kind \in Direct => a.conn = "closed"
          /\ Kind = "webdial" => a.go["reader"] # "off"
          /\ Kind = "kubeexec" =>
               UpEnds # {} /\ (client.eof \/ Len(target.got \o a.stdin) = client.sent)
      BY DEF UpInv, StopInv
    <2>2. UpEnds' # {} \/ TargetGone' \/ a'.dying
      BY <1>1, <2>1
    <2>3. CloseIsEnd'
      <3>0. CASE TargetGone \/ a.dying
        BY <1>1, <3>0 DEF CloseIsEnd
      <3>1. CASE Kind = "kubeexec" /\ (client.eof \/ client'.eof)
        BY <1>1, <3>1 DEF CloseIsEnd
      <3>2. CASE ~(Kind = "kubeexec" /\ (client.eof \/ client'.eof)) /\ UpEnds # {}
        <4>1. UpEnds = {client.sent}
          BY <2>1, <3>2 DEF UpEnds
        <4>2. UpEnds' \in {{}, {client'.sent}}
          BY <1>1, <3>2 DEF UpEnds
        <4>3. client'.sent = client.sent
          BY <4>1, <4>2
        <4>4. Kind \notin {"transparent", "portforward"} \/ CloseIsEnd'
          <5>1. UpEnds # {} => Kind \in Direct \cup {"kubeexec", "webdial"}
            BY DEF UpEnds, ReadingOver
          <5>. QED  BY <3>2, <5>1 DEF Direct
        <4>. QED  BY <1>1, <2>1, <3>2, <4>3, <4>4 DEF CloseIsEnd
      <3>. QED  BY <2>1, <3>0, <3>1, <3>2
    <2>4. Kind = "kubeexec" => /\ UpEnds' # {}
                               /\ \/ client'.eof
                                  \/ Len(target'.got \o a'.stdin) = client'.sent
      <3>1. CASE Kind = "kubeexec" /\ ~client'.eof
        <4>1. UpEnds = {client.sent} /\ UpEnds' \in {{}, {client'.sent}}
          BY <1>1, <2>1, <3>1 DEF UpEnds
        <4>. QED  BY <2>1, <3>1, <4>1
      <3>. QED  BY <2>1, <3>1
    <2>. QED  BY <1>1, <2>1, <2>2, <2>3, <2>4 DEF StopInv
  <1>. QED  BY <1>2, <1>3, <1>4 DEF UpInv

\* A message without chunks is put in the outbox; the last one when nothing is pending.
LEMMA PutEmpty ==
  ASSUME UpInv, IsSeq(outbox), UNCHANGED <<scene, a, target, up>>,
         NEW m, outbox' = Append(outbox, m), m.ns = <<>>, d'.keys = d.keys,
         UpEnds \subseteq UpEnds', \A s \in Nat : SentUpTo(s) => SentUpTo(s)',
         Final(m, "up") => \/ UpEnds' = Nat
                           \/ Kind \notin ShellKinds /\ ~Pending /\ client.sent \in UpEnds'
  PROVE  UpChunks'
  <1>1. ASSUME NEW r \in Nat, NEW s \in Nat, Segment(d.keys, r, s), SentUpTo(s)
        PROVE  Carries(m, r, r, "up", UpEnds') /\ Segment(d'.keys, r, s) /\ SentUpTo(s)'
    <2>1. Segment(m.ns, r, r)
      BY SegmentNone
    <2>2. CASE Final(m, "up") /\ UpEnds' # Nat
      <3>1. d.keys = <<>>
        BY <2>2 DEF UpInv, UpShape
      <3>2. r = s
        BY <1>1, <3>1, SegmentNone
      <3>3. s = client.sent
        BY <1>1, <2>2 DEF SentUpTo
      <3>. QED  BY <1>1, <2>1, <2>2, <3>2, <3>3 DEF Carries
    <2>3. CASE ~(Final(m, "up") /\ UpEnds' # Nat)
      BY <1>1, <2>1, <2>3 DEF Carries
    <2>. QED  BY <2>2, <2>3
  <1>. QED  BY <1>1, ChunksPut DEF UpInv

\* The chunk that is pending is put in the outbox.
LEMMA PutPending ==
  ASSUME UpInv, IsSeq(outbox), UNCHANGED <<scene, a, target, up>>,
         NEW m, outbox' = Append(outbox, m), m.ns = <<client.sent>>, m.t = "Input",
         client'.sent = client.sent, d'.keys = d.keys, UpEnds \subseteq UpEnds',
         Kind \notin ShellKinds, Pending, ~Pending'
  PROVE  UpChunks'
  <1>1. ASSUME NEW r \in Nat, NEW s \in Nat, Segment(d.keys, r, s), SentUpTo(s)
        PROVE  /\ Carries(m, r, r + 1, "up", UpEnds') /\ Segment(d'.keys, r + 1, r + 1)
               /\ SentUpTo(r + 1)'
    <2>1. d.keys = <<>>
      BY DEF UpInv, UpShape
    <2>2. r = s
      BY <1>1, <2>1, SegmentNone
    <2>3. s + 1 = client.sent
      BY <1>1 DEF SentUpTo
    <2>4. Segment(m.ns, r, r + 1)
      BY <2>2, <2>3, SegmentOne
    <2>5. SentUpTo(r + 1)'
      BY <2>2, <2>3 DEF SentUpTo
    <2>6. Segment(d'.keys, r + 1, r + 1)
      BY <2>1, SegmentNone
    <2>7. ~Final(m, "up")
      BY DEF Final
    <2>. QED  BY <2>4, <2>5, <2>6, <2>7 DEF Carries
  <1>2. \A r \in Nat : r + 1 \in Nat
    OBVIOUS
  <1>. QED  BY <1>1, <1>2, ChunksPut DEF UpInv

\* The opener stays first when something is put in the outbox behind it, or it is put.
LEMMA OpenerStaysFirst ==
  ASSUME IsSeq(outbox), IsSeq(up), UNCHANGED <<scene, up>>, OpenerFirst,
         NEW m, outbox' = Append(outbox, m),
         m.t = Opener \/ d.act \notin {"none", "failed"} \/ d.go["reader"] # "off"
  PROVE  OpenerFirst'
  <1>1. Opener' = Opener
    BY DEF Opener, Kind
  <1>2. /\ outbox' # <<>> /\ (outbox = <<>> => outbox'[1] = m)
        /\ outbox # <<>> => outbox'[1] = outbox[1]
    <2>1. PICK S : outbox \in Seq(S)
      BY DEF IsSeq
    <2>2. Len(outbox) \in Nat /\ (outbox # <<>> => Len(outbox) >= 1)
      BY <2>1
    <2>3. DOMAIN outbox' = 1..(Len(outbox) + 1)
      BY AppendMoves
    <2>4. outbox' # <<>>
      BY <2>2, <2>3
    <2>. QED  BY <2>2, <2>4, AppendMoves
  <1>. QED  BY <1>1, <1>2 DEF OpenerFirst

\* UpInv survives a step that moves no chunk up.
LEMMA UpQuiet ==
  ASSUME UpInv, QuietUp
  PROVE  UpInv'
  <1>. USE DEF QuietUp
  <1>1. /\ Kind' = Kind /\ Opener' = Opener /\ Pending' = Pending
        /\ ReadingOver' = ReadingOver /\ Answering' = Answering
    BY DEF Kind, Opener, Pending, ReadingOver, Answering, Direct
  <1>2. UpEnds \subseteq UpEnds'
    BY <1>1, EndsStay DEF UpInv, UpShape
  <1>3. \A s : SentUpTo(s)' = SentUpTo(s)
    BY <1>1 DEF SentUpTo
  <1>4. UpBlocked => UpBlocked'
    BY <1>1 DEF UpBlocked
  <1>5. UpChunks'
    BY <1>1, <1>2, <1>3, <1>4, ChunksQuiet DEF UpInv
  <1>6. UpShape'
    BY <1>1 DEF UpInv, UpShape
  <1>7. ConnInv'
    <2>1. Kind \in DbKinds => OpenerFirst' = OpenerFirst
      BY <1>1 DEF OpenerFirst
    <2>2. Kind \in DbKinds => Kind \in Direct
      BY DEF DbKinds, Direct
    <2>3. Kind = "opaque" => Kind \in Direct
      BY DEF Direct
    <2>. QED  BY <1>1, <2>1, <2>2, <2>3 DEF UpInv, ConnInv
  <1>8. StopInv'
    <2>. SUFFICES ASSUME a.stopped PROVE StopInv'
      BY DEF StopInv
    <2>1. /\ UpEnds # {} \/ TargetGone \/ a.dying
          /\ CloseIsEnd /\ Kind \notin ShellKinds
          /\ Kind \in Direct => a.conn = "closed"
          /\ Kind = "webdial" => a.go["reader"] # "off"
          /\ Kind = "kubeexec" =>
               UpEnds # {} /\ (client.eof \/ Len(target.got \o a.stdin) = client.sent)
      BY DEF UpInv, StopInv
    <2>2. UpEnds # {} => Kind \notin {"transparent", "portforward"}
      BY DEF UpEnds, ReadingOver, Direct
    <2>3. CloseIsEnd'
      BY <1>1, <2>1, <2>2 DEF CloseIsEnd
    <2>4. Kind = "kubeexec" => /\ UpEnds' # {}
                               /\ \/ client'.eof
                                  \/ Len(target'.got \o a'.stdin) = client'.sent
      BY <1>2, <2>1
    <2>. QED  BY <1>1, <1>2, <2>1, <2>3, <2>4 DEF StopInv
  <1>. QED  BY <1>5, <1>6, <1>7, <1>8 DEF UpInv

-----------------------------------------------------------------------------
\* The daemon reads, or ends its reading.
LEMMA UpRead ==
  ASSUME UpInv, UNCHANGED <<scene, a, target, outbox, up>>, d'.keys = d.keys,
         DOMAIN client' = ClientFields, client'.sent \in Nat, client.eof => client'.eof,
         ReadingOver => ReadingOver' /\ client'.sent = client.sent,
         \A s \in Nat : SentUpTo(s) => SentUpTo(s)',
         Kind = "kubeexec" /\ d'.go["writer"] = "stop" => client'.eof,
         Kind \in DbKinds /\ d.act \in {"none", "failed"} /\ d.go["reader"] = "off"
           => d'.act \in {"none", "failed"} /\ d'.go["reader"] = "off"
  PROVE  UpInv'
  <1>1. UpEnds \subseteq UpEnds'
    BY EndsStay DEF UpInv, UpShape
  <1>2. (UpBlocked => UpBlocked') /\ (Answering => Answering')
    BY DEF UpBlocked, Answering, TargetGone, Kind
  <1>3. UpChunks'
    BY <1>1, <1>2, ChunksQuiet DEF UpInv
  <1>4. Kind \in DbKinds /\ OpenerFirst => OpenerFirst'
    BY DEF OpenerFirst, Opener, Kind
  <1>5. Kind \notin ShellKinds => d'.keys = <<>>
    BY DEF UpInv, UpShape
  <1>. QED  BY <1>1, <1>3, <1>4, <1>5, UpDaemon

\* The daemon puts a message without chunks in the outbox.
LEMMA UpPutEmpty ==
  ASSUME UpInv, IsSeq(outbox), IsSeq(up), UNCHANGED <<scene, a, target, up>>,
         DOMAIN client' = ClientFields, client'.sent = client.sent,
         client.eof => client'.eof,
         NEW m, outbox' = Append(outbox, m), m.ns = <<>>, d'.keys = d.keys,
         ReadingOver => ReadingOver', Pending' <=> Pending,
         d.go["reader"] = "end" => d'.go["reader"] = "end",
         Final(m, "up") => \/ Kind = "kubeexec" /\ client'.eof
                           \/ Kind \notin ShellKinds /\ ~Pending /\ ReadingOver',
         Kind = "kubeexec" /\ d'.go["writer"] = "stop" => client'.eof,
         Kind \in DbKinds =>
           m.t = Opener \/ d.act \notin {"none", "failed"} \/ d.go["reader"] # "off"
  PROVE  UpInv'
  <1>1. UpEnds \subseteq UpEnds'
    BY EndsStay DEF UpInv, UpShape
  <1>2. Kind' = Kind /\ client.sent \in Nat
    BY DEF Kind, UpInv, UpShape
  <1>3. \A s \in Nat : SentUpTo(s) => SentUpTo(s)'
    BY <1>2 DEF SentUpTo
  <1>4. Final(m, "up") => \/ UpEnds' = Nat
                          \/ Kind \notin ShellKinds /\ ~Pending /\ client.sent \in UpEnds'
    <2>1. CASE Kind = "kubeexec" /\ client'.eof
      BY <1>2, <2>1 DEF UpEnds
    <2>2. CASE Kind \notin ShellKinds /\ ~Pending /\ ReadingOver'
      BY <1>2, <2>2 DEF UpEnds
    <2>. QED  BY <2>1, <2>2
  <1>5. UpChunks'
    BY <1>1, <1>3, <1>4, PutEmpty
  <1>6. Kind \in DbKinds /\ OpenerFirst => OpenerFirst'
    BY OpenerStaysFirst
  <1>7. Kind \notin ShellKinds => d'.keys = <<>>
    BY DEF UpInv, UpShape
  <1>. QED  BY <1>1, <1>2, <1>5, <1>6, <1>7, UpDaemon

\* The daemon puts the chunk it has read in the outbox.
LEMMA UpPutPending ==
  ASSUME UpInv, IsSeq(outbox), IsSeq(up), UNCHANGED <<scene, a, target, up, client>>,
         NEW m, outbox' = Append(outbox, m), m = Act("Input", <<client.sent>>),
         d'.keys = d.keys, Kind \notin ShellKinds, Pending, ~Pending', ~ReadingOver,
         Kind = "kubeexec" /\ d'.go["writer"] = "stop" => client'.eof,
         Kind \in DbKinds => d.go["reader"] # "off"
  PROVE  UpInv'
  <1>1. UpEnds \subseteq UpEnds'
    BY EndsStay DEF UpInv, UpShape
  <1>2. m.ns = <<client.sent>> /\ m.t = "Input"
    BY DEF Act
  <1>3. UpChunks'
    BY <1>1, <1>2, PutPending
  <1>4. Kind \in DbKinds /\ OpenerFirst => OpenerFirst'
    BY OpenerStaysFirst
  <1>5. /\ d'.keys = <<>> /\ DOMAIN client' = ClientFields /\ client'.sent \in Nat
    BY DEF UpInv, UpShape
  <1>. QED  BY <1>1, <1>3, <1>4, <1>5, UpDaemon

-----------------------------------------------------------------------------
(* The steps that all the kinds share.                                     *)

SharedSteps ==
  \/ ClientEnds \/ TargetEnds \/ Close \/ Zap \/ DaemonChannel \/ AgentChannel

WebDialSteps ==
  \/ WebStartRefused
  \/ WebDialStart \/ WebDialBody \/ WebDialCancelled \/ WebDialDying
  \/ WebDialTake \/ WebDialProcess
  \/ WebDialStartReceived \/ WebDialInputReceived \/ WebDialLastReceived
  \/ WebDialInterruptReceived \/ WebDialReads \/ WebDialResponse \/ WebAgentDying

KubeExecSteps ==
  \/ KubeStartRefused
  \/ KubeExecStart \/ KubeExecWrite \/ KubeExecClosed \/ KubeExecRead \/ KubeExecSend
  \/ KubeExecResize
  \/ KubeExecStartReceived \/ KubeExecInputReceived \/ KubeExecStopReceived
  \/ KubeExecResizeReceived
  \/ KubeExecStdin \/ KubeExecStdout \/ KubeExecEnds \/ KubeExecDying \/ KubeExecKilled

\* The steps of the careful kinds.
LEMMA CarefulSteps ==
  ASSUME Kind \in Careful, Next
  PROVE  SharedSteps \/ DbNext \/ OpaqueSteps \/ ShellNext \/ WebDialSteps \/ KubeExecSteps
  <1>1. CASE SshNext
    <2>1. ~(\/ TransparentStart \/ TransparentRequest \/ TransparentExec
            \/ TransparentRead \/ TransparentSend \/ TransparentReceiveStream
            \/ TransparentKill \/ TransparentOpenReceived \/ TransparentInputReceived
            \/ TransparentExecReceived \/ TransparentCloseReceived
            \/ TransparentKillsTomb \/ TransparentStdin
            \/ TransparentPipe("reader", "StdOut")
            \/ TransparentPipe("errs", "StdErr") \/ TransparentDying)
      BY DEF Careful, TransparentStart, TransparentRequest, TransparentExec,
         TransparentRead, TransparentSend, TransparentReceiveStream, TransparentKill,
         TransparentOpenReceived, TransparentInputReceived, TransparentExecReceived,
         TransparentCloseReceived, TransparentKillsTomb, TransparentStdin,
         TransparentPipe, TransparentDying
    <2>. QED  BY <1>1, <2>1 DEF SshNext, OpaqueSteps
  <1>2. CASE WebNext
    <2>1. ~(\/ WebWsStart \/ WebWsRead \/ WebWsSend \/ WebWsWrite
            \/ WebWsStartReceived \/ WebWsInputReceived \/ WebWsStopReceived
            \/ WebWsRemoteRead)
      BY DEF Careful, WebWsStart, WebWsRead, WebWsSend, WebWsWrite, WebWsStartReceived,
         WebWsInputReceived, WebWsStopReceived, WebWsRemoteRead
    <2>. QED  BY <1>2, <2>1 DEF WebNext, WebDialSteps
  <1>3. CASE KubeNext
    <2>1. ~(\/ KubeBodyBreaks \/ KubeKill \/ KubeHandlerDone \/ RestStart
            \/ RestCancelled \/ RestReceiveMrtap \/ RestResponse \/ KubeStreamStart
            \/ KubeStreamHead \/ KubeStreamKept \/ KubeStreamTake
            \/ KubeStreamCancelled \/ RestRequestReceived \/ RestReplied \/ RestDying
            \/ KubeStreamStartReceived \/ KubeStreamStopReceived \/ KubeStreamRead
            \/ KubeStreamSend \/ KubeStreamLastLog \/ KubeStreamDying)
      BY DEF Careful, KubeBodyBreaks, KubeKill, KubeHandlerDone, RestStart, RestCancelled,
         RestReceiveMrtap, RestResponse, KubeStreamStart, KubeStreamHead,
         KubeStreamKept, KubeStreamTake, KubeStreamCancelled, RestRequestReceived,
         RestReplied, RestDying, KubeStreamStartReceived, KubeStreamStopReceived,
         KubeStreamRead, KubeStreamSend, KubeStreamLastLog, KubeStreamDying
    <2>. QED  BY <1>3, <2>1 DEF KubeNext, KubeExecSteps
  <1>4. ~PfNext
    BY DEF Careful, PfKind, PfNext, PfStart, PfReady, PfStreamArrives, PfPairTimesOut,
       PfEnds, PfClose, PfKill, PfReceiveStream, PfTake, PfTakeKept, PfForwarded,
       PfRead, PfSend, PfErrorStream, PfStartReceived, PfDataReceived,
       PfStopRequestReceived, PfRequestKilled, PfStopReceived, PfStopped, PfDying,
       PfKilled, PfConnBreaks, PfConnClosed, PfWrite, PfRemoteRead, PfRemoteSend,
       PfRemoteErrors
  <1>. QED  BY <1>1, <1>2, <1>3, <1>4 DEF Next, SharedSteps

\* They move no chunk up, but Zap and ReceiveRefused.
LEMMA UpShared ==
  ASSUME DaemonShape, AgentShape, OpenerInv, UpInv, SharedSteps
  PROVE  UpInv'
  <1>. USE DEF DaemonShape, AgentShape, DaemonFields, AgentFields
  <1>1. UpShape
    BY DEF UpInv
  <1>2. CASE ClientEnds
    <2>1. QuietUp
      BY <1>1, <1>2 DEF ClientEnds, QuietUp, UpShape, ClientFields, TargetShape, TargetGone
    <2>. QED  BY <2>1, UpQuiet
  <1>3. CASE TargetEnds
    <2>1. QuietUp
      BY <1>1, <1>3 DEF TargetEnds, QuietUp, UpShape, ClientFields, TargetShape, TargetGone
    <2>. QED  BY <2>1, UpQuiet
  <1>4. CASE Close \/ DaemonChannel
    <2>1. /\ UNCHANGED <<scene, outbox, up, a, target, client>>
          /\ d'.go = d.go /\ d'.keys = d.keys /\ d'.handler = d.handler /\ d'.act = d.act
      <3>. USE DEF DaemonOnly
      <3>1. CASE Close
        BY <3>1 DEF Close
      <3>2. CASE ReceiveError \/ ReceiveStream(Queueing, Streams) \/ PushStream
        BY <3>2 DEF ReceiveError, ReceiveStream, PushStream
      <3>3. CASE Undelivered \/ Drain \/ Drained
        BY <3>3 DEF Undelivered, Drain, Drained
      <3>4. CASE KillWaiting(DbKinds \cup WebKinds \cup {"kubeexec"}) \/ KillReturns
        BY <3>4 DEF KillWaiting, KillReturns, KillTomb
      <3>5. CASE PluginDone(Kind \in Flushing)
        BY <3>5 DEF PluginDone
      <3>. QED  BY <1>4, <3>1, <3>2, <3>3, <3>4, <3>5 DEF DaemonChannel
    <2>2. QuietUp
      BY <1>1, <2>1 DEF QuietUp, UpShape, TargetShape, TargetGone
    <2>. QED  BY <2>2, UpQuiet
  <1>5. CASE Zap
    <2>1. /\ UNCHANGED <<scene, d, a, client, target>> /\ outbox # <<>>
          /\ up' = Append(up, Head(outbox)) /\ outbox' = Tail(outbox)
      BY <1>5 DEF Zap, DaemonOnly
    <2>2. IsSeq(outbox) /\ IsSeq(up)
      BY DEF OpenerInv
    <2>3. UpChunks'
      BY <2>1, <2>2, ChunksZap DEF UpInv
    <2>4. UpEnds' = UpEnds
      BY <2>1 DEF UpEnds, ReadingOver, Kind
    <2>5. OpenerFirst => OpenerFirst'
      <3>1. /\ up' # <<>> /\ (up = <<>> => up'[1] = outbox[1])
            /\ up # <<>> => up'[1] = up[1]
        <4>1. PICK S : up \in Seq(S)
          BY <2>2 DEF IsSeq
        <4>2. Len(up) \in Nat /\ (up # <<>> => Len(up) >= 1) /\ Len(<<>>) = 0
          BY <4>1
        <4>3. DOMAIN up' = 1..(Len(up) + 1)
          BY <2>1, <2>2, AppendMoves
        <4>4. up' # <<>>
          BY <4>2, <4>3
        <4>5. Head(outbox) = outbox[1]
          BY <2>1, <2>2, TailMoves
        <4>. QED  BY <2>1, <2>2, <4>2, <4>4, <4>5, AppendMoves
      <3>. QED  BY <2>1, <3>1 DEF OpenerFirst, Opener, Kind
    <2>. QED  BY <1>1, <2>1, <2>3, <2>4, <2>5, UpDaemon DEF UpShape
  <1>6. CASE ReceiveRefused
    <2>1. /\ UNCHANGED <<scene, outbox, d, client, a, target>> /\ a.broken
          /\ up # <<>> /\ up' = Tail(up)
      BY <1>6 DEF ReceiveRefused, AgentOnly
    <2>2. /\ UpBlocked /\ UpBlocked' /\ Answering' = Answering
          /\ Kind' = Kind /\ TargetGone' = TargetGone /\ UpEnds' = UpEnds
      BY <2>1 DEF UpBlocked, Answering, Kind, TargetGone, UpEnds, ReadingOver
    <2>3. UpChunks'
      BY <2>1, <2>2, ChunksTaken DEF OpenerInv, UpInv
    <2>4. UpShape' /\ ConnInv'
      BY <2>1, <2>2 DEF UpInv, UpShape, ConnInv, TargetShape
    <2>5. StopInv'
      BY <2>1, <2>2 DEF UpInv, StopInv, CloseIsEnd
    <2>. QED  BY <2>3, <2>4, <2>5 DEF UpInv
  <1>7. CASE AgentChannel /\ ~ReceiveRefused
    <2>1. /\ UNCHANGED <<scene, outbox, up, d, client, target>>
          /\ a'.go = a.go /\ a'.broken = a.broken /\ a'.stopped = a.stopped
          /\ a'.stdin = a.stdin /\ a'.conn = a.conn /\ (a.dying => a'.dying)
      BY <1>7 DEF AgentOnly, AgentChannel, AgentClose, AgentKilled, InputKilled,
         AgentPluginDone, Acked
    <2>2. QuietUp
      BY <1>1, <2>1 DEF QuietUp, UpShape, TargetShape, TargetGone
    <2>. QED  BY <2>2, UpQuiet
  <1>. QED  BY <1>2, <1>3, <1>4, <1>5, <1>6, <1>7 DEF SharedSteps, AgentChannel

-----------------------------------------------------------------------------
(* dial, pwdb and opaque: the daemon's reader.                             *)

\* Where it is.
LEMMA DirectState ==
  ASSUME Kind \in Direct, UNCHANGED scene
  PROVE  /\ Kind' = Kind
         /\ Kind \notin {"kubeexec", "webdial"} /\ Kind \notin ShellKinds
         /\ Pending <=> d.go["reader"] = "put"
         /\ Pending' <=> d'.go["reader"] = "put"
         /\ ReadingOver <=> d.go["reader"] = "end"
         /\ ReadingOver' <=> d'.go["reader"] = "end"
  <1>1. Kind' = Kind
    BY DEF Kind
  <1>2. Kind \notin {"kubeexec", "webdial"} /\ Kind \notin ShellKinds
    BY DEF Direct, ShellKinds
  <1>. QED  BY <1>1, <1>2 DEF Pending, ReadingOver

\* It reads, or ends.
LEMMA DirectReads ==
  ASSUME UpInv, Kind \in Direct, UNCHANGED <<scene, a, target, up, outbox>>,
         d'.keys = d.keys, DOMAIN client' = ClientFields, client'.eof = client.eof,
         IF d.go["reader"] # "put" /\ d'.go["reader"] = "put"
           THEN d.go["reader"] # "end" /\ client'.sent = client.sent + 1
           ELSE /\ client'.sent = client.sent
                /\ d.go["reader"] \in {"put", "end"} => d'.go["reader"] = d.go["reader"],
         Kind \in DbKinds /\ d.act \in {"none", "failed"} /\ d.go["reader"] = "off"
           => d'.act \in {"none", "failed"} /\ d'.go["reader"] = "off"
  PROVE  UpInv'
  <1>1. DOMAIN client = ClientFields /\ client.sent \in Nat
    BY DEF UpInv, UpShape
  <1>2. \A s \in Nat : SentUpTo(s) => SentUpTo(s)'
    BY <1>1, DirectState DEF SentUpTo
  <1>3. ReadingOver => ReadingOver' /\ client'.sent = client.sent
    BY DirectState
  <1>4. Kind # "kubeexec" /\ client'.sent \in Nat
    BY <1>1, DirectState
  <1>. QED  BY <1>2, <1>3, <1>4, UpRead

\* It puts a message without chunks in the outbox.
LEMMA DirectPuts ==
  ASSUME UpInv, Kind \in Direct, IsSeq(outbox), IsSeq(up),
         UNCHANGED <<scene, a, target, up, client>>,
         NEW m, Put(m), m.ns = <<>>, d'.keys = d.keys,
         d.go["reader"] \notin {"put", "end"}, d'.go["reader"] # "put",
         m.t \in {"Close", "Stop", "Last"} => d'.go["reader"] = "end",
         Kind \in DbKinds => m.t = Opener \/ d.go["reader"] # "off"
  PROVE  UpInv'
  <1>1. outbox' = Append(outbox, m)
    BY DEF Put
  <1>2. Final(m, "up") => ~Pending /\ ReadingOver'
    BY DirectState DEF Final
  <1>3. /\ ReadingOver => ReadingOver'
        /\ Pending' <=> Pending
        /\ DOMAIN client' = ClientFields /\ client'.sent = client.sent
        /\ client.eof => client'.eof
        /\ Kind # "kubeexec" /\ Kind \notin ShellKinds
    BY DirectState DEF UpInv, UpShape
  <1>. QED  BY <1>1, <1>2, <1>3, UpPutEmpty

-----------------------------------------------------------------------------
(* dial and pwdb.                                                          *)

\* The steps that move no chunk up.
LEMMA UpDbQuiet ==
  ASSUME DaemonShape, AgentShape, UpShape, Kind \in DbKinds,
         \/ WriterDying \/ DialTake \/ DialProcess \/ PwdbProcess
         \/ RemoteRead \/ RemoteStream \/ RemoteEnd \/ RemoteReadDying \/ DbDying
  PROVE  QuietUp
  <1>. USE DEF DaemonShape, AgentShape, DaemonFields, AgentFields, Goroutines
  <1>1. Kind # "kubeexec"
    BY DEF DbKinds
  <1>2. ASSUME UNCHANGED <<scene, outbox, up, a, target>>,
               d'.go["reader"] = d.go["reader"], d'.keys = d.keys,
               d'.handler = d.handler, d'.act = d.act, DOMAIN client' = ClientFields,
               client'.sent = client.sent, client'.eof = client.eof
        PROVE  QuietUp
    BY <1>1, <1>2 DEF QuietUp, UpShape, TargetShape, TargetGone
  <1>3. ASSUME UNCHANGED <<scene, outbox, up, d, client>>, TargetShape',
               target'.got = target.got, target'.eof = target.eof, target'.err = target.err,
               a'.broken = a.broken, a'.stopped = a.stopped, a'.stdin = a.stdin,
               a'.conn = a.conn, a'.dying = a.dying,
               a'.go["reader"] = "off" <=> a.go["reader"] = "off"
        PROVE  QuietUp
    BY <1>1, <1>3 DEF QuietUp, UpShape, TargetGone
  <1>4. ASSUME NEW r, NEW failed \in BOOLEAN, WriterReturns(r, failed),
               r.go = d.go, r.keys = d.keys, r.handler = d.handler, r.act = d.act,
               DOMAIN r = DaemonFields, UNCHANGED <<scene, outbox, up, a, target>>
        PROVE  QuietUp
    <2>1. /\ d'.go["reader"] = d.go["reader"] /\ d'.keys = d.keys
          /\ d'.handler = d.handler /\ d'.act = d.act
      BY <1>4 DEF WriterReturns, Returns
    <2>2. DOMAIN client' = ClientFields /\ client'.sent = client.sent
          /\ client'.eof = client.eof
      BY <1>4 DEF WriterReturns, UpShape, ClientFields
    <2>. QED  BY <1>2, <1>4, <2>1, <2>2
  <1>5. ASSUME NEW m PROVE /\ DOMAIN Shown(m) = ClientFields
                           /\ Shown(m).sent = client.sent /\ Shown(m).eof = client.eof
    BY DEF Shown, UpShape, ClientFields
  <1>6. CASE WriterDying
    BY <1>4, <1>6 DEF WriterDying, DaemonOnly
  <1>7. CASE DialTake
    BY <1>2, <1>7 DEF DialTake, DaemonOnly, UpShape
  <1>8. CASE DialProcess
    <2>1. UNCHANGED <<scene, outbox, up, a, target>>
      BY <1>8 DEF DialProcess, DaemonOnly
    <2>2. PICK m : \/ m.t = "Stream" /\ DialStream(m)
                   \/ /\ d' = [d EXCEPT !.buf = @ \ {m}, !.next = @ + 1]
                      /\ UNCHANGED client
      BY <1>8 DEF DialProcess
    <2>3. CASE DialStream(m)
      <3>. DEFINE r == [d EXCEPT !.lost = Unshown(m),
                          !.tmb = IF m.ns # <<>> /\ client.eof THEN "dying" ELSE @]
                  z == [r EXCEPT !.ended = TRUE]
      <3>1. /\ DOMAIN r = DaemonFields /\ r.go = d.go /\ r.keys = d.keys
            /\ r.handler = d.handler /\ r.act = d.act
        OBVIOUS
      <3>. HIDE DEF r
      <3>2. /\ DOMAIN z = DaemonFields /\ z.go = d.go /\ z.keys = d.keys
            /\ z.handler = d.handler /\ z.act = d.act
        BY <3>1
      <3>. HIDE DEF z
      <3>3. \/ d' = [r EXCEPT !.buf = @ \ {m}, !.next = @ + 1] /\ client' = Shown(m)
            \/ WriterReturns(z, FALSE)
        BY <2>3 DEF DialStream, r, z
      <3>. QED  BY <1>2, <1>4, <1>5, <2>1, <3>1, <3>2, <3>3
    <2>. QED  BY <1>2, <2>1, <2>2, <2>3 DEF UpShape
  <1>9. CASE PwdbProcess
    <2>1. UNCHANGED <<scene, outbox, up, a, target>> /\ PwdbWrite(Head(d.inq))
      BY <1>9 DEF PwdbProcess, DaemonOnly
    <2>. DEFINE y == [d EXCEPT !.ended = TRUE]
                z == [d EXCEPT !.lost = TRUE]
    <2>2. /\ DOMAIN y = DaemonFields /\ y.go = d.go /\ y.keys = d.keys
          /\ y.handler = d.handler /\ y.act = d.act
          /\ DOMAIN z = DaemonFields /\ z.go = d.go /\ z.keys = d.keys
          /\ z.handler = d.handler /\ z.act = d.act
      OBVIOUS
    <2>. HIDE DEF y, z
    <2>3. \/ d' = [d EXCEPT !.inq = Tail(@)] /\ client' = Shown(Head(d.inq))
          \/ WriterReturns(y, TRUE)
          \/ WriterReturns(z, TRUE)
      BY <2>1 DEF PwdbWrite, y, z
    <2>4. CASE d' = [d EXCEPT !.inq = Tail(@)] /\ client' = Shown(Head(d.inq))
      BY <1>2, <1>5, <2>1, <2>4
    <2>5. CASE WriterReturns(y, TRUE)
      BY <1>4, <2>1, <2>2, <2>5
    <2>6. CASE WriterReturns(z, TRUE)
      BY <1>4, <2>1, <2>2, <2>6
    <2>. QED  BY <2>3, <2>4, <2>5, <2>6
  <1>10. CASE RemoteRead
    BY <1>3, <1>10 DEF RemoteRead, AgentOnly, FromTarget, UpShape, TargetShape
  <1>11. CASE RemoteStream
    BY <1>3, <1>11 DEF RemoteStream, AgentOnly, UpShape, TargetShape
  <1>12. CASE RemoteEnd \/ RemoteReadDying
    <2>1. /\ UNCHANGED <<scene, outbox, up, d, client, target>>
          /\ a.go["reader"] \in {"run", "stop"}
          /\ \E failed \in BOOLEAN : a' = CloseDone(Returns(a, "reader", failed))
      BY <1>12 DEF RemoteEnd, RemoteReadDying, AgentOnly
    <2>2. /\ a'.broken = a.broken /\ a'.stopped = a.stopped /\ a'.stdin = a.stdin
          /\ a'.conn = a.conn /\ a'.dying = a.dying /\ a'.go["reader"] = "end"
      BY <2>1 DEF CloseDone, Returns
    <2>. QED  BY <1>3, <2>1, <2>2 DEF UpShape, TargetShape
  <1>13. CASE DbDying
    <2>1. /\ UNCHANGED <<scene, outbox, up, d, client, target>> /\ a.dying /\ a'.dying
          /\ a'.broken = a.broken /\ a'.stopped = a.stopped /\ a'.stdin = a.stdin
          /\ a'.go = a.go
          /\ a'.conn = a.conn \/ (a.conn = "open" /\ a'.conn = "closed")
      BY <1>13 DEF DbDying, AgentDying, AgentOnly, DbKilled
    <2>. QED  BY <1>1, <2>1 DEF QuietUp, UpShape, TargetGone, TargetShape
  <1>. QED  BY <1>6, <1>7, <1>8, <1>9, <1>10, <1>11, <1>12, <1>13

\* The daemon's steps that read or put.
LEMMA UpDbDaemon ==
  ASSUME DaemonShape, OpenerInv, PanicInv, UpInv, Kind \in DbKinds,
         \/ DbStartRefused \/ LocalRead \/ LocalReadDying \/ LocalInput
         \/ DialStart \/ DialStopSent \/ PwdbStart \/ PwdbReceiveMrtap
         \/ PwdbStartFails \/ PwdbCloseSent
  PROVE  UpInv'
  <1>. USE DEF DaemonShape, DaemonFields, Goroutines
  <1>1. Kind # "kubeexec" /\ Kind # "webdial" /\ Kind \notin ShellKinds /\ Kind \in Direct
        /\ Kind \notin {"opaque"} /\ UpShape /\ IsSeq(outbox) /\ IsSeq(up)
    BY DEF DbKinds, ShellKinds, Direct, UpInv, OpenerInv
  <1>2. d.act \in {"none", "connecting"} => d.go["reader"] = "off"
    BY <1>1 DEF PanicInv, Closer
  <1>3. UNCHANGED <<scene, a, target, up>> /\ Kind' = Kind /\ Opener' = Opener
    BY DEF DbStartRefused, LocalRead, LocalReadDying, LocalInput, DialStart, DialStopSent,
       PwdbStart, PwdbReceiveMrtap, PwdbStartFails, PwdbCloseSent, DaemonOnly, Kind, Opener
  <1>4. /\ Pending <=> d.go["reader"] = "put"
        /\ Pending' <=> d'.go["reader"] = "put"
        /\ ReadingOver <=> d.go["reader"] = "end"
    BY <1>1, <1>3, DirectState
  <1>5. DOMAIN client = ClientFields /\ client.sent \in Nat
    BY <1>1 DEF UpShape
  <1>6. ASSUME outbox' = outbox, d'.keys = d.keys, DOMAIN client' = ClientFields,
               client'.eof = client.eof,
               IF d.go["reader"] # "put" /\ d'.go["reader"] = "put"
                 THEN d.go["reader"] # "end" /\ client'.sent = client.sent + 1
                 ELSE /\ client'.sent = client.sent
                      /\ d.go["reader"] \in {"put", "end"} => d'.go["reader"] = d.go["reader"],
               d.act \in {"none", "failed"} /\ d.go["reader"] = "off"
                 => d'.act \in {"none", "failed"} /\ d'.go["reader"] = "off"
        PROVE  UpInv'
    BY <1>1, <1>3, <1>6, DirectReads
  <1>7. ASSUME NEW m, Put(m), m.ns = <<>>, UNCHANGED client, d'.keys = d.keys,
               d.go["reader"] \notin {"put", "end"}, d'.go["reader"] # "put",
               m.t \in {"Close", "Stop", "Last"} => d'.go["reader"] = "end",
               m.t = Opener \/ d.go["reader"] # "off"
        PROVE  UpInv'
    BY <1>1, <1>3, <1>7, DirectPuts
  <1>8. CASE DbStartRefused
    <2>1. d.act = "none" /\ d.go["reader"] = "off"
      BY <1>2, <1>8 DEF DbStartRefused
    <2>. QED  BY <1>5, <1>6, <1>8, <2>1 DEF DbStartRefused, ClientFields
  <1>9. CASE LocalRead
    <2>1. d.go["reader"] = "run" /\ outbox' = outbox
      BY <1>9 DEF LocalRead
    <2>2. \/ client' = [client EXCEPT !.sent = @ + 1] /\ d' = [d EXCEPT !.go["reader"] = "put"]
          \/ client' = client /\ d' = [d EXCEPT !.go["reader"] = "stop"]
      BY <1>9 DEF LocalRead, FromClient
    <2>. QED  BY <1>5, <1>6, <2>1, <2>2 DEF ClientFields
  <1>10. CASE LocalReadDying
    <2>1. /\ d.go["reader"] = "run" /\ UNCHANGED <<outbox, client>>
          /\ d'.go["reader"] = "end" /\ d'.keys = d.keys
      BY <1>10 DEF LocalReadDying, CloseDone, Returns
    <2>. QED  BY <1>5, <1>6, <2>1
  <1>11. CASE LocalInput
    <2>1. /\ d.go["reader"] = "put" /\ UNCHANGED client /\ d'.go["reader"] = "run"
          /\ outbox' = Append(outbox, Act("Input", <<client.sent>>)) /\ d'.keys = d.keys
      BY <1>11 DEF LocalInput, Put
    <2>. QED  BY <1>1, <1>3, <1>4, <2>1, UpPutPending
  <1>12. CASE DialStart
    <2>1. /\ d.go["reader"] = "off" /\ d'.go["reader"] = "run" /\ d'.keys = d.keys
          /\ Put(Act("Start", <<>>)) /\ UNCHANGED client
      BY <1>2, <1>12 DEF DialStart, DbStarts, Go
    <2>2. Act("Start", <<>>).t = Opener
      BY <1>12 DEF DialStart, Opener, Act
    <2>. QED  BY <1>7, <2>1, <2>2 DEF Act
  <1>13. CASE DialStopSent \/ PwdbCloseSent
    <2>1. /\ d.go["reader"] = "stop" /\ Put(Act("Close", <<>>)) /\ UNCHANGED client
          /\ \E failed \in BOOLEAN : d' = CloseDone(Returns(d, "reader", failed))
      BY <1>13 DEF DialStopSent, PwdbCloseSent
    <2>2. d'.go["reader"] = "end" /\ d'.keys = d.keys
      BY <2>1 DEF CloseDone, Returns
    <2>. QED  BY <1>7, <2>1, <2>2 DEF Act
  <1>14. CASE PwdbStart
    <2>1. /\ d.go["reader"] = "off" /\ d'.go["reader"] = "off" /\ d'.keys = d.keys
          /\ Put(Act("Connect", <<>>)) /\ UNCHANGED client
      BY <1>2, <1>14 DEF PwdbStart, DbStarts
    <2>2. Act("Connect", <<>>).t = Opener
      BY <1>14 DEF PwdbStart, Opener, Act
    <2>. QED  BY <1>7, <2>1, <2>2 DEF Act
  <1>15. CASE PwdbReceiveMrtap
    <2>1. UNCHANGED <<outbox, client>>
      BY <1>15 DEF PwdbReceiveMrtap
    <2>2. \/ d' = d
          \/ /\ d.act = "connecting" /\ d.go["reader"] = "off" /\ d'.keys = d.keys
             /\ d'.go["reader"] = "run"
      BY <1>2, <1>15 DEF PwdbReceiveMrtap, Go
    <2>. QED  BY <1>5, <1>6, <2>1, <2>2
  <1>16. CASE PwdbStartFails
    <2>1. /\ d.go["reader"] = "off" /\ d'.go["reader"] = "off" /\ d'.keys = d.keys
          /\ outbox' = outbox /\ d'.act = "failed"
          /\ client' = [client EXCEPT !.shut = TRUE]
      BY <1>2, <1>16 DEF PwdbStartFails
    <2>. QED  BY <1>5, <1>6, <2>1 DEF ClientFields
  <1>. QED  BY <1>8, <1>9, <1>10, <1>11, <1>12, <1>13, <1>14, <1>15, <1>16

-----------------------------------------------------------------------------
(* What the agent does with a message.                                     *)

\* Acking changes none of the fields that matter here, either.
LEMMA AckedKeeps ==
  ASSUME NEW r, DOMAIN r = AgentFields
  PROVE  /\ Acked(r).go = r.go /\ Acked(r).conn = r.conn /\ Acked(r).stdin = r.stdin
         /\ Acked(r).stopped = r.stopped /\ Acked(r).broken = r.broken
         /\ Acked(r).dying = r.dying /\ Acked(r).seq = r.seq /\ DOMAIN Acked(r) = AgentFields
  BY DEF Acked, AgentFields

\* What was complete stays complete.
LEMMA StopStays ==
  ASSUME StopInv, UNCHANGED <<scene, d, client>>, a'.stopped => a.stopped,
         a.stopped => target' = target /\ (Kind = "kubeexec" => a'.stdin = a.stdin),
         a.dying => a'.dying,
         Kind \in Direct /\ a.conn = "closed" => a'.conn = "closed",
         a.go["reader"] # "off" => a'.go["reader"] # "off"
  PROVE  StopInv'
  <1>. SUFFICES ASSUME a'.stopped PROVE StopInv'
    BY DEF StopInv
  <1>1. /\ a.stopped /\ (UpEnds # {} \/ TargetGone \/ a.dying)
        /\ CloseIsEnd /\ Kind \notin ShellKinds
        /\ Kind \in Direct => a.conn = "closed"
        /\ Kind = "webdial" => a.go["reader"] # "off"
        /\ Kind = "kubeexec" =>
             UpEnds # {} /\ (client.eof \/ Len(target.got \o a.stdin) = client.sent)
    BY DEF StopInv
  <1>2. Kind' = Kind /\ TargetGone' = TargetGone /\ UpEnds' = UpEnds
    BY <1>1 DEF Kind, TargetGone, UpEnds, ReadingOver
  <1>3. CloseIsEnd'
    BY <1>1, <1>2 DEF CloseIsEnd
  <1>. QED  BY <1>1, <1>2, <1>3 DEF StopInv

\* The agent takes a message that has no chunk, or whose chunks will not be written.
LEMMA UpTakenNone ==
  ASSUME UpInv, IsSeq(up), UNCHANGED <<scene, outbox, d, client, target>>,
         up # <<>>, up' = Tail(up), a'.stdin = a.stdin, Head(up).t # "Input" \/ UpBlocked',
         UpBlocked => UpBlocked', a.go["reader"] # "off" => a'.go["reader"] # "off",
         ConnInv', StopInv'
  PROVE  UpInv'
  <1>1. Kind' = Kind /\ (Answering => Answering')
    BY DEF Kind, Answering
  <1>2. ASSUME NEW k \in Nat, NEW p \in Nat, NEW q \in Nat,
               Segment(target.got, 0, k), Segment(a.stdin, Base(k), p),
               Carries(Head(up), p, q, "up", UpEnds)
        PROVE  /\ Segment(target'.got, 0, k) /\ Segment(a'.stdin, Base(k), p)
               /\ UpBlocked' \/ p = q
    <2>1. CASE Head(up).t # "Input"
      <3>1. Head(up).ns = <<>> /\ Segment(Head(up).ns, p, q)
        BY <1>2, <2>1 DEF Carries
      <3>. QED  BY <1>2, <3>1, SegmentNone
    <2>. QED  BY <1>2, <2>1
  <1>3. UpChunks'
    BY <1>1, <1>2, ChunksTaken DEF UpInv
  <1>4. UpShape'
    BY <1>1 DEF UpInv, UpShape, TargetShape
  <1>. QED  BY <1>3, <1>4 DEF UpInv

\* The agent writes the chunks of a message to the target.
LEMMA UpTakenDelivered ==
  ASSUME UpInv, IsSeq(up), UNCHANGED <<scene, outbox, d, client>>,
         up # <<>>, up' = Tail(up), Delivered(Head(up).ns), a'.stdin = a.stdin,
         Kind \in Direct \cup ShellKinds, ~UpBlocked, ConnInv', StopInv'
  PROVE  UpInv'
  <1>1. /\ Kind' = Kind /\ ~Answering /\ Kind \notin {"kubeexec", "webdial"} /\ UpShape
    BY DEF Kind, Answering, Direct, ShellKinds, UpInv
  <1>2. target'.got = target.got \o Head(up).ns /\ TargetShape'
    BY <1>1 DEF Delivered, UpShape, TargetShape
  <1>3. a.stdin = <<>>
    BY <1>1 DEF UpShape
  <1>4. ASSUME NEW k \in Nat, NEW p \in Nat, NEW q \in Nat,
               Segment(target.got, 0, k), Segment(a.stdin, Base(k), p),
               Carries(Head(up), p, q, "up", UpEnds)
        PROVE  Segment(target'.got, 0, q) /\ Segment(a'.stdin, Base(q), q)
    <2>1. Segment(Head(up).ns, p, q)
      BY <1>4 DEF Carries
    <2>2. Base(k) = k /\ Base(q) = q
      BY <1>1 DEF Base
    <2>3. p = k
      BY <1>3, <1>4, <2>2, SegmentNone
    <2>. QED  BY <1>2, <1>3, <1>4, <2>1, <2>2, <2>3, SegmentConcat, SegmentNone
  <1>5. UpChunks'
    BY <1>1, <1>4, ChunksTaken DEF UpInv
  <1>6. UpShape'
    BY <1>1, <1>2 DEF UpShape
  <1>. QED  BY <1>5, <1>6 DEF UpInv

\* When the last message comes the agent has all the chunks.
LEMMA LastHasAll ==
  ASSUME UpInv, IsSeq(up), up # <<>>, Final(Head(up), "up"), ~UpBlocked, ~Answering
  PROVE  \E k, p \in Nat : /\ Segment(target.got, 0, k) /\ Segment(a.stdin, Base(k), p)
                           /\ p \in UpEnds
  <1>1. PICK k \in Nat, p \in Nat :
          Segment(target.got, 0, k) /\ Segment(a.stdin, Base(k), p) /\ UpFlow(p)
    BY DEF UpInv, UpChunks
  <1>2. PICK q \in Nat : Run(up, p, q, "up", UpEnds)
    BY <1>1 DEF UpFlow
  <1>3. PICK v \in Nat : Carries(Head(up), p, v, "up", UpEnds)
    BY <1>2, RunTail
  <1>4. Head(up).ns = <<>> /\ Segment(Head(up).ns, p, v) /\ v \in UpEnds
    BY <1>3 DEF Carries, Final
  <1>5. v = p
    BY <1>4, SegmentNone
  <1>. QED  BY <1>1, <1>4, <1>5

\* The last message, where the chunks are written when they come.
LEMMA LastIsAll ==
  ASSUME UpInv, IsSeq(up), UNCHANGED <<scene, d, client, target>>, Kind \in Direct,
         up # <<>>, Final(Head(up), "up"), ~a.broken, a'.conn = "closed",
         a.dying => a'.dying
  PROVE  StopInv'
  <1>1. /\ Kind' = Kind /\ TargetGone' = TargetGone /\ UpEnds' = UpEnds
        /\ ~Answering /\ Kind \notin ShellKinds /\ Kind \notin {"kubeexec", "webdial"}
        /\ Kind \notin {"portforward", "transparent"}
    BY DEF Kind, TargetGone, UpEnds, ReadingOver, Answering, Direct, ShellKinds
  <1>2. CASE UpBlocked /\ ~a.stopped
    <2>1. TargetGone \/ a.dying
      BY <1>1, <1>2 DEF UpInv, ConnInv, UpBlocked
    <2>. QED  BY <1>1, <2>1 DEF StopInv, CloseIsEnd
  <1>3. CASE a.stopped
    <2>1. (UpEnds # {} \/ TargetGone \/ a.dying) /\ CloseIsEnd
      BY <1>3 DEF UpInv, StopInv
    <2>2. Len(target.got) = client.sent \/ TargetGone \/ a.dying
      BY <1>1, <1>3, <2>1 DEF CloseIsEnd
    <2>3. CloseIsEnd'
      BY <1>1, <2>2 DEF CloseIsEnd
    <2>. QED  BY <1>1, <2>1, <2>3 DEF StopInv
  <1>4. CASE ~UpBlocked
    <2>1. PICK k \in Nat, p \in Nat : /\ Segment(target.got, 0, k)
                                      /\ Segment(a.stdin, Base(k), p) /\ p \in UpEnds
      BY <1>1, <1>4, LastHasAll
    <2>2. a.stdin = <<>> /\ Base(k) = k
      BY <1>1 DEF UpInv, UpShape, Base
    <2>3. p = k /\ p = client.sent
      BY <1>1, <2>1, <2>2, SegmentNone DEF UpEnds
    <2>4. Len(target.got) = client.sent
      BY <2>1, <2>3, SegmentFirst
    <2>5. CloseIsEnd'
      BY <2>4 DEF CloseIsEnd
    <2>. QED  BY <1>1, <2>1, <2>5 DEF StopInv
  <1>. QED  BY <1>2, <1>3, <1>4

-----------------------------------------------------------------------------
\* dial and pwdb: the messages that the agent takes.
LEMMA UpDbAgent ==
  ASSUME AgentShape, OpenerInv, UpInv, Kind \in DbKinds,
         \/ DialStartReceived \/ PwdbConnectReceived
         \/ DialInputReceived \/ PwdbInputReceived \/ DbCloseReceived
  PROVE  UpInv'
  <1>. USE DEF AgentShape
  <1>1. Kind # "kubeexec" /\ Kind # "webdial" /\ Kind \notin ShellKinds /\ Kind \in Direct
        /\ Kind # "opaque" /\ UpShape /\ ConnInv /\ StopInv /\ IsSeq(up)
    BY DEF DbKinds, ShellKinds, Direct, UpInv, OpenerInv
  <1>2. /\ UNCHANGED <<scene, outbox, d, client>> /\ up # <<>> /\ up' = Tail(up) /\ ~a.broken
        /\ Head(up) = up[1] /\ 1 \in DOMAIN up
    <2>1. UNCHANGED <<scene, outbox, d, client>> /\ up # <<>> /\ up' = Tail(up) /\ ~a.broken
      BY DEF DialStartReceived, PwdbConnectReceived, DialInputReceived, PwdbInputReceived,
         DbCloseReceived, Receives, AgentOnly
    <2>. QED  BY <1>1, <2>1, TailMoves
  <1>3. Kind' = Kind
    BY <1>2 DEF Kind
  <1>4. Head(up).t # Opener => a.conn \in {"open", "closed"} /\ a.go["reader"] # "off"
    BY <1>1, <1>2 DEF ConnInv, OpenerFirst
  <1>5. Head(up).t = Opener => a.conn = "none" /\ a.go["reader"] = "off"
    <2>1. Head(up).t = Opener => HasOpener(up)
      BY <1>2 DEF HasOpener
    <2>. QED  BY <1>1, <2>1 DEF OpenerInv, ConnInv
  <1>. DEFINE Same(r) == /\ r.stdin = a.stdin /\ r.stopped = a.stopped
                         /\ r.dying = a.dying /\ r.broken = a.broken
  <1>6. CASE DialStartReceived \/ PwdbConnectReceived
    <2>1. /\ Head(up).t = Opener /\ target' = target
          /\ a' = Acked(Opened) \/ a' = [a EXCEPT !.broken = TRUE]
      BY <1>6 DEF DialStartReceived, PwdbConnectReceived, Receives, Failed, Opener
    <2>2. /\ DOMAIN Opened = AgentFields /\ Same(Opened) /\ Opened.conn = "open"
          /\ Opened.go["reader"] = "run"
      BY DEF Opened, Go, AgentFields, Goroutines
    <2>3. CASE a' = Acked(Opened)
      <3>1. Same(a') /\ a'.conn = "open" /\ a'.go["reader"] = "run"
        BY <2>2, <2>3, AckedKeeps
      <3>2. ConnInv'
        BY <1>1, <1>3, <3>1 DEF ConnInv
      <3>3. StopInv'
        BY <1>1, <1>2, <1>5, <2>1, <3>1, StopStays
      <3>4. UpBlocked => UpBlocked'
        BY <1>1, <1>2, <1>3, <1>5, <2>1, <3>1 DEF UpBlocked, TargetGone
      <3>5. Head(up).t # "Input"
        BY <2>1 DEF Opener
      <3>. QED  BY <1>1, <1>2, <2>1, <3>1, <3>2, <3>3, <3>4, <3>5, UpTakenNone
    <2>4. CASE a' = [a EXCEPT !.broken = TRUE]
      <3>1. /\ a'.stdin = a.stdin /\ a'.stopped = a.stopped /\ a'.dying = a.dying
            /\ a'.conn = a.conn /\ a'.go = a.go /\ a'.broken
        BY <2>4 DEF AgentFields
      <3>2. ConnInv'
        BY <1>1, <1>3, <1>5, <2>1, <3>1 DEF ConnInv
      <3>3. StopInv'
        BY <1>1, <1>2, <2>1, <3>1, StopStays
      <3>4. UpBlocked'
        BY <3>1 DEF UpBlocked
      <3>. QED  BY <1>1, <1>2, <2>1, <3>1, <3>2, <3>3, <3>4, UpTakenNone
    <2>. QED  BY <2>1, <2>3, <2>4
  <1>7. CASE DialInputReceived \/ PwdbInputReceived
    <2>1. Head(up).t # Opener
      BY <1>7 DEF DialInputReceived, PwdbInputReceived, Receives, Opener
    <2>2. \/ /\ a.conn = "open" /\ ~TargetGone /\ Delivered(Head(up).ns) /\ a' = Acked(a)
          \/ /\ a.conn # "open" \/ TargetGone
             /\ target' = target
             /\ \/ a' \in {Acked(a), KillByInput(DbKilled(a))}
                \/ a' = [a EXCEPT !.broken = TRUE]
      BY <1>7 DEF DialInputReceived, PwdbInputReceived, Failed
    <2>3. CASE a.conn = "open" /\ ~TargetGone /\ Delivered(Head(up).ns) /\ a' = Acked(a)
      <3>1. Same(a') /\ a'.conn = "open" /\ a'.go = a.go
        BY <2>3, AckedKeeps
      <3>2. ~a.stopped
        BY <1>1, <2>3 DEF StopInv
      <3>3. ConnInv'
        BY <1>1, <1>3, <1>4, <2>1, <3>1 DEF ConnInv
      <3>4. StopInv'
        BY <1>1, <1>2, <2>3, <3>1, <3>2, StopStays
      <3>5. ~UpBlocked
        BY <1>1, <1>2, <2>3 DEF UpBlocked
      <3>. QED  BY <1>1, <1>2, <2>3, <3>1, <3>3, <3>4, <3>5, UpTakenDelivered
    <2>4. ASSUME a.conn # "open" \/ TargetGone, target' = target,
                 a'.stdin = a.stdin, a'.stopped = a.stopped, a'.dying = a.dying,
                 a.conn = "closed" \/ a'.conn = "open" => a'.conn = a.conn,
                 a'.conn \in {"open", "closed"}, a'.go = a.go
          PROVE  UpInv'
      <3>1. /\ UpBlocked' /\ TargetGone' = TargetGone
        BY <1>1, <1>3, <2>4 DEF UpBlocked, TargetGone
      <3>2. a.conn # a'.conn => TargetGone
        BY <1>4, <2>1, <2>4
      <3>3. ConnInv'
        BY <1>1, <1>3, <1>4, <2>1, <2>4, <3>1, <3>2 DEF ConnInv
      <3>4. StopInv'
        BY <1>1, <1>2, <2>4, StopStays
      <3>. QED  BY <1>1, <1>2, <2>4, <3>1, <3>3, <3>4, UpTakenNone
    <2>5. ASSUME \/ a' \in {Acked(a), KillByInput(DbKilled(a))}
                 \/ a' = [a EXCEPT !.broken = TRUE]
          PROVE  /\ a'.stdin = a.stdin /\ a'.stopped = a.stopped /\ a'.dying = a.dying
                 /\ a.conn = "closed" \/ a'.conn = "open" => a'.conn = a.conn
                 /\ a'.conn \in {"open", "closed"} /\ a'.go = a.go
      <3>1. CASE a' = Acked(a)
        BY <1>4, <2>1, <3>1, AckedKeeps
      <3>2. CASE a' = KillByInput(DbKilled(a))
        <4>1. a' = Acked(a) \/ a' = [DbKilled(a) EXCEPT !.input = "kill"]
          BY <3>2 DEF KillByInput
        <4>2. CASE a' = [DbKilled(a) EXCEPT !.input = "kill"]
          BY <1>4, <2>1, <4>2 DEF DbKilled, AgentFields
        <4>. QED  BY <3>1, <4>1, <4>2
      <3>3. CASE a' = [a EXCEPT !.broken = TRUE]
        BY <1>4, <2>1, <3>3 DEF AgentFields
      <3>. QED  BY <2>5, <3>1, <3>2, <3>3
    <2>. QED  BY <2>2, <2>3, <2>4, <2>5
  <1>8. CASE DbCloseReceived
    <2>1. /\ Head(up).t = "Close" /\ target' = target
          /\ a' = KillByInput(DbKilled([a EXCEPT !.stopped = TRUE]))
      BY <1>8 DEF DbCloseReceived, Receives
    <2>2. Head(up).t # Opener
      BY <2>1 DEF Opener
    <2>3. CASE a' = Acked(a)
      <3>1. Same(a') /\ a'.conn = a.conn /\ a'.go = a.go
        BY <2>3, AckedKeeps
      <3>2. ConnInv'
        BY <1>1, <1>3, <1>4, <2>1, <2>2, <3>1 DEF ConnInv, TargetGone
      <3>3. StopInv'
        BY <1>1, <1>2, <2>1, <3>1, StopStays
      <3>4. UpBlocked => UpBlocked'
        BY <1>1, <1>3, <2>1, <3>1 DEF UpBlocked, TargetGone
      <3>. QED  BY <1>1, <1>2, <2>1, <3>1, <3>2, <3>3, <3>4, UpTakenNone
    <2>4. CASE a' = [DbKilled([a EXCEPT !.stopped = TRUE]) EXCEPT !.input = "kill"]
      <3>1. /\ a'.stdin = a.stdin /\ a'.dying = a.dying /\ a'.conn = "closed"
            /\ a'.go = a.go /\ a'.stopped
        BY <1>4, <2>2, <2>4 DEF DbKilled, AgentFields
      <3>2. ConnInv'
        BY <1>1, <1>3, <1>4, <2>2, <3>1 DEF ConnInv
      <3>3. StopInv'
        BY <1>1, <1>2, <2>1, <3>1, LastIsAll DEF Final
      <3>4. UpBlocked'
        BY <1>1, <1>3, <3>1 DEF UpBlocked
      <3>. QED  BY <1>1, <1>2, <2>1, <3>1, <3>2, <3>3, <3>4, UpTakenNone
    <2>. QED  BY <2>1, <2>3, <2>4 DEF KillByInput
  <1>. QED  BY <1>6, <1>7, <1>8

\* Every step of dial and pwdb.
LEMMA UpDb ==
  ASSUME DaemonShape, AgentShape, OpenerInv, PanicInv, UpInv, Kind \in DbKinds, DbNext
  PROVE  UpInv'
  BY UpDbQuiet, UpQuiet, UpDbDaemon, UpDbAgent DEF DbNext, UpInv

-----------------------------------------------------------------------------
\* What the end of the daemon's reader leaves alone,
LEMMA DaemonReaderEnds ==
  ASSUME DaemonShape, NEW failed \in BOOLEAN, d' = Returns(d, "reader", failed)
  PROVE  d'.go["reader"] = "end" /\ d'.keys = d.keys /\ d'.handler = d.handler
  BY DEF DaemonShape, DaemonFields, Goroutines, Returns

\* and that of the agent's.
LEMMA AgentReaderEnds ==
  ASSUME AgentShape, NEW failed \in BOOLEAN, a' = CloseDone(Returns(a, "reader", failed))
  PROVE  /\ a'.broken = a.broken /\ a'.stopped = a.stopped /\ a'.stdin = a.stdin
         /\ a'.conn = a.conn /\ a'.dying = a.dying /\ a'.go["reader"] = "end"
         /\ a'.seq = a.seq /\ a'.dc = a.dc
  BY DEF AgentShape, AgentFields, Goroutines, CloseDone, Returns

-----------------------------------------------------------------------------
(* opaque.                                                                 *)

\* The steps that move no chunk up.
LEMMA UpOpaqueQuiet ==
  ASSUME DaemonShape, AgentShape, UpInv, Kind = "opaque",
         \/ OpaqueReceiveStream \/ OpaqueDone \/ OpaqueKill
         \/ OpaqueRemoteRead \/ OpaqueRemoteSend \/ OpaqueDying
  PROVE  QuietUp
  <1>. USE DEF DaemonShape, AgentShape, DaemonFields, AgentFields, Goroutines
  <1>1. UpShape /\ Kind # "kubeexec" /\ Kind \notin DbKinds /\ a.conn \in {"open", "closed"}
    BY DEF UpInv, DbKinds, ConnInv
  <1>2. CASE OpaqueReceiveStream \/ OpaqueDone \/ OpaqueKill
    <2>1. /\ UNCHANGED <<scene, outbox, up, a, target>>
          /\ d'.go = d.go /\ d'.keys = d.keys /\ d'.handler = d.handler
      BY <1>2 DEF OpaqueReceiveStream, OpaqueDone, OpaqueKill, DaemonOnly, KillTomb, CloseDone
    <2>2. client' = client \/ \E m : client' = Shown(m)
      BY <1>2 DEF OpaqueReceiveStream, OpaqueDone, OpaqueKill
    <2>3. DOMAIN client' = ClientFields /\ client'.sent = client.sent
          /\ client'.eof = client.eof
      BY <1>1, <2>2 DEF Shown, UpShape, ClientFields
    <2>. QED  BY <1>1, <2>1, <2>3 DEF QuietUp, UpShape, TargetShape, TargetGone
  <1>3. CASE OpaqueRemoteRead \/ OpaqueRemoteSend
    <2>1. /\ UNCHANGED <<scene, outbox, up, d, client>>
          /\ target' = target \/ target' = [target EXCEPT !.sent = @ + 1]
          /\ a.go["reader"] \in {"run", "put", "stop"}
          /\ \/ \E v \in {"put", "stop", "run"} : a' = [a EXCEPT !.go["reader"] = v]
             \/ \E failed \in BOOLEAN : a' = CloseDone(Returns(a, "reader", failed))
      BY <1>3 DEF OpaqueRemoteRead, OpaqueRemoteSend, AgentOnly, FromTarget
    <2>2. /\ a'.broken = a.broken /\ a'.stopped = a.stopped /\ a'.stdin = a.stdin
          /\ a'.conn = a.conn /\ a'.dying = a.dying /\ a'.go["reader"] # "off"
      BY <2>1, AgentReaderEnds
    <2>3. TargetShape' /\ target'.got = target.got /\ TargetGone' = TargetGone
      BY <1>1, <2>1 DEF UpShape, TargetShape, TargetGone
    <2>. QED  BY <1>1, <2>1, <2>2, <2>3 DEF QuietUp, UpShape
  <1>4. CASE OpaqueDying
    <2>1. /\ UNCHANGED <<scene, outbox, up, d, client, target>> /\ a.dying /\ a'.dying
          /\ a'.broken = a.broken /\ a'.stopped = a.stopped /\ a'.stdin = a.stdin
          /\ a'.go = a.go /\ a'.conn = "closed"
      BY <1>4 DEF OpaqueDying, AgentDying, AgentOnly, OpaqueKilled
    <2>. QED  BY <1>1, <2>1 DEF QuietUp, UpShape, TargetGone, TargetShape
  <1>. QED  BY <1>2, <1>3, <1>4

\* The daemon's steps that read or put.
LEMMA UpOpaqueDaemon ==
  ASSUME DaemonShape, OpenerInv, PanicInv, UpInv, Kind = "opaque",
         OpaqueStart \/ OpaqueRead \/ OpaqueSend
  PROVE  UpInv'
  <1>. USE DEF DaemonShape, DaemonFields, Goroutines
  <1>1. /\ Kind \in Direct /\ Kind \notin DbKinds /\ Kind # "kubeexec"
        /\ IsSeq(outbox) /\ IsSeq(up) /\ DOMAIN client = ClientFields
    BY DEF Direct, DbKinds, OpenerInv, UpInv, UpShape
  <1>2. UNCHANGED <<scene, a, target, up>>
    BY DEF OpaqueStart, OpaqueRead, OpaqueSend, DaemonOnly
  <1>3. CASE OpaqueStart
    <2>1. d.go["reader"] = "off" /\ Put(Act("Open", <<>>)) /\ UNCHANGED client
      BY <1>3 DEF OpaqueStart, SshStarts, PanicInv, Closer
    <2>2. d'.go["reader"] = "run" /\ d'.keys = d.keys
      BY <1>3 DEF OpaqueStart, SshStarted, Go
    <2>. QED  BY <1>1, <1>2, <2>1, <2>2, DirectPuts DEF Act
  <1>4. CASE OpaqueRead
    <2>1. d.go["reader"] = "run" /\ outbox' = outbox
      BY <1>4 DEF OpaqueRead
    <2>2. \/ client' = [client EXCEPT !.sent = @ + 1] /\ d' = [d EXCEPT !.go["reader"] = "put"]
          \/ client' = client /\ d' = [d EXCEPT !.go["reader"] = "stop"]
          \/ client' = client /\ \E failed \in BOOLEAN : d' = Returns(d, "reader", failed)
      BY <1>4 DEF OpaqueRead, FromClient
    <2>3. /\ d'.keys = d.keys /\ DOMAIN client' = ClientFields /\ client'.eof = client.eof
          /\ IF d'.go["reader"] = "put" THEN client'.sent = client.sent + 1
             ELSE client'.sent = client.sent
      BY <1>1, <2>2, DaemonReaderEnds DEF ClientFields
    <2>. QED  BY <1>1, <1>2, <2>1, <2>3, DirectReads
  <1>5. CASE OpaqueSend
    <2>1. CASE d.go["reader"] = "put"
      <3>1. /\ UNCHANGED client /\ d'.go["reader"] = "run" /\ d'.keys = d.keys
            /\ outbox' = Append(outbox, Act("Input", <<client.sent>>))
        BY <1>5, <2>1 DEF OpaqueSend, Put
      <3>. QED  BY <1>1, <1>2, <2>1, <3>1, DirectState, UpPutPending
    <2>2. CASE d.go["reader"] = "stop"
      <3>1. UNCHANGED client /\ Put(Act("Close", <<>>)) /\ d' = Returns(d, "reader", TRUE)
        BY <1>5, <2>2 DEF OpaqueSend
      <3>2. d'.go["reader"] = "end" /\ d'.keys = d.keys
        BY <3>1 DEF Returns
      <3>. QED  BY <1>1, <1>2, <2>2, <3>1, <3>2, DirectPuts DEF Act
    <2>. QED  BY <1>5, <2>1, <2>2 DEF OpaqueSend
  <1>. QED  BY <1>3, <1>4, <1>5

\* The messages that the agent takes.
LEMMA UpOpaqueAgent ==
  ASSUME AgentShape, OpenerInv, UpInv, Kind = "opaque",
         OpaqueOpenReceived \/ OpaqueInputReceived \/ OpaqueCloseReceived
  PROVE  UpInv'
  <1>. USE DEF AgentShape
  <1>1. /\ Kind \in Direct /\ Kind \notin DbKinds /\ Kind \notin ShellKinds
        /\ UpShape /\ ConnInv /\ StopInv /\ IsSeq(up) /\ a.conn \in {"open", "closed"}
    BY DEF Direct, DbKinds, ShellKinds, OpenerInv, UpInv, ConnInv
  <1>2. UNCHANGED <<scene, outbox, d, client>> /\ up # <<>> /\ up' = Tail(up) /\ ~a.broken
    BY DEF OpaqueOpenReceived, OpaqueInputReceived, OpaqueCloseReceived, Receives, AgentOnly
  <1>3. Kind' = Kind
    BY <1>2 DEF Kind
  <1>4. ASSUME target' = target, Head(up).t # "Input" \/ UpBlocked',
               a'.stdin = a.stdin, a'.stopped = a.stopped, a'.dying = a.dying,
               \/ a'.conn = a.conn
               \/ a'.conn = "closed" /\ TargetGone,
               a.go["reader"] # "off" => a'.go["reader"] # "off"
        PROVE  UpInv'
    <2>1. TargetGone' = TargetGone
      BY <1>4 DEF TargetGone
    <2>2. ConnInv'
      BY <1>1, <1>3, <1>4, <2>1 DEF ConnInv
    <2>3. StopInv'
      BY <1>1, <1>2, <1>4, StopStays
    <2>4. UpBlocked => UpBlocked'
      BY <1>1, <1>2, <1>3, <1>4, <2>1 DEF UpBlocked
    <2>. QED  BY <1>1, <1>2, <1>4, <2>2, <2>3, <2>4, UpTakenNone
  <1>5. CASE OpaqueOpenReceived
    <2>1. /\ Head(up).t = "Open" /\ target' = target
          /\ \/ \E k \in 0..HostKeyFiles : a' = Acked(Go([a EXCEPT !.seq = k], {"reader"}))
             \/ a' = [a EXCEPT !.broken = TRUE]
      BY <1>5 DEF OpaqueOpenReceived, Receives, Failed
    <2>2. /\ a'.stdin = a.stdin /\ a'.stopped = a.stopped /\ a'.dying = a.dying
          /\ a'.conn = a.conn /\ (a.go["reader"] # "off" => a'.go["reader"] # "off")
      <3>. DEFINE r(k) == Go([a EXCEPT !.seq = k], {"reader"})
      <3>1. \A k :
              /\ DOMAIN r(k) = AgentFields /\ r(k).stdin = a.stdin
              /\ r(k).stopped = a.stopped
              /\ r(k).dying = a.dying /\ r(k).conn = a.conn /\ r(k).go["reader"] = "run"
        BY DEF Go, AgentFields, Goroutines
      <3>. HIDE DEF r
      <3>2. CASE \E k \in 0..HostKeyFiles : a' = Acked(r(k))
        BY <3>1, <3>2, AckedKeeps
      <3>3. CASE a' = [a EXCEPT !.broken = TRUE]
        BY <3>3 DEF AgentFields
      <3>. QED  BY <2>1, <3>2, <3>3 DEF r
    <2>. QED  BY <1>4, <2>1, <2>2
  <1>6. CASE OpaqueInputReceived
    <2>1. \/ a.conn = "open" /\ ~TargetGone /\ Delivered(Head(up).ns) /\ a' = Acked(a)
          \/ /\ a.conn # "open" \/ TargetGone
             /\ target' = target
             /\ a' = Acked(a) \/ a' = [OpaqueKilled(a) EXCEPT !.input = "kill"]
      BY <1>6 DEF OpaqueInputReceived
    <2>2. CASE a.conn = "open" /\ ~TargetGone /\ Delivered(Head(up).ns) /\ a' = Acked(a)
      <3>1. /\ a'.stdin = a.stdin /\ a'.stopped = a.stopped /\ a'.dying = a.dying
            /\ a'.conn = "open" /\ a'.go = a.go
        BY <2>2, AckedKeeps
      <3>2. ~a.stopped
        BY <1>1, <2>2 DEF StopInv
      <3>3. ConnInv'
        BY <1>1, <1>3, <3>1 DEF ConnInv
      <3>4. StopInv'
        BY <1>1, <1>2, <2>2, <3>1, <3>2, StopStays
      <3>5. ~UpBlocked
        BY <1>1, <1>2, <2>2 DEF UpBlocked
      <3>. QED  BY <1>1, <1>2, <2>2, <3>1, <3>3, <3>4, <3>5, UpTakenDelivered
    <2>3. CASE /\ a.conn # "open" \/ TargetGone
               /\ target' = target
               /\ a' = Acked(a) \/ a' = [OpaqueKilled(a) EXCEPT !.input = "kill"]
      <3>1. /\ a'.stdin = a.stdin /\ a'.stopped = a.stopped /\ a'.dying = a.dying
            /\ a'.conn = a.conn \/ a'.conn = "closed"
            /\ a'.go = a.go
        <4>1. CASE a' = Acked(a)
          BY <4>1, AckedKeeps
        <4>2. CASE a' = [OpaqueKilled(a) EXCEPT !.input = "kill"]
          BY <4>2 DEF OpaqueKilled, AgentFields
        <4>. QED  BY <2>3, <4>1, <4>2
      <3>2. a'.conn = a.conn \/ (a'.conn = "closed" /\ TargetGone)
        BY <1>1, <2>3, <3>1
      <3>3. UpBlocked'
        BY <1>1, <1>3, <2>3, <3>1 DEF UpBlocked, TargetGone
      <3>. QED  BY <1>4, <2>3, <3>1, <3>2, <3>3
    <2>. QED  BY <2>1, <2>2, <2>3
  <1>7. CASE OpaqueCloseReceived
    <2>1. /\ Head(up).t = "Close" /\ target' = target
          /\ a' = [OpaqueKilled(a) EXCEPT !.input = "kill", !.stopped = TRUE]
      BY <1>7 DEF OpaqueCloseReceived, Receives
    <2>2. /\ a'.stdin = a.stdin /\ a'.dying = a.dying /\ a'.conn = "closed"
          /\ a'.go = a.go /\ a'.stopped
      BY <2>1 DEF OpaqueKilled, AgentFields
    <2>3. ConnInv'
      BY <1>1, <1>3, <2>2 DEF ConnInv
    <2>4. StopInv'
      BY <1>1, <1>2, <2>1, <2>2, LastIsAll DEF Final
    <2>5. UpBlocked'
      BY <1>1, <1>3, <2>2 DEF UpBlocked
    <2>. QED  BY <1>1, <1>2, <2>1, <2>2, <2>3, <2>4, <2>5, UpTakenNone
  <1>. QED  BY <1>5, <1>6, <1>7

\* Every step of opaque.
LEMMA UpOpaque ==
  ASSUME DaemonShape, AgentShape, OpenerInv, PanicInv, UpInv, OpaqueSteps
  PROVE  UpInv'
  <1>1. Kind = "opaque"
    BY DEF OpaqueSteps, OpaqueStart, OpaqueRead, OpaqueSend, OpaqueReceiveStream, OpaqueDone,
       OpaqueKill, OpaqueOpenReceived, OpaqueInputReceived, OpaqueCloseReceived,
       OpaqueRemoteRead, OpaqueRemoteSend, OpaqueDying
  <1>. QED
    BY <1>1, UpOpaqueQuiet, UpQuiet, UpOpaqueDaemon, UpOpaqueAgent DEF OpaqueSteps

-----------------------------------------------------------------------------
(* shell and attach.                                                       *)

\* The steps that move no chunk up.
LEMMA UpShellQuiet ==
  ASSUME DaemonShape, AgentShape, UpInv, Kind \in ShellKinds,
         \/ ShellDone \/ ShellReceive \/ ShellKill \/ ShellPumpRead \/ ShellPumpSend
         \/ ShellPumpEnds \/ ShellDying \/ ShellKilled
  PROVE  QuietUp
  <1>. USE DEF DaemonShape, AgentShape, DaemonFields, AgentFields, Goroutines
  <1>1. UpShape /\ Kind # "kubeexec" /\ Kind \notin DbKinds /\ Kind \notin Direct
    BY DEF UpInv, DbKinds, ShellKinds, Direct
  <1>2. CASE ShellDone \/ ShellReceive \/ ShellKill
    <2>1. /\ UNCHANGED <<scene, outbox, up, a, target>>
          /\ d'.go = d.go /\ d'.keys = d.keys /\ d'.handler = d.handler
      BY <1>2 DEF ShellDone, ShellReceive, ShellKill, DaemonOnly, KillTomb, CloseDone
    <2>2. client' = client \/ \E m : client' = Shown(m)
      BY <1>2 DEF ShellDone, ShellReceive, ShellKill
    <2>3. DOMAIN client' = ClientFields /\ client'.sent = client.sent
          /\ client'.eof = client.eof
      BY <1>1, <2>2 DEF Shown, UpShape, ClientFields
    <2>. QED  BY <1>1, <2>1, <2>3 DEF QuietUp, UpShape, TargetShape, TargetGone
  <1>3. CASE ShellPumpRead \/ ShellPumpSend \/ ShellPumpEnds
    <2>1. /\ UNCHANGED <<scene, outbox, up, d, client>>
          /\ target' = target \/ target' = [target EXCEPT !.sent = @ + 1]
          /\ a.go["reader"] \in {"run", "put"}
      BY <1>3 DEF ShellPumpRead, ShellPumpSend, ShellPumpEnds, AgentOnly, FromTarget
    <2>2. /\ a'.broken = a.broken /\ a'.stopped = a.stopped /\ a'.stdin = a.stdin
          /\ a'.dying = a.dying /\ a'.go["reader"] # "off"
      <3>1. CASE ShellPumpRead
        BY <3>1 DEF ShellPumpRead
      <3>2. CASE ShellPumpSend
        BY <3>2 DEF ShellPumpSend
      <3>3. CASE ShellPumpEnds
        <4>. DEFINE r == [a EXCEPT !.go["reader"] = "end", !.conn = "closed"]
        <4>1. /\ r.broken = a.broken /\ r.stopped = a.stopped /\ r.stdin = a.stdin
              /\ r.dying = a.dying /\ r.go["reader"] = "end" /\ DOMAIN r = AgentFields
          OBVIOUS
        <4>2. a' = CloseDone(r)
          BY <3>3 DEF ShellPumpEnds, PumpReturns
        <4>. HIDE DEF r
        <4>. QED  BY <4>1, <4>2 DEF CloseDone
      <3>. QED  BY <1>3, <3>1, <3>2, <3>3
    <2>3. TargetShape' /\ target'.got = target.got /\ TargetGone' = TargetGone
      BY <1>1, <2>1 DEF UpShape, TargetShape, TargetGone
    <2>. QED  BY <1>1, <2>1, <2>2, <2>3 DEF QuietUp, UpShape
  <1>4. CASE ShellDying \/ ShellKilled
    <2>1. /\ UNCHANGED <<scene, outbox, up, d, client, target>> /\ a'.dying = a.dying
          /\ a'.broken = a.broken /\ a'.stopped = a.stopped /\ a'.stdin = a.stdin
          /\ a'.go = a.go
      BY <1>4 DEF ShellDying, ShellKilled, AgentDying, AgentOnly
    <2>. QED  BY <1>1, <2>1 DEF QuietUp, UpShape, TargetGone, TargetShape
  <1>. QED  BY <1>2, <1>3, <1>4

\* The daemon's steps that read keys or put messages.
LEMMA UpShellDaemon ==
  ASSUME DaemonShape, OpenerInv, PanicInv, UpInv, Kind \in ShellKinds,
         ShellStart \/ ShellResize \/ ShellKey \/ ShellInput
  PROVE  UpInv'
  <1>. USE DEF DaemonShape, DaemonFields, Goroutines
  <1>1. /\ Kind \notin Direct /\ Kind \notin DbKinds /\ Kind \notin {"kubeexec", "webdial"}
        /\ IsSeq(outbox) /\ IsSeq(up) /\ DOMAIN client = ClientFields /\ client.sent \in Nat
    BY DEF Direct, DbKinds, ShellKinds, OpenerInv, UpInv, UpShape
  <1>2. UNCHANGED <<scene, a, target, up>> /\ Kind' = Kind
    BY DEF ShellStart, ShellResize, ShellKey, ShellInput, DaemonOnly, Kind
  <1>3. ~Pending /\ ~Pending' /\ ~ReadingOver /\ ~ReadingOver' /\ UpEnds = {} /\ UpEnds' = {}
    BY <1>1, <1>2 DEF Pending, ReadingOver, UpEnds
  <1>4. \A s : /\ SentUpTo(s) <=> s = client.sent \/ d.go["reader"] = "end"
               /\ SentUpTo(s)' <=> s = client'.sent \/ d'.go["reader"] = "end"
    BY <1>2, <1>3 DEF SentUpTo
  <1>5. CASE ShellStart
    <2>1. d.go["reader"] = "off" /\ UNCHANGED client
      BY <1>1, <1>5 DEF ShellStart, PanicInv, Closer
    <2>2. \E t \in {"Open", "Replay"} : outbox' = Append(outbox, Act(t, <<>>))
      BY <1>5 DEF ShellStart, Put
    <2>3. d'.keys = d.keys
      BY <1>5 DEF ShellStart, Go
    <2>4. \A t \in {"Open", "Replay"} : /\ Act(t, <<>>).ns = <<>>
                                        /\ ~Final(Act(t, <<>>), "up")
      BY DEF Act, Final
    <2>. QED  BY <1>1, <1>2, <1>3, <2>1, <2>2, <2>3, <2>4, UpPutEmpty
  <1>6. CASE ShellResize
    <2>1. /\ UNCHANGED client /\ outbox' = Append(outbox, Act("Resize", <<>>))
          /\ d'.keys = d.keys /\ d'.go = d.go
      BY <1>6 DEF ShellResize, Put
    <2>2. Act("Resize", <<>>).ns = <<>> /\ ~Final(Act("Resize", <<>>), "up")
      BY DEF Act, Final
    <2>. QED  BY <1>1, <1>2, <1>3, <2>1, <2>2, UpPutEmpty
  <1>7. CASE ShellKey
    <2>1. outbox' = outbox /\ d.go["reader"] = "run"
      BY <1>7 DEF ShellKey
    <2>2. CASE /\ client' = [client EXCEPT !.sent = @ + 1]
               /\ d' = [d EXCEPT !.keys = Append(@, client.sent + 1)]
      <3>1. /\ DOMAIN client' = ClientFields /\ client'.sent = client.sent + 1
            /\ client'.eof = client.eof /\ d'.keys = Append(d.keys, client.sent + 1)
        BY <1>1, <2>2 DEF ClientFields
      <3>2. ASSUME NEW r \in Nat, NEW s \in Nat, Segment(d.keys, r, s), SentUpTo(s)
            PROVE  Segment(d'.keys, r, s + 1) /\ SentUpTo(s + 1)' /\ s + 1 \in Nat
        <4>1. s = client.sent
          BY <1>4, <2>1, <3>2
        <4>2. d.keys \in Seq(Nat)
          BY <3>2, SegmentLen
        <4>3. Append(d.keys, s + 1) = d.keys \o <<s + 1>>
          BY <4>2
        <4>4. Segment(d.keys \o <<s + 1>>, r, s + 1) /\ s + 1 \in Nat
          BY <3>2, SegmentOne, SegmentConcat
        <4>5. d'.keys = d.keys \o <<s + 1>>
          BY <3>1, <4>1, <4>3
        <4>6. SentUpTo(s + 1)'
          BY <1>1, <1>2, <1>3, <3>1, <4>1 DEF SentUpTo
        <4>. QED  BY <4>4, <4>5, <4>6
      <3>3. UpBlocked => UpBlocked'
        BY <1>2 DEF UpBlocked, TargetGone
      <3>4. UpChunks'
        BY <1>1, <1>2, <1>3, <2>1, <3>2, <3>3, ChunksQuiet DEF UpInv, Answering
      <3>. QED  BY <1>1, <1>2, <1>3, <3>1, <3>4, UpDaemon
    <2>3. CASE \E failed \in BOOLEAN : /\ d' = Returns(d, "reader", failed)
                                       /\ client' \in {client, [client EXCEPT !.sent = @ + 1]}
      <3>1. d'.go["reader"] = "end" /\ d'.keys = d.keys
        BY <2>3, DaemonReaderEnds
      <3>2. /\ DOMAIN client' = ClientFields /\ client'.sent \in Nat
            /\ client'.eof = client.eof
        BY <1>1, <2>3 DEF ClientFields
      <3>. QED  BY <1>1, <1>2, <1>3, <1>4, <2>1, <3>1, <3>2, UpRead
    <2>. QED  BY <1>7, <2>2, <2>3 DEF ShellKey, FromClient
  <1>8. CASE ShellInput
    <2>1. /\ UNCHANGED client /\ outbox' = Append(outbox, Act("Input", d.keys))
          /\ d'.keys = <<>> /\ d'.go = d.go
      BY <1>8 DEF ShellInput, Put
    <2>. DEFINE m == Act("Input", d.keys)
    <2>2. m.ns = d.keys /\ m.t = "Input" /\ ~Final(m, "up")
      BY DEF Act, Final
    <2>. HIDE DEF m
    <2>3. ASSUME NEW r \in Nat, NEW s \in Nat, Segment(d.keys, r, s), SentUpTo(s)
          PROVE  /\ Carries(m, r, s, "up", UpEnds') /\ Segment(d'.keys, s, s)
                 /\ SentUpTo(s)'
      BY <1>4, <2>1, <2>2, <2>3, SegmentNone DEF Carries
    <2>4. outbox' = Append(outbox, m)
      BY <2>1 DEF m
    <2>5. UpChunks'
      BY <1>1, <1>2, <1>3, <2>3, <2>4, ChunksPut DEF UpInv
    <2>. QED  BY <1>1, <1>2, <1>3, <2>1, <2>5, UpDaemon
  <1>. QED  BY <1>5, <1>6, <1>7, <1>8

\* The messages that the agent takes.
LEMMA UpShellAgent ==
  ASSUME AgentShape, OpenerInv, UpInv, Kind \in ShellKinds,
         \/ ShellOpenReceived \/ ShellInputReceived \/ ShellResizeReceived
         \/ ShellReplayReceived
  PROVE  UpInv'
  <1>. USE DEF AgentShape
  <1>1. /\ Kind \notin Direct /\ Kind \notin DbKinds /\ Kind # "opaque" /\ IsSeq(up)
        /\ ~a.stopped
    BY DEF Direct, DbKinds, ShellKinds, OpenerInv, UpInv, StopInv
  <1>2. UNCHANGED <<scene, outbox, d, client>> /\ up # <<>> /\ up' = Tail(up) /\ ~a.broken
    BY DEF ShellOpenReceived, ShellInputReceived, ShellResizeReceived, ShellReplayReceived,
       Receives, AgentOnly
  <1>3. Kind' = Kind /\ ConnInv'
    BY <1>1, <1>2 DEF Kind, ConnInv
  <1>. DEFINE r == [a EXCEPT !.conn = "open", !.go["reader"] = "run"]
  <1>4. ASSUME \/ a' = Acked(a) \/ a' = Acked(r)
               \/ a' = [a EXCEPT !.broken = TRUE]
        PROVE  /\ a'.stdin = a.stdin /\ ~a'.stopped
               /\ a.go["reader"] # "off" => a'.go["reader"] # "off"
               /\ a'.broken <=> a' = [a EXCEPT !.broken = TRUE]
    <2>1. CASE a' = Acked(a)
      BY <1>1, <1>2, <2>1, AckedKeeps DEF AgentFields
    <2>2. CASE a' = Acked(r)
      <3>1. /\ DOMAIN r = AgentFields /\ r.stdin = a.stdin /\ ~r.stopped /\ ~r.broken
            /\ r.go["reader"] = "run"
        BY <1>1, <1>2 DEF AgentFields, Goroutines
      <3>. HIDE DEF r
      <3>. QED  BY <2>2, <3>1, AckedKeeps DEF AgentFields
    <2>3. CASE a' = [a EXCEPT !.broken = TRUE]
      BY <1>1, <2>3 DEF AgentFields
    <2>. QED  BY <1>4, <2>1, <2>2, <2>3
  <1>. HIDE DEF r
  <1>5. ASSUME target' = target, Head(up).t # "Input" \/ TargetGone \/ a'.broken,
               \/ a' = Acked(a) \/ a' = Acked(r)
               \/ a' = [a EXCEPT !.broken = TRUE]
        PROVE  UpInv'
    <2>1. StopInv'
      BY <1>4, <1>5 DEF StopInv
    <2>2. UpBlocked => UpBlocked'
      <3>1. UpBlocked => Kind \in ShellKinds /\ TargetGone
        BY <1>1, <1>2 DEF UpBlocked, ShellKinds
      <3>. QED  BY <1>3, <1>5, <3>1 DEF UpBlocked, TargetGone
    <2>3. Head(up).t # "Input" \/ UpBlocked'
      BY <1>3, <1>5 DEF UpBlocked, TargetGone
    <2>. QED  BY <1>1, <1>2, <1>3, <1>4, <1>5, <2>1, <2>2, <2>3, UpTakenNone
  <1>6. CASE ShellOpenReceived \/ ShellResizeReceived \/ ShellReplayReceived
    <2>1. /\ target' = target /\ Head(up).t # "Input"
          /\ \/ a' = Acked(a) \/ a' = Acked(r)
             \/ a' = [a EXCEPT !.broken = TRUE]
      BY <1>6 DEF ShellOpenReceived, ShellResizeReceived, ShellReplayReceived, Receives,
         Failed, r
    <2>. QED  BY <1>5, <2>1
  <1>7. CASE ShellInputReceived
    <2>1. CASE ~TargetGone /\ Delivered(Head(up).ns) /\ a' = Acked(a)
      <3>1. a'.stdin = a.stdin /\ ~a'.stopped
        BY <1>4, <2>1
      <3>2. StopInv'
        BY <3>1 DEF StopInv
      <3>3. ~UpBlocked
        BY <1>1, <1>2, <2>1 DEF UpBlocked, ShellKinds
      <3>. QED  BY <1>1, <1>2, <1>3, <2>1, <3>1, <3>2, <3>3, UpTakenDelivered
    <2>2. CASE target' = target /\ TargetGone /\ a' = Acked(a)
      BY <1>5, <2>2
    <2>3. CASE target' = target /\ a' = [a EXCEPT !.broken = TRUE]
      BY <1>4, <1>5, <2>3
    <2>. QED  BY <1>7, <2>1, <2>2, <2>3 DEF ShellInputReceived, Failed
  <1>. QED  BY <1>6, <1>7

\* Every step of shell and attach.
LEMMA UpShell ==
  ASSUME DaemonShape, AgentShape, OpenerInv, PanicInv, UpInv, ShellNext
  PROVE  UpInv'
  <1>1. Kind \in ShellKinds
    BY DEF ShellNext, ShellStart, ShellResize, ShellKey, ShellInput, ShellDone, ShellReceive,
       ShellKill, ShellOpenReceived, ShellInputReceived, ShellResizeReceived,
       ShellReplayReceived, ShellPumpRead, ShellPumpSend, ShellPumpEnds, ShellDying,
       ShellKilled
  <1>. QED
    BY <1>1, UpShellQuiet, UpQuiet, UpShellDaemon, UpShellAgent DEF ShellNext

-----------------------------------------------------------------------------
(* webdial.                                                                *)

\* The steps that move no chunk up.
LEMMA UpWebQuiet ==
  ASSUME DaemonShape, AgentShape, UpInv, Kind = "webdial",
         \/ WebStartRefused \/ WebDialTake \/ WebDialReads \/ WebDialResponse
         \/ WebAgentDying
  PROVE  QuietUp
  <1>. USE DEF DaemonShape, AgentShape, DaemonFields, AgentFields, Goroutines
  <1>1. UpShape /\ Kind # "kubeexec" /\ Kind \notin DbKinds /\ Kind \notin Direct
    BY DEF UpInv, DbKinds, Direct
  <1>2. CASE WebStartRefused \/ WebDialTake
    <2>1. /\ UNCHANGED <<scene, outbox, up, a, target>>
          /\ d'.go = d.go /\ d'.keys = d.keys /\ d'.handler = d.handler
      BY <1>2 DEF WebStartRefused, WebDialTake, DaemonOnly
    <2>2. client' = client \/ client' = [client EXCEPT !.shut = TRUE]
      BY <1>2 DEF WebStartRefused, WebDialTake
    <2>3. DOMAIN client' = ClientFields /\ client'.sent = client.sent
          /\ client'.eof = client.eof
      BY <1>1, <2>2 DEF UpShape, ClientFields
    <2>. QED  BY <1>1, <2>1, <2>3 DEF QuietUp, UpShape, TargetShape, TargetGone
  <1>3. CASE WebDialReads \/ WebDialResponse
    <2>1. /\ UNCHANGED <<scene, outbox, up, d, client>>
          /\ target' = target \/ target' = [target EXCEPT !.sent = @ + 1]
          /\ a.go["reader"] \in {"run", "read"}
      BY <1>3 DEF WebDialReads, WebDialResponse, AgentOnly, FromTarget
    <2>. DEFINE r == CloseDone(Returns(a, "reader", FALSE))
    <2>2. /\ r.broken = a.broken /\ r.stopped = a.stopped /\ r.stdin = a.stdin
          /\ r.dying = a.dying /\ r.go["reader"] = "end" /\ DOMAIN r = AgentFields
      BY DEF CloseDone, Returns
    <2>3. \/ a' = r \/ a' = [r EXCEPT !.seq = @ + 1]
          \/ a' = [a EXCEPT !.go["reader"] = "read"]
          \/ a' = [[a EXCEPT !.go["reader"] = "run"] EXCEPT !.seq = @ + 1]
          \/ a' = [a EXCEPT !.go["reader"] = "run", !.seq = @ + 1]
      BY <1>3 DEF WebDialReads, WebDialResponse
    <2>. HIDE DEF r
    <2>4. /\ a'.broken = a.broken /\ a'.stopped = a.stopped /\ a'.stdin = a.stdin
          /\ a'.dying = a.dying /\ a'.go["reader"] # "off"
      <3>1. CASE a' = r \/ a' = [r EXCEPT !.seq = @ + 1]
        BY <2>2, <3>1
      <3>2. CASE a' = [a EXCEPT !.go["reader"] = "read"]
        BY <3>2
      <3>3. CASE a' = [[a EXCEPT !.go["reader"] = "run"] EXCEPT !.seq = @ + 1]
        BY <3>3
      <3>4. CASE a' = [a EXCEPT !.go["reader"] = "run", !.seq = @ + 1]
        BY <3>4
      <3>. QED  BY <2>3, <3>1, <3>2, <3>3, <3>4
    <2>5. TargetShape' /\ target'.got = target.got /\ TargetGone' = TargetGone
      BY <1>1, <2>1 DEF UpShape, TargetShape, TargetGone
    <2>. QED  BY <1>1, <2>1, <2>4, <2>5 DEF QuietUp, UpShape
  <1>4. CASE WebAgentDying
    <2>1. /\ UNCHANGED <<scene, outbox, up, d, client, target>> /\ a'.dying = a.dying
          /\ a'.broken = a.broken /\ a'.stopped = a.stopped /\ a'.stdin = a.stdin
          /\ a'.go = a.go
      BY <1>4 DEF WebAgentDying, AgentDying, AgentOnly, KillTomb
    <2>. QED  BY <1>1, <2>1 DEF QuietUp, UpShape, TargetGone, TargetShape
  <1>. QED  BY <1>2, <1>3, <1>4

\* The daemon's steps that read the body, put messages or return.
LEMMA UpWebDaemon ==
  ASSUME DaemonShape, OpenerInv, PanicInv, UpInv, Kind = "webdial",
         \/ WebDialStart \/ WebDialBody \/ WebDialCancelled \/ WebDialDying
         \/ WebDialProcess
  PROVE  UpInv'
  <1>. USE DEF DaemonShape, DaemonFields, Goroutines
  <1>1. /\ Kind \notin Direct /\ Kind \notin DbKinds /\ Kind \notin ShellKinds
        /\ Kind # "kubeexec" /\ d.keys = <<>>
        /\ IsSeq(outbox) /\ IsSeq(up) /\ DOMAIN client = ClientFields /\ client.sent \in Nat
    BY DEF Direct, DbKinds, ShellKinds, OpenerInv, UpInv, UpShape
  <1>2. UNCHANGED <<scene, a, target, up>> /\ Kind' = Kind
    BY DEF WebDialStart, WebDialBody, WebDialCancelled, WebDialDying, WebDialProcess,
       DaemonOnly, Kind
  <1>3. /\ ~Pending /\ ~Pending'
        /\ ReadingOver <=> d.handler \in {"run", "end"}
        /\ ReadingOver' <=> d'.handler \in {"run", "end"}
    BY <1>1, <1>2 DEF Pending, ReadingOver
  <1>4. \A s : /\ SentUpTo(s) <=> s = client.sent
               /\ SentUpTo(s)' <=> s = client'.sent
    BY <1>1, <1>2, <1>3 DEF SentUpTo
  <1>5. CASE WebDialStart
    <2>1. /\ UNCHANGED client /\ outbox' = Append(outbox, Act("Start", <<>>))
          /\ d'.keys = d.keys /\ d'.go = d.go /\ d.handler = "off"
      BY <1>5 DEF WebDialStart, WebStarts, Put, PanicInv
    <2>2. Act("Start", <<>>).ns = <<>> /\ ~Final(Act("Start", <<>>), "up")
      BY DEF Act, Final
    <2>. QED  BY <1>1, <1>2, <1>3, <2>1, <2>2, UpPutEmpty
  <1>6. CASE /\ d' = [d EXCEPT !.handler = "run"]
             /\ \E t \in {"Last", "Interrupt"} : outbox' = Append(outbox, Act(t, <<>>))
             /\ UNCHANGED client
    <2>1. d'.keys = d.keys /\ d'.go = d.go /\ d'.handler = "run"
      BY <1>6
    <2>2. \A t : Act(t, <<>>).ns = <<>>
      BY DEF Act
    <2>. QED  BY <1>1, <1>2, <1>3, <1>6, <2>1, <2>2, UpPutEmpty
  <1>7. CASE FromClient /\ Put(Act("Input", <<client.sent + 1>>)) /\ UNCHANGED d
             /\ d.handler = "body"
    <2>1. /\ DOMAIN client' = ClientFields /\ client'.sent = client.sent + 1
          /\ client'.eof = client.eof /\ client'.sent \in Nat
      BY <1>1, <1>7 DEF FromClient, ClientFields
    <2>. DEFINE m == Act("Input", <<client.sent + 1>>)
    <2>2. m.ns = <<client.sent + 1>> /\ m.t = "Input" /\ ~Final(m, "up")
      BY DEF Act, Final
    <2>3. outbox' = Append(outbox, m)
      BY <1>7 DEF Put
    <2>. HIDE DEF m
    <2>4. UpEnds = {} /\ UpEnds' = {}
      BY <1>1, <1>2, <1>3, <1>7 DEF UpEnds
    <2>5. ASSUME NEW r \in Nat, NEW s \in Nat, Segment(d.keys, r, s), SentUpTo(s)
          PROVE  /\ Carries(m, r, r + 1, "up", UpEnds') /\ Segment(d'.keys, r + 1, r + 1)
                 /\ SentUpTo(r + 1)' /\ r + 1 \in Nat
      <3>1. r = s /\ s = client.sent /\ r + 1 \in Nat
        BY <1>1, <1>4, <2>5, SegmentNone
      <3>2. Segment(m.ns, r, r + 1)
        BY <2>2, <3>1, SegmentOne
      <3>3. Segment(d'.keys, r + 1, r + 1)
        BY <1>1, <1>7, <3>1, SegmentNone
      <3>4. SentUpTo(r + 1)'
        BY <1>2, <1>3, <2>1, <3>1 DEF SentUpTo
      <3>. QED  BY <2>2, <3>1, <3>2, <3>3, <3>4 DEF Carries
    <2>6. UpChunks'
      BY <1>1, <1>2, <2>3, <2>4, <2>5, ChunksPut DEF UpInv
    <2>. QED  BY <1>1, <1>2, <1>7, <2>1, <2>4, <2>6, UpDaemon
  <1>8. CASE WebDialBody
    <2>1. d.handler = "body"
      BY <1>8 DEF WebDialBody
    <2>. QED  BY <1>6, <1>7, <1>8, <2>1 DEF WebDialBody, Put
  <1>9. CASE WebDialCancelled
    <2>1. /\ d'.keys = d.keys /\ d'.go = d.go /\ d'.handler = "end"
          /\ outbox' = Append(outbox, Act("Interrupt", <<>>))
      BY <1>9 DEF WebDialCancelled, HandlerReturns, Put
    <2>2. /\ DOMAIN client' = ClientFields /\ client'.sent = client.sent
          /\ client'.eof = client.eof
      BY <1>1, <1>9 DEF WebDialCancelled, HandlerReturns, ClientFields
    <2>3. Act("Interrupt", <<>>).ns = <<>> /\ ~Final(Act("Interrupt", <<>>), "up")
      BY DEF Act, Final
    <2>. QED  BY <1>1, <1>2, <1>3, <2>1, <2>2, <2>3, UpPutEmpty
  <1>10. CASE WebDialDying \/ WebDialProcess
    <2>1. /\ d'.keys = d.keys /\ d'.go = d.go /\ d'.handler \in {"run", "end"}
          /\ outbox' = outbox
      BY <1>10 DEF WebDialDying, WebDialProcess, HandlerReturns
    <2>2. \E m : \/ client' = [client EXCEPT !.shut = TRUE]
                 \/ client' = Shown(m) \/ client' = [Shown(m) EXCEPT !.shut = TRUE]
      BY <1>10 DEF WebDialDying, WebDialProcess, HandlerReturns
    <2>3. /\ DOMAIN client' = ClientFields /\ client'.sent = client.sent
          /\ client'.eof = client.eof
      BY <1>1, <2>2 DEF Shown, ClientFields
    <2>. QED  BY <1>1, <1>2, <1>3, <1>4, <2>1, <2>3, UpRead
  <1>. QED  BY <1>5, <1>8, <1>9, <1>10

\* The messages that the agent takes.
LEMMA UpWebAgent ==
  ASSUME AgentShape, OpenerInv, UpInv, Kind = "webdial",
         \/ WebDialStartReceived \/ WebDialInputReceived \/ WebDialLastReceived
         \/ WebDialInterruptReceived
  PROVE  UpInv'
  <1>. USE DEF AgentShape
  <1>1. /\ Kind \notin Direct /\ Kind \notin DbKinds /\ Kind \notin ShellKinds
        /\ Kind \notin {"kubeexec", "opaque", "portforward", "transparent"}
        /\ IsSeq(up) /\ UpShape /\ StopInv
    BY DEF Direct, DbKinds, ShellKinds, OpenerInv, UpInv
  <1>2. UNCHANGED <<scene, outbox, d, client>> /\ up # <<>> /\ up' = Tail(up) /\ ~a.broken
    BY DEF WebDialStartReceived, WebDialInputReceived, WebDialLastReceived,
       WebDialInterruptReceived, Receives, AgentOnly
  <1>3. Kind' = Kind /\ ConnInv' /\ UpEnds' = UpEnds
    BY <1>1, <1>2 DEF Kind, ConnInv, UpEnds, ReadingOver
  <1>4. (UpBlocked <=> a.go["reader"] # "off") /\ (Answering <=> a.go["reader"] # "off")
    BY <1>1, <1>2 DEF UpBlocked, Answering
  <1>5. CASE WebDialStartReceived \/ WebDialInterruptReceived
    <2>1. a' = Acked(a) \/ a' = [a EXCEPT !.input = "stuck"]
      BY <1>5 DEF WebDialStartReceived, WebDialInterruptReceived
    <2>2. /\ a'.stdin = a.stdin /\ a'.stopped = a.stopped /\ a'.dying = a.dying
          /\ a'.go = a.go
      BY <2>1, AckedKeeps DEF AgentFields
    <2>3. target' = target /\ Head(up).t # "Input"
      BY <1>5 DEF WebDialStartReceived, WebDialInterruptReceived, Receives
    <2>4. StopInv'
      BY <1>1, <1>2, <2>2, <2>3, StopStays
    <2>5. UpBlocked => UpBlocked'
      BY <1>3, <1>4, <2>2 DEF UpBlocked
    <2>. QED  BY <1>1, <1>2, <1>3, <2>2, <2>3, <2>4, <2>5, UpTakenNone
  <1>6. CASE WebDialInputReceived
    <2>. DEFINE r == [a EXCEPT !.stdin = @ \o Head(up).ns]
    <2>1. /\ DOMAIN r = AgentFields /\ r.stdin = a.stdin \o Head(up).ns /\ r.go = a.go
          /\ r.stopped = a.stopped /\ r.dying = a.dying
      BY DEF AgentFields
    <2>2. a' = Acked(r) /\ target' = target
      BY <1>6 DEF WebDialInputReceived
    <2>. HIDE DEF r
    <2>3. /\ a'.stdin = a.stdin \o Head(up).ns /\ a'.go = a.go
          /\ a'.stopped = a.stopped /\ a'.dying = a.dying
      BY <2>1, <2>2, AckedKeeps
    <2>4. StopInv'
      BY <1>1, <1>2, <2>2, <2>3, StopStays
    <2>5. Answering' <=> Answering
      BY <1>3, <2>3 DEF Answering
    <2>6. ASSUME NEW k \in Nat, NEW p \in Nat, NEW q \in Nat,
                 Segment(target.got, 0, k), Segment(a.stdin, Base(k), p),
                 Carries(Head(up), p, q, "up", UpEnds)
          PROVE  Segment(target'.got, 0, k) /\ Segment(a'.stdin, Base(k), q)
      <3>1. Segment(Head(up).ns, p, q) /\ Base(k) = 0
        BY <2>6 DEF Carries, Base
      <3>. QED  BY <2>2, <2>3, <2>6, <3>1, SegmentConcat
    <2>7. UpChunks'
      BY <1>1, <1>2, <1>4, <2>2, <2>5, <2>6, ChunksTaken DEF UpInv
    <2>8. UpShape'
      BY <1>1, <1>2, <1>3, <2>2, <2>3 DEF UpShape, TargetShape
    <2>. QED  BY <1>3, <2>4, <2>7, <2>8 DEF UpInv
  <1>7. CASE WebDialLastReceived
    <2>1. Head(up).t = "Last" /\ Final(Head(up), "up")
      BY <1>7 DEF WebDialLastReceived, Receives, Final
    <2>2. a.go["reader"] = "off"
      <3>1. HasOpener(up)
        BY <1>1, <1>2, <2>1, TailMoves DEF HasOpener, Opener
      <3>. QED  BY <3>1 DEF OpenerInv
    <2>3. PICK k \in Nat, p \in Nat : /\ Segment(target.got, 0, k)
                                      /\ Segment(a.stdin, Base(k), p) /\ p \in UpEnds
      BY <1>1, <1>2, <1>4, <2>1, <2>2, LastHasAll
    <2>4. target.got = <<>> /\ Segment(a.stdin, 0, p) /\ p = client.sent
      BY <1>1, <2>2, <2>3 DEF UpShape, Base, UpEnds
    <2>5. CASE /\ Delivered(a.stdin)
               /\ a' = Acked(Go([a EXCEPT !.conn = "open", !.stopped = TRUE], {"reader"}))
      <3>. DEFINE r == Go([a EXCEPT !.conn = "open", !.stopped = TRUE], {"reader"})
      <3>1. DOMAIN r = AgentFields /\ r.go["reader"] = "run"
        BY DEF Go, AgentFields, Goroutines
      <3>. HIDE DEF r
      <3>2. a'.go["reader"] = "run"
        BY <2>5, <3>1, AckedKeeps DEF r
      <3>3. a.stdin \in Seq(Nat) /\ Len(a.stdin) = p
        BY <2>4, SegmentFirst
      <3>4. target'.got = a.stdin /\ TargetShape'
        <4>1. target'.got = target.got \o a.stdin /\ TargetShape'
          BY <1>1, <2>5 DEF Delivered, UpShape, TargetShape
        <4>2. <<>> \o a.stdin = a.stdin
          BY <3>3
        <4>. QED  BY <2>4, <4>1, <4>2
      <3>5. UpChunks'
        <4>1. Answering' /\ Segment(target.got, 0, p)'
          BY <1>3, <2>4, <3>2, <3>4 DEF Answering, Segment
        <4>. QED  BY <4>1 DEF UpChunks
      <3>6. StopInv'
        <4>1. CloseIsEnd'
          BY <1>2, <2>4, <3>3, <3>4 DEF CloseIsEnd
        <4>. QED  BY <1>1, <1>3, <2>3, <3>2, <4>1 DEF StopInv
      <3>7. UpShape'
        BY <1>1, <1>2, <1>3, <3>2, <3>4 DEF UpShape
      <3>. QED  BY <1>3, <3>5, <3>6, <3>7 DEF UpInv
    <2>6. CASE UNCHANGED target /\ a' = [a EXCEPT !.broken = TRUE]
      <3>1. /\ a'.stdin = a.stdin /\ a'.stopped = a.stopped /\ a'.dying = a.dying
            /\ a'.go = a.go /\ a'.broken
        BY <2>6 DEF AgentFields
      <3>2. StopInv'
        BY <1>1, <1>2, <2>6, <3>1, StopStays
      <3>3. UpBlocked'
        BY <3>1 DEF UpBlocked
      <3>. QED  BY <1>1, <1>2, <1>3, <2>6, <3>1, <3>2, <3>3, UpTakenNone
    <2>. QED  BY <1>7, <2>5, <2>6 DEF WebDialLastReceived
  <1>. QED  BY <1>5, <1>6, <1>7

\* Every step of webdial.
LEMMA UpWeb ==
  ASSUME DaemonShape, AgentShape, OpenerInv, PanicInv, UpInv, Kind \in Careful, WebDialSteps
  PROVE  UpInv'
  <1>1. Kind = "webdial"
    BY DEF Careful, WebDialSteps, WebKinds, WebStartRefused, WebDialStart, WebDialBody,
       WebDialCancelled, WebDialDying, WebDialTake, WebDialProcess, WebDialStartReceived,
       WebDialInputReceived, WebDialLastReceived, WebDialInterruptReceived,
       WebDialReads, WebDialResponse, WebAgentDying
  <1>. QED
    BY <1>1, UpWebQuiet, UpQuiet, UpWebDaemon, UpWebAgent DEF WebDialSteps

-----------------------------------------------------------------------------
(* kubeexec.                                                               *)

\* The steps that move no chunk up.
LEMMA UpKubeQuiet ==
  ASSUME DaemonShape, AgentShape, UpInv, Kind = "kubeexec",
         \/ KubeStartRefused \/ KubeExecWrite \/ KubeExecClosed \/ KubeExecStdout
         \/ KubeExecEnds \/ KubeExecDying \/ KubeExecKilled
  PROVE  QuietUp
  <1>. USE DEF DaemonShape, AgentShape, DaemonFields, AgentFields, Goroutines
  <1>1. UpShape /\ Kind \notin DbKinds /\ Kind \notin Direct
    BY DEF UpInv, DbKinds, Direct
  <1>2. CASE KubeStartRefused \/ KubeExecWrite \/ KubeExecClosed
    <2>1. UNCHANGED <<scene, outbox, up, a, target>>
      BY <1>2 DEF KubeStartRefused, KubeExecWrite, KubeExecClosed, DaemonOnly
    <2>2. client' = client \/ client' = [client EXCEPT !.shut = TRUE]
          \/ \E m : client' = Shown(m)
      BY <1>2 DEF KubeStartRefused, KubeExecWrite, KubeExecClosed
    <2>3. DOMAIN client' = ClientFields /\ client'.sent = client.sent
          /\ client'.eof = client.eof
      BY <1>1, <2>2 DEF Shown, UpShape, ClientFields
    <2>4. ASSUME NEW r, NEW failed \in BOOLEAN, DOMAIN r = DaemonFields, r.go = d.go,
                 r.keys = d.keys, r.handler = d.handler,
                 d' = CloseDone(Returns(r, "writer", failed))
          PROVE  /\ d'.go["reader"] = d.go["reader"] /\ d'.go["writer"] = "end"
                 /\ d'.keys = d.keys /\ d'.handler = d.handler
      <3>. DEFINE s == Returns(r, "writer", failed)
      <3>1. /\ s.go = [r.go EXCEPT !["writer"] = "end"] /\ DOMAIN s = DaemonFields
            /\ s.keys = r.keys /\ s.handler = r.handler
        BY <2>4 DEF Returns
      <3>. HIDE DEF s
      <3>2. d'.go = s.go /\ d'.keys = s.keys /\ d'.handler = s.handler
        BY <2>4, <3>1 DEF CloseDone, s
      <3>. QED  BY <2>4, <3>1, <3>2
    <2>5. /\ d'.go["reader"] = d.go["reader"] /\ d'.keys = d.keys /\ d'.handler = d.handler
          /\ d'.go["writer"] = "stop" => d.go["writer"] = "stop" \/ client.eof
      <3>1. CASE KubeStartRefused
        BY <3>1 DEF KubeStartRefused
      <3>2. CASE KubeExecWrite
        <4>1. CASE \E m : d' = [[d EXCEPT !.inq = Tail(@)] EXCEPT !.lost = Unshown(m)]
          BY <4>1
        <4>2. CASE \E e \in BOOLEAN, failed \in BOOLEAN :
                     d' = CloseDone(Returns([[d EXCEPT !.inq = Tail(@)] EXCEPT !.ended = e],
                                            "writer", failed))
          <5>1. PICK e \in BOOLEAN, failed \in BOOLEAN :
                  d' = CloseDone(Returns([[d EXCEPT !.inq = Tail(@)] EXCEPT !.ended = e],
                                         "writer", failed))
            BY <4>2
          <5>. DEFINE r == [[d EXCEPT !.inq = Tail(@)] EXCEPT !.ended = e]
          <5>2. DOMAIN r = DaemonFields /\ r.go = d.go /\ r.keys = d.keys
                /\ r.handler = d.handler
            OBVIOUS
          <5>3. d' = CloseDone(Returns(r, "writer", failed))
            BY <5>1
          <5>. HIDE DEF r
          <5>. QED  BY <2>4, <5>2, <5>3
        <4>. QED  BY <3>2, <4>1, <4>2 DEF KubeExecWrite
      <3>3. CASE KubeExecClosed
        <4>1. CASE client.eof /\ d' = [d EXCEPT !.go["writer"] = "stop"]
          BY <4>1
        <4>2. CASE d' = CloseDone(Returns(d, "writer", FALSE))
          BY <2>4, <4>2
        <4>. QED  BY <3>3, <4>1, <4>2 DEF KubeExecClosed
      <3>. QED  BY <1>2, <3>1, <3>2, <3>3
    <2>6. TargetShape' /\ TargetGone' = TargetGone
      BY <1>1, <2>1 DEF UpShape, TargetShape, TargetGone
    <2>. QED  BY <1>1, <2>1, <2>3, <2>5, <2>6 DEF QuietUp, UpShape
  <1>3. CASE KubeExecStdout \/ KubeExecEnds \/ KubeExecDying \/ KubeExecKilled
    <2>1. /\ UNCHANGED <<scene, outbox, up, d, client>>
          /\ target' = target \/ target' = [target EXCEPT !.sent = @ + 1]
      BY <1>3 DEF KubeExecStdout, KubeExecEnds, KubeExecDying, KubeExecKilled, AgentDying,
         AgentOnly, FromTarget
    <2>2. /\ a'.broken = a.broken /\ a'.stopped = a.stopped /\ a'.stdin = a.stdin
          /\ a'.dying = a.dying /\ (a'.go["reader"] = "off" <=> a.go["reader"] = "off")
      <3>1. CASE KubeExecStdout
        BY <3>1 DEF KubeExecStdout
      <3>2. CASE KubeExecEnds
        <4>. DEFINE r == [a EXCEPT !.go["reader"] = "end", !.conn = "closed"]
        <4>1. /\ r.broken = a.broken /\ r.stopped = a.stopped /\ r.stdin = a.stdin
              /\ r.dying = a.dying /\ r.go["reader"] = "end" /\ DOMAIN r = AgentFields
          OBVIOUS
        <4>2. a' = CloseDone(r) /\ a.go["reader"] = "run"
          BY <3>2 DEF KubeExecEnds
        <4>. HIDE DEF r
        <4>. QED  BY <4>1, <4>2 DEF CloseDone
      <3>3. CASE KubeExecDying
        BY <3>3 DEF KubeExecDying, AgentDying
      <3>4. CASE KubeExecKilled
        BY <3>4 DEF KubeExecKilled
      <3>. QED  BY <1>3, <3>1, <3>2, <3>3, <3>4
    <2>3. TargetShape' /\ target'.got = target.got /\ TargetGone' = TargetGone
      BY <1>1, <2>1 DEF UpShape, TargetShape, TargetGone
    <2>. QED  BY <1>1, <2>1, <2>2, <2>3 DEF QuietUp, UpShape
  <1>. QED  BY <1>2, <1>3

\* The daemon's steps that read stdin or put messages.
LEMMA UpKubeDaemon ==
  ASSUME DaemonShape, OpenerInv, PanicInv, UpInv, Kind = "kubeexec",
         KubeExecStart \/ KubeExecRead \/ KubeExecSend \/ KubeExecResize
  PROVE  UpInv'
  <1>. USE DEF DaemonShape, DaemonFields, Goroutines
  <1>1. /\ Kind \notin Direct /\ Kind \notin DbKinds /\ Kind \notin ShellKinds
        /\ Kind # "webdial" /\ (d.go["writer"] = "stop" => client.eof)
        /\ IsSeq(outbox) /\ IsSeq(up) /\ DOMAIN client = ClientFields /\ client.sent \in Nat
    BY DEF Direct, DbKinds, ShellKinds, OpenerInv, UpInv, UpShape
  <1>2. UNCHANGED <<scene, a, target, up>> /\ Kind' = Kind
    BY DEF KubeExecStart, KubeExecRead, KubeExecSend, KubeExecResize, DaemonOnly, Kind
  <1>3. /\ Pending <=> d.handler = "put"
        /\ Pending' <=> d'.handler = "put"
        /\ ReadingOver <=> d.handler = "end"
        /\ ReadingOver' <=> d'.handler = "end"
    BY <1>1, <1>2 DEF Pending, ReadingOver
  <1>4. \A s : /\ SentUpTo(s) <=> IF Pending THEN s + 1 = client.sent ELSE s = client.sent
               /\ SentUpTo(s)' <=> IF Pending' THEN s + 1 = client'.sent
                                   ELSE s = client'.sent
    BY <1>1, <1>2 DEF SentUpTo
  <1>5. /\ Act("Start", <<>>).ns = <<>> /\ ~Final(Act("Start", <<>>), "up")
        /\ Act("Resize", <<>>).ns = <<>> /\ ~Final(Act("Resize", <<>>), "up")
        /\ Act("Stop", <<>>).ns = <<>>
    BY DEF Act, Final
  <1>6. CASE KubeExecStart
    <2>1. d.handler = "off" /\ d.go["writer"] = "off"
      BY <1>6 DEF KubeExecStart, KubeStarts, PanicInv, Closer
    <2>2. CASE /\ Put(Act("Start", <<>>)) /\ UNCHANGED client
               /\ d' = [Go([d EXCEPT !.act = "started"], {"writer"})
                          EXCEPT !.handler = IF HasStdin THEN "run" ELSE "end"]
      <3>. DEFINE r == Go([d EXCEPT !.act = "started"], {"writer"})
      <3>1. /\ DOMAIN r = DaemonFields /\ r.keys = d.keys /\ r.go["reader"] = d.go["reader"]
            /\ r.go["writer"] = "run"
        BY DEF Go
      <3>. HIDE DEF r
      <3>2. d' = [r EXCEPT !.handler = IF HasStdin THEN "run" ELSE "end"]
        BY <2>2 DEF r
      <3>3. /\ d'.keys = d.keys /\ d'.go["reader"] = d.go["reader"]
            /\ d'.go["writer"] = "run" /\ d'.handler \in {"run", "end"}
        BY <3>1, <3>2
      <3>4. outbox' = Append(outbox, Act("Start", <<>>))
        BY <2>2 DEF Put
      <3>. QED  BY <1>1, <1>2, <1>3, <1>5, <2>1, <2>2, <3>3, <3>4, UpPutEmpty
    <2>3. CASE Leaves([d EXCEPT !.act = "started"]) /\ UNCHANGED outbox
      <3>1. d'.keys = d.keys /\ d'.go = d.go /\ d'.handler = "end"
        BY <2>3 DEF Leaves
      <3>2. /\ DOMAIN client' = ClientFields /\ client'.sent = client.sent
            /\ client'.eof = client.eof
        BY <1>1, <2>3 DEF Leaves, ClientFields
      <3>. QED  BY <1>1, <1>2, <1>3, <1>4, <2>1, <2>3, <3>1, <3>2, UpRead
    <2>. QED  BY <1>6, <2>2, <2>3 DEF KubeExecStart
  <1>7. CASE KubeExecRead
    <2>1. d.handler = "run" /\ UNCHANGED outbox
      BY <1>7 DEF KubeExecRead
    <2>2. CASE FromClient /\ d' = [d EXCEPT !.handler = "put"]
      <3>1. d'.keys = d.keys /\ d'.go = d.go /\ d'.handler = "put"
        BY <2>2
      <3>2. /\ DOMAIN client' = ClientFields /\ client'.sent = client.sent + 1
            /\ client'.eof = client.eof /\ client'.sent \in Nat
        BY <1>1, <2>2 DEF FromClient, ClientFields
      <3>. QED  BY <1>1, <1>2, <1>3, <1>4, <2>1, <3>1, <3>2, UpRead
    <2>3. CASE UNCHANGED client /\ \E v \in {"end", "stop"} : d' = [d EXCEPT !.handler = v]
      <3>1. d'.keys = d.keys /\ d'.go = d.go /\ d'.handler \in {"end", "stop"}
        BY <2>3
      <3>. QED  BY <1>1, <1>2, <1>3, <1>4, <2>1, <2>3, <3>1, UpRead
    <2>. QED  BY <1>7, <2>2, <2>3 DEF KubeExecRead
  <1>8. CASE KubeExecSend
    <2>1. UNCHANGED client
      BY <1>8 DEF KubeExecSend
    <2>2. CASE /\ d.handler = "put" /\ Put(Act("Input", <<client.sent>>))
               /\ d' = [d EXCEPT !.handler = "run"]
      <3>1. /\ d'.keys = d.keys /\ d'.go = d.go /\ d'.handler = "run"
            /\ outbox' = Append(outbox, Act("Input", <<client.sent>>))
        BY <2>2 DEF Put
      <3>. QED  BY <1>1, <1>2, <1>3, <2>1, <2>2, <3>1, UpPutPending
    <2>3. CASE /\ d.handler = "stop" /\ Put(Act("Stop", <<>>))
               /\ d' = [d EXCEPT !.handler = "end", !.stopped = TRUE]
      <3>1. /\ d'.keys = d.keys /\ d'.go = d.go /\ d'.handler = "end"
            /\ outbox' = Append(outbox, Act("Stop", <<>>))
        BY <2>3 DEF Put
      <3>. QED  BY <1>1, <1>2, <1>3, <1>5, <2>1, <2>3, <3>1, UpPutEmpty
    <2>4. CASE /\ d.go["writer"] = "stop" /\ Put(Act("Stop", <<>>))
               /\ d' = CloseDone(Returns([d EXCEPT !.stopped = TRUE], "writer", FALSE))
      <3>. DEFINE r == [d EXCEPT !.stopped = TRUE]
                  s == Returns(r, "writer", FALSE)
      <3>1. /\ DOMAIN r = DaemonFields /\ r.go = d.go /\ r.keys = d.keys
            /\ r.handler = d.handler
        OBVIOUS
      <3>. HIDE DEF r
      <3>2. /\ s.go = [r.go EXCEPT !["writer"] = "end"] /\ DOMAIN s = DaemonFields
            /\ s.keys = r.keys /\ s.handler = r.handler
        BY <3>1 DEF Returns
      <3>. HIDE DEF s
      <3>3. d' = CloseDone(s)
        BY <2>4 DEF r, s
      <3>4. d'.go = s.go /\ d'.keys = s.keys /\ d'.handler = s.handler
        BY <3>2, <3>3 DEF CloseDone
      <3>5. /\ d'.keys = d.keys /\ d'.go["reader"] = d.go["reader"]
            /\ d'.go["writer"] = "end" /\ d'.handler = d.handler
        BY <3>1, <3>2, <3>4
      <3>6. outbox' = Append(outbox, Act("Stop", <<>>))
        BY <2>4 DEF Put
      <3>. QED  BY <1>1, <1>2, <1>3, <1>5, <2>1, <2>4, <3>5, <3>6, UpPutEmpty
    <2>. QED  BY <1>8, <2>2, <2>3, <2>4 DEF KubeExecSend
  <1>9. CASE KubeExecResize
    <2>1. /\ d'.keys = d.keys /\ d'.go = d.go /\ d'.handler = d.handler
          /\ outbox' = Append(outbox, Act("Resize", <<>>)) /\ UNCHANGED client
      BY <1>9 DEF KubeExecResize, Put
    <2>. QED  BY <1>1, <1>2, <1>3, <1>5, <2>1, UpPutEmpty
  <1>. QED  BY <1>6, <1>7, <1>8, <1>9

\* The messages that the agent takes, and the stdin that the command reads.
LEMMA UpKubeAgent ==
  ASSUME AgentShape, OpenerInv, UpInv, Kind = "kubeexec",
         \/ KubeExecStartReceived \/ KubeExecInputReceived \/ KubeExecStopReceived
         \/ KubeExecResizeReceived \/ KubeExecStdin
  PROVE  UpInv'
  <1>. USE DEF AgentShape
  <1>1. /\ Kind \notin Direct /\ Kind \notin DbKinds /\ Kind \notin ShellKinds
        /\ Kind # "opaque" /\ Kind # "webdial" /\ ~Answering
        /\ IsSeq(up) /\ UpShape /\ StopInv
    BY DEF Direct, DbKinds, ShellKinds, OpenerInv, UpInv, Answering
  <1>2. UNCHANGED <<scene, outbox, d, client>>
    BY DEF KubeExecStartReceived, KubeExecInputReceived, KubeExecStopReceived,
       KubeExecResizeReceived, KubeExecStdin, AgentOnly
  <1>3. Kind' = Kind /\ ConnInv' /\ UpEnds' = UpEnds /\ ~Answering'
    BY <1>1, <1>2 DEF Kind, ConnInv, UpEnds, ReadingOver, Answering
  <1>4. (UpBlocked <=> a.broken \/ a.stopped) /\ (UpBlocked' <=> a'.broken \/ a'.stopped)
    BY <1>1, <1>3 DEF UpBlocked
  <1>5. CASE KubeExecStartReceived
    <2>1. up # <<>> /\ up' = Tail(up) /\ target' = target /\ Head(up).t # "Input"
      BY <1>5 DEF KubeExecStartReceived, Receives
    <2>. DEFINE r == [a EXCEPT !.conn = "open", !.go["reader"] = "run"]
    <2>2. /\ DOMAIN r = AgentFields /\ r.stdin = a.stdin /\ r.stopped = a.stopped
          /\ r.broken = a.broken /\ r.dying = a.dying /\ r.go["reader"] = "run"
      BY DEF AgentFields, Goroutines
    <2>. HIDE DEF r
    <2>3. a' = Acked(r) \/ a' = [a EXCEPT !.broken = TRUE]
      BY <1>5 DEF KubeExecStartReceived, Failed, r
    <2>4. /\ a'.stdin = a.stdin /\ a'.stopped = a.stopped /\ a'.dying = a.dying
          /\ a.broken => a'.broken
          /\ a.go["reader"] # "off" => a'.go["reader"] # "off"
      BY <2>2, <2>3, AckedKeeps DEF AgentFields
    <2>5. StopInv'
      BY <1>1, <1>2, <2>1, <2>4, StopStays
    <2>. QED  BY <1>1, <1>2, <1>3, <1>4, <2>1, <2>4, <2>5, UpTakenNone
  <1>6. CASE KubeExecInputReceived /\ a.stopped
    <2>1. up # <<>> /\ up' = Tail(up) /\ target' = target /\ a' = Acked(a)
      BY <1>6 DEF KubeExecInputReceived, Receives
    <2>2. /\ a'.stdin = a.stdin /\ a'.stopped = a.stopped /\ a'.dying = a.dying
          /\ a'.broken = a.broken /\ a'.go = a.go
      BY <2>1, AckedKeeps
    <2>3. StopInv'
      BY <1>1, <1>2, <2>1, <2>2, StopStays
    <2>. QED  BY <1>1, <1>2, <1>3, <1>4, <1>6, <2>1, <2>2, <2>3, UpTakenNone
  <1>7. CASE KubeExecInputReceived /\ ~a.stopped
    <2>. DEFINE r == [a EXCEPT !.stdin = @ \o Head(up).ns]
    <2>1. /\ DOMAIN r = AgentFields /\ r.stdin = a.stdin \o Head(up).ns
          /\ r.stopped = a.stopped
      BY DEF AgentFields
    <2>. HIDE DEF r
    <2>2. up # <<>> /\ up' = Tail(up) /\ target' = target /\ ~a.broken /\ a' = Acked(r)
      BY <1>7 DEF KubeExecInputReceived, Receives, r
    <2>3. a'.stdin = a.stdin \o Head(up).ns /\ ~a'.stopped
      BY <1>7, <2>1, <2>2, AckedKeeps
    <2>4. StopInv'
      BY <2>3 DEF StopInv
    <2>5. ASSUME NEW k \in Nat, NEW p \in Nat, NEW q \in Nat,
                 Segment(target.got, 0, k), Segment(a.stdin, Base(k), p),
                 Carries(Head(up), p, q, "up", UpEnds)
          PROVE  Segment(target'.got, 0, k) /\ Segment(a'.stdin, Base(k), q)
      <3>1. Segment(Head(up).ns, p, q) /\ Base(k) = k
        BY <1>1, <2>5 DEF Carries, Base
      <3>. QED  BY <2>2, <2>3, <2>5, <3>1, SegmentConcat
    <2>6. UpChunks'
      BY <1>1, <1>2, <1>4, <1>7, <2>2, <2>5, ChunksTaken DEF UpInv
    <2>7. UpShape'
      BY <1>1, <1>2, <1>3, <2>2 DEF UpShape, TargetShape
    <2>. QED  BY <1>3, <2>4, <2>6, <2>7 DEF UpInv
  <1>8. CASE KubeExecStopReceived
    <2>. DEFINE r == [a EXCEPT !.stopped = TRUE]
    <2>1. /\ DOMAIN r = AgentFields /\ r.stdin = a.stdin /\ r.stopped
          /\ r.dying = a.dying /\ r.go = a.go
      BY DEF AgentFields
    <2>. HIDE DEF r
    <2>2. /\ up # <<>> /\ up' = Tail(up) /\ target' = target /\ ~a.broken /\ a' = Acked(r)
          /\ Head(up).t = "Stop"
      BY <1>8 DEF KubeExecStopReceived, Receives, r
    <2>3. a'.stdin = a.stdin /\ a'.stopped /\ a'.dying = a.dying /\ a'.go = a.go
      BY <2>1, <2>2, AckedKeeps
    <2>4. StopInv'
      <3>1. CASE a.stopped
        BY <1>1, <1>2, <2>2, <2>3, <3>1, StopStays
      <3>2. CASE ~a.stopped
        <4>1. Final(Head(up), "up")
          BY <2>2 DEF Final
        <4>2. PICK k \in Nat, p \in Nat : /\ Segment(target.got, 0, k)
                                          /\ Segment(a.stdin, Base(k), p) /\ p \in UpEnds
          BY <1>1, <1>4, <2>2, <3>2, <4>1, LastHasAll
        <4>3. Segment(target.got \o a.stdin, 0, p)
          BY <1>1, <4>2, SegmentConcat DEF Base
        <4>4. client.eof \/ Len(target.got \o a.stdin) = client.sent
          BY <4>2, <4>3, SegmentFirst DEF UpEnds
        <4>5. client'.eof \/ Len(target'.got \o a'.stdin) = client'.sent
          BY <1>2, <2>2, <2>3, <4>4
        <4>6. CloseIsEnd'
          BY <1>3, <4>5 DEF CloseIsEnd
        <4>. QED  BY <1>1, <1>3, <4>2, <4>5, <4>6 DEF StopInv
      <3>. QED  BY <3>1, <3>2
    <2>. QED  BY <1>1, <1>2, <1>3, <1>4, <2>2, <2>3, <2>4, UpTakenNone
  <1>9. CASE KubeExecStdin
    <2>1. /\ up' = up /\ a.stdin # <<>>
          /\ target' = [target EXCEPT !.got = @ \o <<Head(a.stdin)>>]
          /\ a' = [a EXCEPT !.stdin = Tail(@)] /\ a.go["reader"] = "run"
      BY <1>9 DEF KubeExecStdin, Delivered
    <2>2. /\ a'.stdin = Tail(a.stdin) /\ a'.stopped = a.stopped /\ a'.dying = a.dying
          /\ a'.broken = a.broken
      BY <2>1 DEF AgentFields
    <2>3. /\ target'.got = target.got \o <<Head(a.stdin)>> /\ TargetShape'
          /\ TargetGone' = TargetGone
      BY <1>1, <2>1 DEF UpShape, TargetShape, TargetGone
    <2>4. PICK k \in Nat, p \in Nat : /\ Segment(target.got, 0, k)
                                      /\ Segment(a.stdin, k, p)
                                      /\ UpBlocked \/ UpFlow(p)
      BY <1>1 DEF UpInv, UpChunks, Base
    <2>5. /\ Segment(target'.got, 0, k + 1) /\ Segment(a'.stdin, k + 1, p) /\ k + 1 \in Nat
      <3>1. Segment(<<Head(a.stdin)>>, k, k + 1) /\ Segment(Tail(a.stdin), k + 1, p)
            /\ k + 1 \in Nat
        BY <2>1, <2>4, SegmentTail
      <3>2. Segment(target.got \o <<Head(a.stdin)>>, 0, k + 1)
        BY <2>4, <3>1, SegmentConcat
      <3>. QED  BY <2>2, <2>3, <3>1, <3>2
    <2>6. UpFlow(p) => UpFlow(p)'
      <3>1. \A s : SentUpTo(s) <=> SentUpTo(s)'
        BY <1>2 DEF SentUpTo, Pending, Kind
      <3>2. ASSUME NEW q \in Nat, NEW r \in Nat, NEW s \in Nat,
                   Run(up, p, q, "up", UpEnds), Run(outbox, q, r, "up", UpEnds),
                   Segment(d.keys, r, s)
            PROVE  Run(up, p, q, "up", UpEnds)' /\ Run(outbox, q, r, "up", UpEnds)'
                   /\ Segment(d.keys, r, s)'
        <4>1. /\ Run(up', p, q, "up", UpEnds') /\ Run(outbox', q, r, "up", UpEnds')
              /\ Segment(d'.keys, r, s)
          BY <1>2, <1>3, <2>1, <3>2
        <4>2. Run(up, p, q, "up", UpEnds)' /\ Run(outbox, q, r, "up", UpEnds)'
          BY <1>2, <4>1, RunStays
        <4>. QED  BY <4>1, <4>2 DEF Segment
      <3>. QED  BY <3>1, <3>2 DEF UpFlow
    <2>7. UpChunks'
      <3>1. Base(k + 1)' = k + 1
        BY <1>1, <1>3 DEF Base
      <3>2. Segment(target.got, 0, k + 1)' /\ Segment(a.stdin, Base(k + 1), p)'
        BY <2>5, <3>1 DEF Segment
      <3>3. UpBlocked => UpBlocked'
        BY <1>4, <2>2
      <3>. QED  BY <2>4, <2>5, <2>6, <3>2, <3>3 DEF UpChunks
    <2>8. StopInv'
      <3>. SUFFICES ASSUME a.stopped PROVE StopInv'
        BY <2>2 DEF StopInv
      <3>1. Segment(target.got \o a.stdin, 0, p) /\ Segment(target'.got \o a'.stdin, 0, p)
        BY <2>4, <2>5, SegmentConcat
      <3>2. Len(target.got \o a.stdin) = Len(target'.got \o a'.stdin)
        BY <3>1, SegmentFirst
      <3>3. UpEnds # {} /\ (client.eof \/ Len(target.got \o a.stdin) = client.sent)
        BY <1>1 DEF StopInv
      <3>4. client'.eof \/ Len(target'.got \o a'.stdin) = client'.sent
        BY <1>2, <3>2, <3>3
      <3>5. CloseIsEnd'
        BY <1>3, <3>4 DEF CloseIsEnd
      <3>. QED  BY <1>1, <1>3, <3>3, <3>4, <3>5 DEF StopInv
    <2>9. UpShape'
      BY <1>1, <1>2, <1>3, <2>3 DEF UpShape
    <2>. QED  BY <1>3, <2>7, <2>8, <2>9 DEF UpInv
  <1>10. CASE KubeExecResizeReceived
    <2>1. /\ up # <<>> /\ up' = Tail(up) /\ target' = target /\ Head(up).t # "Input"
          /\ a' = Acked(a) \/ a' = [a EXCEPT !.input = "stuck"]
      BY <1>10 DEF KubeExecResizeReceived, Receives
    <2>2. /\ a'.stdin = a.stdin /\ a'.stopped = a.stopped /\ a'.dying = a.dying
          /\ a'.broken = a.broken /\ a'.go = a.go
      BY <2>1, AckedKeeps DEF AgentFields
    <2>3. StopInv'
      BY <1>1, <1>2, <2>1, <2>2, StopStays
    <2>. QED  BY <1>1, <1>2, <1>3, <1>4, <2>1, <2>2, <2>3, UpTakenNone
  <1>. QED  BY <1>5, <1>6, <1>7, <1>8, <1>9, <1>10

\* Every step of kubeexec.
LEMMA UpKube ==
  ASSUME DaemonShape, AgentShape, OpenerInv, PanicInv, UpInv, Kind \in Careful,
         KubeExecSteps
  PROVE  UpInv'
  <1>1. Kind = "kubeexec"
    BY DEF Careful, KubeExecSteps, KubeKinds, KubeStartRefused, KubeExecStart,
       KubeExecWrite, KubeExecClosed, KubeExecRead, KubeExecSend, KubeExecResize,
       KubeExecResizeReceived, KubeExecStartReceived,
       KubeExecInputReceived, KubeExecStopReceived, KubeExecStdin, KubeExecStdout,
       KubeExecEnds, KubeExecDying, KubeExecKilled
  <1>. QED
    BY <1>1, UpKubeQuiet, UpQuiet, UpKubeDaemon, UpKubeAgent DEF KubeExecSteps

-----------------------------------------------------------------------------
\* Nothing has moved at the start.
LEMMA UpInitially ==
  ASSUME Init, Kind \in Careful
  PROVE  UpInv
  <1>1. /\ outbox = <<>> /\ up = <<>> /\ DOMAIN client = ClientFields
        /\ client.sent = 0 /\ TargetShape /\ target.got = <<>>
    BY DEF Init, SessionInit, ClientFields, TargetShape, NewTarget
  <1>2. d.keys = <<>> /\ d.act = "none" /\ d.handler = "off" /\ d.go["reader"] = "off"
        /\ d.go["writer"] = "off"
    BY DEF Init, DaemonInit, Goroutines
  <1>. DEFINE a0 == AgentInit(Kind \in SshKinds, Ring!New(RingSize))
  <1>3. /\ DOMAIN a0 = AgentFields /\ a0.stdin = <<>> /\ a0.stopped = FALSE
        /\ a0.conn = (IF Kind \in SshKinds THEN "open" ELSE "none")
        /\ a0.go = [g \in Goroutines |-> "off"]
    BY DEF AgentInit, AgentFields
  <1>4. a = IF Kind = "attach" THEN Attachable(a0) ELSE a0
    BY DEF Init
  <1>. HIDE DEF a0
  <1>5. /\ a.stdin = <<>> /\ ~a.stopped
        /\ Kind \notin ShellKinds => /\ a.go["reader"] = "off"
                                     /\ a.conn = IF Kind \in SshKinds THEN "open" ELSE "none"
    BY <1>3, <1>4 DEF Attachable, AgentFields, ShellKinds, Goroutines
  <1>6. UpShape
    BY <1>1, <1>2, <1>5 DEF UpShape
  <1>7. UpChunks
    <2>1. UpFlow(0)
      <3>1. Run(up, 0, 0, "up", UpEnds) /\ Run(outbox, 0, 0, "up", UpEnds)
        BY <1>1, RunNone
      <3>2. Segment(d.keys, 0, 0)
        BY <1>2, SegmentNone
      <3>3. SentUpTo(0)
        BY <1>1, <1>2 DEF SentUpTo, Pending
      <3>. QED  BY <3>1, <3>2, <3>3 DEF UpFlow
    <2>2. Segment(target.got, 0, 0) /\ Segment(a.stdin, Base(0), 0)
      BY <1>1, <1>5, SegmentNone DEF Base
    <2>. QED  BY <2>1, <2>2 DEF UpChunks
  <1>8. ConnInv
    BY <1>1, <1>2, <1>5 DEF ConnInv, OpenerFirst, Direct, DbKinds, ShellKinds, SshKinds
  <1>9. StopInv
    BY <1>5 DEF StopInv
  <1>. QED  BY <1>6, <1>7, <1>8, <1>9 DEF UpInv

\* The chunks on their way up are in order in every state that a session reaches.
LEMMA UpAlways == Spec => [](Kind \in Careful => UpInv)
  <1>. DEFINE I == Kind \in Careful => UpInv
  <1>1. Init => I
    BY UpInitially
  <1>2. NoPanicInv /\ I /\ [Next]_vars => I'
    <2>. SUFFICES ASSUME NoPanicInv, I, [Next]_vars, Kind' \in Careful
                  PROVE  UpInv'
      OBVIOUS
    <2>1. CASE Next
      <3>1. Kind \in Careful
        BY <2>1, SceneStays DEF Kind
      <3>2. DaemonShape /\ AgentShape /\ OpenerInv /\ PanicInv /\ UpInv
        BY <3>1 DEF NoPanicInv
      <3>3. SharedSteps \/ DbNext \/ OpaqueSteps \/ ShellNext \/ WebDialSteps
            \/ KubeExecSteps
        BY <2>1, <3>1, CarefulSteps
      <3>4. DbNext => Kind \in DbKinds
        BY DEF DbNext, DbKinds, DbStartRefused, DialStart, LocalRead, LocalReadDying,
           LocalInput, DialStopSent, DialTake, DialProcess, WriterDying, PwdbStart,
           PwdbStartFails, PwdbReceiveMrtap, PwdbProcess, PwdbCloseSent,
           DialStartReceived, DialInputReceived, PwdbConnectReceived, PwdbInputReceived,
           DbCloseReceived, RemoteRead, RemoteStream, RemoteEnd, RemoteReadDying, DbDying
      <3>. QED
        BY <3>1, <3>2, <3>3, <3>4, UpShared, UpDb, UpOpaque, UpShell, UpWeb, UpKube
    <2>2. CASE UNCHANGED vars
      <3>1. UpInv
        BY <2>2 DEF vars, Kind
      <3>2. QuietUp
        BY <2>2, <3>1 DEF vars, QuietUp, UpInv, UpShape, TargetShape, TargetGone, Kind
      <3>. QED  BY <3>1, <3>2, UpQuiet
    <2>. QED  BY <2>1, <2>2
  <1>. QED  BY <1>1, <1>2, NeverPanics, PTL DEF Spec

\* When the agent's action of a careful kind takes the client to be done, the target has
\* got all that the daemon has read from the client, or what it has not got is still to
\* be read from stdin, unless the target went first or the daemon's data channel is gone,
\* however long the session and whatever ends it.  (CloseIsEnd)
THEOREM ClosesAreComplete == Spec => [](Kind \in Careful => CloseIsEnd)
  <1>1. UpInv => CloseIsEnd
    BY DEF UpInv, StopInv, CloseIsEnd
  <1>. QED  BY <1>1, UpAlways, PTL
=============================================================================
