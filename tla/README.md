# A TLA+ model of bzero

bzero connects a user's machine (the *daemon*) with a target (the *agent*)
through a connection node of the BastionZero backend.  This directory models the
parts of it that carry state and concurrency, checks them with TLC on small
instances and proves theorems about them with TLAPS.

1. [The system](#the-system)
2. [The modules and the code](#the-modules-and-the-code)
3. [Runs](#runs)
4. [Bounds, environment and fairness](#bounds-environment-and-fairness)
5. [Proofs](#proofs)
6. [What the runs found](#what-the-runs-found)
7. [Not modelled, and why](#not-modelled-and-why)
8. [Plan](#plan)

## The system

| Component | State | Operations | Hard because |
|---|---|---|---|
| Daemon MrTAP (`bctl/daemon/mrtap`) | ordered map of unacked messages, outbox, last ack, recovery flag | `BuildSyn`, `Inbox`, `Validate`, `Recover`, `resend` | pipelining on predicted acks; recovery with messages of the old chain in flight; pushes onto a bounded queue under a lock |
| Daemon datachannel (`bctl/daemon/datachannel`) | tomb, inputChan, retries | handshake, message loop, drain, send, zap, close | four goroutines; timeouts race answers |
| Agent MrTAP and datachannel (`bctl/agent/mrtap`, `bctl/agent/datachannel`) | last message, expected pointer, plugin, tomb | validate, run plugin, ack, error, close | plugin may end while input still comes |
| BZCert (`bctl/daemon/mrtap/bzcert`) | the shared certificate | refresh | shared by all channels of a daemon |
| SignalR client and websocket (`bzerolib/connection/messenger`, `.../transporter`) | tomb, tracker, inbound, sendQueue | `Connect`, `Send`, unwrap, endgame, `Close` | two goroutines under a tomb that is replaced at every connect |
| Connections (`daemon/servers/dataconnection`, `agent/controlchannel/dataconnection`, `agent/controlconnection`) | tomb, ready, sendQueue | connect with backoff, loop, receive, close, flush | main and receive goroutines, channels and servers all block on each other's queues |
| Broker (`bzerolib/connection/broker`) | map of channels, one RW lock | `Subscribe`, `DirectMessage`, `CloseChannel`, `Close` | waits and pushes are made with the lock held |
| Control channel (`agent/controlchannel`) | table of connections, pong state | open and close websockets, ping, report, configure | health checks race reconnects; connections end by themselves |
| Agent (`agent/agent.go`) | control connection and channel, shutdown reason | start, monitor, restart, shut down | a restart races shutdown, and what one process leaves the next one reads |
| Registration, configuration stores, file lock | persisted configuration | register, fetch-change-save | crash between steps, several writers |
| Identity token | cached token | `Get` | expiry while cached |
| Plugins (db, kube, shell, ssh, web; both ends) | a stream each | open, input, output, close | reordering by sequence number, end of stream at either end |
| Daemon servers | listeners, channels | accept, open channel, close | one channel per local connection |

Data flows so: a plugin's output becomes a MrTAP Data message (`zapPluginOutput`
-> `Inbox`), which `sendMrtap` hands to the connection's `Send`; the
connection's main goroutine passes it to SignalR, which writes it to the
websocket.  At the other end SignalR's reader pushes it to `inbound`, `receive`
looks up the channel in the broker and pushes it onto the channel's `inputChan`,
the channel validates it, runs the plugin and answers the same way back.

What makes each part correct:

* the datachannel is a pipe: what the daemon's plugin sends arrives at the
  agent's plugin once, in order, without a gap, whatever is lost, refused,
  mispredicted or expired; no goroutine blocks for ever on a queue; a killed
  channel ends;
* a connection writes each message once and in order over all its websockets,
  reconnects when it loses one, flushes before it closes, and its close
  completes and takes its channels with it;
* the tracker holds what the server has still to answer, neither more nor less;
* the control channel's table names the connections that are open; the agent
  restarts when the node no longer answers, and not when it merely lost its
  websocket; how it ended is written down for the next process;
* the configuration changes by whole updates, though a service and commands
  save it at the same time and may crash; a service runs as a registered agent;
* a session of a plugin brings what one end wrote to the other in order; who
  takes the stream to be over has all of it; an end at either side ends both;
  nothing is closed twice, and nothing waits for ever.

## The modules and the code

| Module | Models | Notes |
|---|---|---|
| `MrtapMessage` | `bzerolib/mrtap/message`, `bzerolib/error` | a message is a record; its hash is its identity, an ack's hash is the pair of what it acks and whether it carries a response, which is what the daemon predicts |
| `DaemonMrtap` | `bctl/daemon/mrtap/mrtap.go` | every method runs under `stateLock`: one operator each |
| `DaemonDataChannel` | `bctl/daemon/datachannel/datachannel.go` | one action per step of the main, sender and zap goroutines; `calling` is the method of the plugin (ReceiveMrtap or ReceiveStream, Kill) that the main goroutine is inside of, and it does nothing else until the plugin returns |
| `AgentDataChannel` | `bctl/agent/datachannel`, `bctl/agent/mrtap` | signatures and IdP checks become: is the certificate the one of the last Syn, and has it expired; `queued` and `late` are the answers and the stream messages left in outputChan (`OutputCap`) when the goroutine that empties it has returned |
| `OrderedPipe` | - | what a channel promises: payloads arrive in order, once, and without a gap from the first one that arrives |
| `MrtapChannel` | composition over an unreliable connection | `Env` chooses what may go wrong; `Pipe == INSTANCE OrderedPipe` is the refinement |
| `MCMrtapChannel`, `MrtapChannelProofs` | instances, proofs | from the messages under way to what the plugin receives |
| `SignalR` | `signalr.go`, `invocation.go`, `websocket.go` | the client's tomb with the state "fresh" (no goroutine yet), which `Alive()` does not tell from a running one |
| `Connection` | the three connections and `broker.go`, with their channels | `Role` chooses the connection; a channel is its tomb, the length of its inputChan and what it sends |
| `MCConnection`, `ConnectionProofs` | instances, proofs | |
| `ControlChannel` | `agent/controlchannel/controlchannel.go` | main goroutine, heartbeats, a goroutine per message, the table of data connections; `MapRaces`: a range over the table while another goroutine writes it |
| `Agent` | `agent/agent.go`, `agent/main.go` | extends `ControlChannel` with Run, the monitor, the shutdown and the next process; `MapRace` is the Go runtime's abort of such a range, which may or may not come |
| `MCAgent`, `AgentProofs` | instances, proofs | scenes: what may happen together |
| `AtomicConfig` | - | what a store promises: one whole update at a time, or a wipe |
| `ConfigStore` | `agent/config/client`, `agent/config/agentconfig`, `agent/config/keyshardconfig` | fetch, change, save with the version check; a file under a file lock, or a Kubernetes secret; the data and the updates are parameters |
| `ConfigStoreProofs` | proofs | the store implements `AtomicConfig` |
| `KeyShards` | `agent/config/keyshardconfig/data` | the list of key shards and the edits of it, as operators |
| `Registration`, `MCRegistration`, `RegistrationProofs` | `agent/registration`, `agent/main.go`, `agentidentity` | the service and the commands around two instances' worth of updates of `ConfigStore` |
| `Session` | the parts of both datachannels a plugin sees | client, daemon's action, outbox, pipe, agent's action, target; tombs; the frame of every plugin |
| `DbPlugin`, `SshPlugin`, `ShellPlugin`, `WebPlugin`, `KubePlugin`, `KubePortForward` | `daemon/plugin/*`, `agent/plugin/*` | one action per step of each goroutine, both ends |
| `RingBuffer`, `RingBufferProofs` | `bzerolib/ringbuffer` | as operators on a record; proved against "the last n bytes written" |
| `Plugins`, `MCPlugins`, `PluginsProofs`, `PluginsOrderProofs` | composition, instances, proofs | a session of any one kind; the second proof module extends the first and is about the way from the target to the client |

`Session` stands on `MrtapChannel`: its `up` is the ordered pipe that
`ImplementsPipe` shows a datachannel to be, and acks matter only in that they
free the window (`PipeCap`).  `down` carries acks, errors and stream messages;
those may overtake one another where a session's `reorder` says so, which is only
asked of actions that number their stream messages.  `d` and `a` are records
with the state of the daemon's and the agent's side: `d.dc`, `a.dc` and `a.input`
are the datachannels' goroutines, `go` those of the action's tomb, `handler` the
http handler an action runs in, `act` what StartAction has got to, `done` that
doneChan is closed, `panic` that a closed channel was closed or a nil pointer
used.  `unread` counts what is in the agent's streamOutputChan when the goroutine
that forwards it has returned, which it does as soon as the datachannel is dying: a
reader of the action may then block on it for ever, and plugin.Kill with it.  Only
one kind of session exists in a behaviour; `scene` fixes it.

In `MrtapChannel` the connection is a pair of queues that may lose messages
(`Send` logs an error and goes on); in `Connection` the channels are reduced to
what the connection sees of them.  The two meet at `Send`, `Receive` and `Close`:
`MuteFits` and `CloseReturns` are what `Connection` assumes of a channel of the
daemon or the agent (its channels end once they are killed, or the agent's
closeTimeout passes), loss only by a broken websocket and order (`SentInOrder`) is
what `MrtapChannel` assumes of a connection.  `CloseReturns` in turn has a premise
about the plugin, `PluginsReturn`: the calls that the main goroutine makes return.
`Plugins` is where that is looked at, and finding 3 is where it fails.

The definitions keep the code's names.  Names ending in a description of a
fault (`SendNextPeeks`, `ToResendInclusive`, ...) are faulty variants, used only
to show that a property can fail.  Comments state where a definition abstracts.
Payloads, JSON, logging and error texts are left out throughout.

## Runs

Passing:

| Run | Shows |
|---|---|
| `mrtap_loss` | requests and replies lost, acks mispredicted, certificate expired or refreshed elsewhere: delivery stays contiguous as long as no reply was lost (`DeliveredContiguous`), what was not accepted stays in the pipeline (`NothingForgotten`), the pushes under the lock find room (`OutboxFits`), `Inbox` always has something to build on (`InboxCanBuild`), and an agent channel whose plugin is done finds room for its answers, with one late stream message beside them (`MuteFits`) |
| `mrtap_live` | a daemon attaches, with stale replies on the wire; then every order of plugins ending or failing and closes: the channel implements `OrderedPipe` (`ImplementsPipe`); if the plugin's calls return, every payload arrives (`EventuallyDelivered`) and every close ends (`CloseReturns`) |
| `conn` | each of the three connections in its whole environment: once and in order (`SentInOrder`), nothing awaited in vain (`TrackedIsAwaited`), the queue flushed (`Flushed`), the farewell of each channel closed for the connection before the connection's (`NotifiedLast`); the daemon's channels may also stop by themselves |
| `conn_live` | a killed connection ends (`CloseCompletes`) and takes its channels along (`ChannelsDie`), those that failed to open and those opened after `broker.Close` included |
| `agent` | no restart for want of pongs that were not asked for (`NoHastyRestart`), a restart when the node is silent (`Watchdog`), a signal ends the process (`SignalEnds`), a restart that was asked for is recorded as one (`RestartIsQualified`); the table of connections is right while goroutines open, close and end them (`TableIsLive`, `OpenIsNamed`), and the closing range reaches all that were open although another is opened or ends during it, unless the runtime aborts the process (`ClosesWhatWasOpen`) |
| `config` | service and command save to one store with crashes, forced registrations, refused requests and expiring tokens: whole updates only (`NoLostUpdate`, the refinement of `AtomicConfig`), edits of key shards have their effect (`EditTakesEffect`), the service runs registered (`RunsRegistered`) and wakes when told (`WakesOnEvent`) |
| `plugins` | sessions of all twelve actions: bytes in order at both ends (`InOrder`), the end of a stream after all of it (`EndIsEnd`, `CloseIsEnd`; `InOrder` and `EndIsEnd` not of a portforward whose messages are reordered, row 18), one close of doneChan in the seven actions that guard it (`NoPanic`), every host key that the agent could read before the first byte (`HostKeysFirst`), no gap for a daemon that attaches to a shell (`NoGap`), the ring buffer holds the last bytes (`RingHolds`) |
| `plugins_live` | a client that goes frees the target (`TargetFreed`), a target that goes ends the session (`SessionOver`) |

The runs that expect a violation are listed under
[What the runs found](#what-the-runs-found).  Every property of a passing run
has a mutant in `PROJECT.json`: the definition it names, replaced by the faulty
variant, makes TLC find the property violated.

## Bounds, environment and fairness

*MrTAP.*  The code's window of 8 is 2 (`PipelineLimit`), so that it fills, is
recovered from and fills again; outbox and input capacities follow from it as in
the code.  Up to 4 payloads, 2 recoveries, 2 losses, 1 expiry: a loss inside a
recovery from a loss is reached.  Ids grow and are bounded by these.  `OutputCap` is
the code's 10 beside its window of 8, in small: 4 beside 2; `MaxLate` bounds the
stream messages a mute channel still forwards.  `Env` names
the faults of a run.  The recoveries that lose
or repeat payloads (finding 1, observations 5 and 7) need a lost reply, a
refusal before the first DataAck, or a plugin that failed on a Data (which the
agent then has accepted and does not ack) followed by two recoveries; the passing
runs about contiguity leave out just those combinations, since their
consequence is known.  The runs have agents of version "2.1+"; older ones are
covered only by the theorems that name no version.  `mrtap_live` starts with a channel the agent has,
the other runs open one.

*Connections.*  Capacities of 50 and 200 are 1 or 2, so that every queue fills;
`MaxMessages`, `MaxInvocations` and `MaxBreaks` bound what channels, the node and
the network do.  A message carries whether it was submitted while the connection
was alive (`due`), which no action reads.  There is one channel:
the broker treats channels one by one, and the theorems hold for any set.  In
the liveness run the queues have room and the websocket holds: without the
first, observations 6 and 10 apply, without the second, finding 2.

*Agent.*  Five scenes, each with the happenings that act together: messages and
connections that end, with one connection id used by two messages, so that a second
OpenWebsocket meets the first; two ids and three messages, which open connections
and ask for a restart, so that the range over the table has another entry to come or
go; a silent node with breaks of the connection; restarts asked for; crashes and the
next process.  The second scene is over before the next heartbeat (no "minutes").
`HeartbeatsDue` is how many heartbeats fall into bastionDisconnectTimeout.

*Configuration.*  One service and one command, two registrations, two key shards
for one target, seven writes.  No two writes fall into one millisecond: the
theorem assumes that too, and observation 13 is what happens otherwise.

*Plugins.*  A session has up to two chunks in one direction or one in each (three
from an attached shell), an outbox and a window of 1 (an outbox of 3 in
`plugins_live`, where room is what the property needs), a ring of 2.  The agent's
streamOutputChan and what is on its way hold 2 messages, in `plugins_live` 1, so that
readers block on it; so at most 2 of the 4 files with host keys (`HostKeyFiles`) are
read in a run, the theorem has them all.  An exec gets one terminal size (`MaxResizes`).  `failures` are what may go wrong:
the target refuses or breaks, a write or a deadline fails, Close is called.  A
kube port-forward session forwards one connection; its scenes split the failures
among them to stay small.  Sizes beyond this find the observations below.  A
window of 1 hides one case that the proof of `ClosesAreComplete` met: a
datachannel that goes away at the daemon's side with two messages in the pipe lets
opaque ssh drop the Input and take the Close, since CloseDataChannel has overtaken
both; `CloseIsEnd` excepts a dying agent channel for that reason.

*Deadlock* is not checked: a channel, a connection or a session that has ended
stops.

*Fairness.*  Each goroutine is weakly fair: Go's scheduler is preemptive.  Cases
of a `select` that stay ready in a loop (the main loop's dying and
`client.Done()`, a datachannel's dying and the timer of its drain between two calls
of the plugin, the monitor's, the service's wake-up) are strongly fair, since
`select` picks at random among the ready cases.  The return of a plugin's method is
no fair step: `EventuallyDelivered` and `CloseReturns` have it as their premise
(`PluginsReturn`), and in `Plugins` it is whatever the action's goroutines make of it.  Timeouts that the code always
sets (closeTimeout, the drain's, the endgame's minute, a self-close's) are fair
steps; timeouts of idle users, the network, the node, users, targets and
clients are not, and nobody has to call Close.

## Proofs

The theorems hold for every value of the constants that satisfies the named
assumptions (`MrtapAssumption`, `ChannelAssumption`, `EnvAssumption`,
`InboundAssumption`, `ConnectionAssumption`, `AgentAssumption`,
`RegistrationAssumption`, `RingAssumption` and the like: capacities are positive
numbers, bounds are numbers, the environment is one of the kinds named).  A
theorem that needs more says so in its own ASSUME; the hypotheses are given below
with the reason.  TLC checked the inductive invariants on small instances first.

| Theorem | Property | Inductive invariant | Hypotheses |
|---|---|---|---|
| `MrtapChannelProofs.TypeCorrect` | `TypeOK` | itself | |
| `InboxNeverDrops` | `InboxCanBuild` | `HandshakeInv` | |
| `OutboxNeverFull` | `OutboxFits` | `MapInv`, `LengthInv` | no agent of version 1; fewer handshake retries than the window |
| `DeliversContiguously` | `DeliveredContiguous` | `PipeInv` | agent 2.1+, no failing plugin |
| `NothingIsForgotten` | `NothingForgotten` | `PipeInv` | the same |
| `ChannelIsPipe` | `ImplementsPipe` | `PipeInv`, `CountInv` | the same, no reply lost |
| `MuteNeverFills` | `MuteFits` | `MuteInv` | no agent of version 1; fewer handshake retries than the window |
| `ConnectionProofs.TypeCorrect` | `TypeOK` | `TypeInv` | |
| `SendsInOrder` | `SentInOrder` | `OrderInv` | |
| `TrackedAreAwaited` | `TrackedIsAwaited` | `TrackInv` | |
| `QueueIsFlushed` | `Flushed` | `FlushInv` | |
| `NoticeIsLast` | `NotifiedLast` | `WaitInv`, `LastInv` | |
| `AgentProofs.TypesHold` | `TypeOK` | itself | |
| `RestartsAreQualified` | `RestartIsQualified` | `ReasonInv` | |
| `RestartsAreNotHasty` | `NoHastyRestart` | `PongInv` | |
| `TableNamesTheLiving`, `OpenConnectionsAreNamed`, `RangeClosesAll` | `TableIsLive`, `OpenIsNamed`, `ClosesWhatWasOpen` | `TableInv` | |
| `ConfigStoreProofs.StoreIsAtomic` | `NoLostUpdate` of `ConfigStore` | `IInv` | `Sane` |
| `RegistrationProofs.UpdatesAreWhole` | `NoLostUpdate` | `ProgInv`, `IInv` | `Sane` |
| `ServiceIsRegistered` | `RunsRegistered` | `RegInv` | `Sane` |
| `RingBufferProofs.WriteKeepsHistory`, `ReadAllIsLast` | - | `RingOK` | |
| `PluginsProofs.ActionsDoNotPanic` | `NoPanic` | `OpenerInv`, `PanicInv` | |
| `KeysComeFirst` | `HostKeysFirst` | `KeysInv` | opaque ssh scenes keep their order |
| `RingHoldsTheLast` | `RingHolds` | `RingInv` | |
| `AttachedSeesNoGap` | `NoGap` | `GapInv` | attach scenes keep their order |
| `ClosesAreComplete` | `CloseIsEnd` | `UpInv` | the seven kinds that do not panic |
| `PluginsOrderProofs.SessionsAreInOrder` | `InOrder` | `UpInv`; `DownInv`, `FreshInv`, `ReplayInv`; `NumberInv` | the same; kinds without numbers keep their order |
| `EndsAreComplete` | `EndIsEnd` | `DownInv`, `FreshInv`, `ReplayInv`; `NumberInv` | the same |

### The MrTAP channel

* `InboxCanBuild` is not inductive: that the newest message of the pipeline is a
  Data, or that an ack is at hand, depends on the handshake.  `HandshakeInv` adds
  what it leaves behind: ids are positive, so that a message's hash is never the
  absent one, and a completed handshake has left a real ack and only Data in the
  pipeline.
* `OutboxNeverFull`.  `Inbox` looks at the length of the map, never at the queue
  it pushes onto; `BuildSyn` and `resend` look at nothing.  The queue fits
  because it is the end of the map (`QueueInv`: the ids of the map ascend, the
  outbox is its end; so what is acked has left the outbox), and the map is
  bounded by the window once the handshake is done and by the retries before
  (`LengthInv`).  A SynAck is where this could break: `resend` pushes the whole
  new map, so the outbox must be empty by then.  `SynInv` says it is: a Syn under
  way, or its SynAck, is of the message built last.  That holds since errors of
  agents newer than version 1 are checked against the map; an error of a version
  1 agent is not, and there may be two Syns under way.  `OpeningInv` says the same
  of the first handshake, with its retries; `SentInv` and `RisingInv` say that
  whatever is under way is older than the outbox and was built in the order in
  which it is answered.  The code's window is 8 and it retries 3 times.
  Every action is shown to be one of nine moves (`Moves`), and each conjunct is
  kept by each move.
* The second half of the module shows what the hash chain is for.  `Chain(n, k, j)`: of the
  pipeline the first n messages are Data, with the last n payloads piped; the
  agent has accepted the first k of them, and because each is built on the one
  before it can accept none but the next; the acks of the first j are under way,
  and j = k as long as the agent answers; the last payload delivered is that of
  the k-th, or of the Data acked last.  Accepting a Data raises k and j, an ack
  lowers n, k and j, `Inbox` raises n, and a SynAck, whose nonce names the last
  Data accepted, makes `resend` cut off just the first k: n falls by k, and the
  chain starts anew.  `Tracked` says that every Data under way is in the
  pipeline; the agent therefore never accepts a Data that the daemon has given
  up.  A lost reply breaks the chain (finding 1), which is why the chain is
  claimed for `~replyLost` only.  Agents before 2.1 do not set the nonce to the last
  Data, so that `resend` cannot follow it (observation 9).  A plugin that fails
  leaves a Data accepted and never acked: k goes ahead of j though the agent
  still answers, and `DeliveredContiguous` fails then (observation 7; TLC also
  shows it with a lost request in place of the expiry).
* `ChannelIsPipe`: a step that accepts a Data is `HandOver` of the next payload,
  a step of the plugin at the near end is a production, and all others leave the
  pipe alone.  `CountInv` adds that no more has been piped than produced.
* `MuteNeverFills`.  A mute agent channel answers into a queue of 10 that nobody
  reads, and late stream messages are forwarded into it; nothing on the agent's side
  counts, so the bound has to come from the daemon's window.  `MuteFits` is said for as
  long as the late ones leave room for the window and one more (with 10 and 8: one
  late message), since `LengthInv` has a recovery's Syn beside a full window;
  `MuteInv` bounds the answers.  `MuteInv`: the requests answered since the channel went mute
  are at most those in places c + 1 to c + queued of the daemon's pipeline
  (`Behind`).  What is still under way was built later, what was answered aloud
  before was built earlier, so no ack takes those places away, and a recovery gives
  them up only on a SynAck, which a mute channel does not send.
  The pipeline is bounded by `LengthInv`; with agents of version 1, whose errors
  are not matched with a message, that bound fails, hence the hypothesis.

### The connections

* `TypeInv = TypeOK /\ CallInv`.  `CallInv` says that a Send is in progress only
  while the main goroutine is in it, that the sender is busy only with a Send and
  that no more messages are counted by `sendRemainingMessages` than the queue
  holds; without it `Head(call)` and `Head(queue)` need not exist.
* `SendsInOrder`, by `OrderInv`: ids written are below the one being sent, that
  is below the queue's, and these ascend below the next one.  `OrderSteps` shows
  that every step leaves these four alone or submits, takes or writes one
  message; a lemma for each shows that it keeps the order.
* `TrackedAreAwaited`, by `TrackInv`: a tomb without goroutines has none, a fresh
  one tracks nothing, and what is tracked is unanswered or is the Send in
  progress.  So nothing of an earlier websocket is in the tracker of the next.
* `QueueIsFlushed`, by `FlushInv`: what `sendRemainingMessages` has not counted
  was submitted after the connection had begun to die.
* `NoticeIsLast`: the notice is submitted after `broker.Close` has waited for the
  channels.  Channels that die for another reason at that moment are not waited
  for, and their farewell may come after the notice, or not at all; `NotifiedLast`
  is about those that were closed for the connection, which are the ones
  `WaitInv` ties to the wait.

### The agent

* `ReasonInv` follows the error from where it arises (the control channel, the
  monitor) to what `Run` writes down.  `PongInv`: a heartbeat that found the
  connection down is remembered until the monitor has decided.
* `TableInv = JobInv /\ OpenIsNamed /\ RangeInv` is one invariant for three
  properties: a goroutine that waits for its connection made it; what the table
  names is waited for; and what the range over the table still has to close is
  in the table and not yet visited, although goroutines add and delete entries
  while it goes on.  The properties say nothing of a process that the Go runtime has
  aborted for such a write (`MapRace`, row 19).

### Configuration and registration

* `StoreIsAtomic`: `ConfigStore` implements `AtomicConfig` for any processes, data
  and updates and for both backends.  Saving is not atomic in the code, and
  `IInv` says why it looks so: a process that is at a save holds in memory its
  update of what it fetched; as long as the version is the one it saw, what it
  fetched is what is there and nobody else is saving; and while the file is
  truncated its lock is held.  `Sane` asks that updates take data to data
  (`IsConfig`), that the marks for a missing file and for nobody are no data and
  no process, and that no two writes get one version (`~CanTie`), which is the file's modification time in
  milliseconds or the secret's resource version; observation 13 is what happens
  otherwise.
* `UpdatesAreWhole` shows that the programs around the store, which crash and are
  run again, meet what `StoreIsAtomic` asks for, and takes its refinement over.
* `ServiceIsRegistered`, by `RegInv`: every update that is under way was worked
  out on data that had the registration which the service has seen.  `RunsRegistered`
  leaves out scenes in which a store is created twice or a process dies in a save:
  both can empty the file (`Wipe`), and then a service that runs is not registered.

### The plugins

* `ActionsDoNotPanic`: `OpenerInv` says that the message which makes the agent's
  action start its reader is under way at most once, so that only one goroutine
  ever closes doneChan there; `PanicInv` ties each close to the end of the
  goroutine that makes it.  It is about the kinds that `NoPanic` names.
* `KeysComeFirst`, by `KeysInv`: the agent remembers how many host keys it could
  read and sent, from none to four, and the daemon how many it has taken.  `KeysFirst`
  says of the messages to the daemon, the one its data channel holds and those on
  their way, that the keys stand before any output and that there are as many of them
  as the daemon still has to take; before the agent has handled the opening message
  there is nothing at all (`NothingComes`).  That the theorem speaks of the keys the
  agent could read is the code's own condition: a file that cannot be read is logged
  and skipped, and if there is none the bytes come without a key (row 22).
* `RingHoldsTheLast` uses the theorems of `RingBufferProofs` (a write is split
  into those longer than the buffer and those that fit, wrap, or fill it exactly)
  for the ring in the shell, whose history is all the output so far.
* `AttachedSeesNoGap`, by `GapInv`: along the queue to the daemon runs a function f
  from positions to the last chunk that will have been shown there; replayed
  output and new output each bring the daemon up to f of the next position,
  whichever was sent first.  Output that overtakes the replay breaks it, since the
  daemon's shell does not look at sequence numbers: hence the hypothesis on order.
* `ClosesAreComplete`, `SessionsAreInOrder` and `EndsAreComplete` are about the
  seven kinds of `Careful`, the ones that `ActionsDoNotPanic` is about, in
  sessions of any length.  None of the three properties says where the chunks are
  that have not come, and every step of a session moves some.  `Run(s, lo, hi)`
  says it for a queue: along the messages of s there are numbers from lo to hi
  such that each message carries the chunks between its two, and the message that
  ends a direction stands where its sender had got to.
  * Up, `UpInv`: what the target has got, what the agent keeps (stdin of exec, the
    body of a web request), the pipe, the outbox and the keys the shell has not
    sent are one run from the first chunk to the last one read, and that is what
    makes the Close that follows the last chunk complete (`StopInv`).  Where
    something has broken (`UpBlocked`) there is no such run, but then nothing on
    its way is written any more.  `ConnInv` is what says so for a database whose
    connection the agent has not opened yet: the message that opens it comes first.
  * Down, `DownInv`, for pwdb, opaque ssh, shell and kube exec, whose daemon side
    shows what comes as it comes: the same run from the client's last chunk
    through the action's queue, the message its data channel holds and the wire up to
    the agent's reader.  `FreshInv` and `ReplayInv` (no message before the
    action has started, no replay for a shell that was not attached to) keep the
    ends of that run in place.  An Error of exec may leave chunks out: nothing
    after it is looked at (`Carries`).
  * Down, `NumberInv`, for dial and webdial, whose messages overtake one another:
    no run there, each message is placed by its number instead (`Placed`), the
    chunk it carries being the one after it, and only the end has the number of
    the chunks themselves.  `SeqInv` says how the agent numbers, `NextInv` that
    the client has just the chunks before the number waited for.  After an error
    of the target webdial goes on numbering messages that carry nothing
    (`SendingOver`).

  Overtaking is asked of numbered kinds only, in the runs by the choice of scenes
  and in the theorems by the hypothesis.  A shell is not told when the client is
  done, so `CloseIsEnd` says nothing new of it; `EndIsEnd` leaves shells out, whose
  end is not the end of a stream of known length.

### Only model-checked

Liveness (`EventuallyDelivered`, `CloseReturns`, `CloseCompletes`, `ChannelsDie`,
`Watchdog`, `SignalEnds`, `WakesOnEvent`, `TargetFreed`, `SessionOver`): the
prover has no fairness and no ENABLED.  `EditTakesEffect`: what the edits of a
list of key shards compute is induction over the list.  `InOrder`, `EndIsEnd`
and `CloseIsEnd` for the five kinds of session whose actions can panic
(transparent ssh, webwebsocket, kube restapi, kube stream, port forwarding): a
panic ends a goroutine in the middle of what it does, the port forwarder breaks
the first two anyway (row 18 below), and the theorems would have to say for each
kind how far they go.  The runs that expect a violation are counterexamples and need no proof.

## What the runs found

| # | Run | What the code does |
|---|---|---|
| 1 | `mrtap_ack_lost` | an ack lost while a later one arrives leaves its Data to be resent: delivered twice |
| 2 | `conn_send_stuck` | a Send that starts after the sender goroutine ended never returns, and the connection never reconnects |
| 3 | `plugin_stuck` | a datachannel closed while its plugin's outbox is full, or while pwdb connects, never ends |
| 4 | `kube_stream_end` | the agent ends a Kubernetes stream with a type of message the daemon's action does not handle |

`PROJECT.json` quotes the line of the repository that each of them contradicts.

The models reach more states of this kind.  They are not a run each; the formula
put into the configuration named, in place of its properties and with the change
given, shows them.

| # | Where | What the code does | How to see it |
|---|---|---|---|
| 5 | `daemon/mrtap/mrtap.go:159` | a recovery before the first DataAck forgets the pipeline: a payload is lost | `NothingLostAtStart`, `MrtapAckLost.cfg` |
| 6 | `broker.go:83` | a channel that ends while its inputChan is full blocks receive, and the broker's lock, for ever | `ReceiveProgresses`, `ConnReconnect.cfg` with `Surroundings <- DaemonStops` |
| 7 | `mrtap.go:194` | `resend` follows a nonce that names an unacked Data, one the agent's plugin failed on, but does not record it as acked; a second recovery before the next ack finds a nonce it does not know and drops the pipeline | `DeliveredContiguous`, `MrtapLive.cfg` with `"expire"` and `MaxExpiries = 1` |
| 8 | `daemon/datachannel.go:233` | the drain misses a payload between the plugin's outbox and the pipeline | `exit = "drained" => ~zapHolds`, `MrtapLive.cfg` |
| 9 | `mrtap.go:186` | with old agents a refused Syn comes back as Data | `\A i \in DOMAIN delivered : delivered[i] # 0`, `MrtapLoss.cfg` with `AgentVersion = "2.0"` |
| 10 | `daemon/servers/dataconnection/connection.go:157` | closing with a full sendQueue deadlocks with the channels' farewells | `CloseCompletes`, `ConnLive.cfg` with `QueueCap = 1` and a "daemon" that is closed |
| 11 | `agent/controlconnection/connection.go:112` | closing a control connection that is not yet connected never completes | `CloseCompletes`, `ConnLive.cfg` with a "control" connection |
| 12 | `daemon/servers/dataconnection/connection.go:389`, `signalr/invocation.go:55` | a stale AgentConnected ends the wait on the next websocket; a completion of the old websocket untracks a message of the new one | `[][sent' # sent => announced]_vars` and `TrackedIsAwaited` turned round, `Conn.cfg` |
| 13 | `filestore.go:155` | two saves in one millisecond are not told apart: one undoes the other | `NoLostUpdate`, `Registration.cfg` with `CanTie <- TRUE` in `Registration` |
| 14 | `filestore.go:213` | a registration saved between the service's load and its watch is not noticed | `WaitEnds`, `Registration.cfg` with `Scenes <- PlainScene` |
| 15 | `agentconfig.go:144` | a token asked for before a forced registration is saved beside it | `TokenOfRegistration`, `Registration.cfg` with `Scenes <- ForcedScene` |
| 16 | `agent.go:91` | the report of a restart may use a client that has not been made yet; the process ends, and so does the next | `ReportsRestart`, `Agent.cfg` with `Scenes <- RestartScene` |
| 17 | `agent/plugin/ssh/actions/transparentssh:159` | a download is reported as a success before its last bytes have come | `DownloadComplete`, `Plugins.cfg` with `Scenes <- DownloadScenes` |
| 18 | `daemon/plugin/kube/actions/portforward:405` | after a reordering the port forwarder skips a number: with three chunks the end is taken before the last, with four the third is left out.  `InOrder` and `EndIsEnd` therefore exclude such sessions (`Scrambled`) | `EndIsEnd` without `~Scrambled`, `Plugins.cfg` with `Scenes <- GapScenes`; `InOrder` without it and with one chunk more |
| 19 | `agent/controlchannel/controlchannel.go:187`, `:430` | both ranges over the table are made without connectionsLock: Go may end the process when another goroutine writes the table meanwhile | `~(Serving /\ MapRaces)`, `Agent.cfg` |
| 20 | `agent/datachannel/datachannel.go:135`, `:309` | a plugin that is done and still has stream messages to forward fills outputChan: one of them fits beside the daemon's window (`MuteFits`), with three the channel and the connection's receive block | `MuteFits` without its second conjunct, `MrtapLoss.cfg` with `MaxLate = 3` |
| 21 | `agent/datachannel/datachannel.go:308` | streamOutputChan has no reader once the datachannel is dying: a reader of the action that blocks on it keeps plugin.Kill waiting; the agent's Close gives up after closeTimeout and the goroutines stay | `(a.dc = "kill") ~> (a.dc # "kill")`, `PluginsLive.cfg` |
| 22 | `agent/plugin/ssh/actions/opaquessh/opaquessh.go:125` | when no host key can be read the session goes on, and the local ssh gets bytes without a key to check | `Kind = "opaque" /\ client.got # <<>> => d.next > 0`, `Plugins.cfg` |
| 23 | `agent/plugin/kube/actions/exec/exec.go:125` | a terminal size for an exec without stdin, or whose stream failed, finds no reader of execResizeChannel: when it is full the agent's input goroutine blocks and acks nothing more | `a.input # "stuck"`, `Plugins.cfg` |

The plugins' properties name the actions they leave out, because the code does
not keep them there:

* `NoPanic`: doneChan can be closed twice by `TransparentSsh.Kill`, by both ends
  of `WebWebsocketAction.Start`, and by `Kill` of kube stream and restapi after
  the handler closed it; the agent's webwebsocket writes to a nil websocket
  after a failed dial, and its portforward waits on a nil connection.
* `SessionOver`: a write to the target that fails ends the agent's action
  without a message (`dial.go:111`, `opaquessh.go`); a kube stream is finding 4.
* Waits nobody ends, each reached in the model: `RestApiAction.ReceiveMrtap` after
  its request was cancelled (`restapi.go:60`); `StdReader.Close` after the
  command stopped reading (`exec.go:85`); the stream action's wait for headers
  after a timeout (`stream.go:133`); the port forwarder's unbuffered channels
  (`portforward.go:138`, `portforwardaction.go:115`), its wait for Ready
  (`portforward.go:173`) and its Kill, which waits for readers before it closes
  what they read (`portforwardaction.go:81`).
* The end of a forwarded connection's error stream ends the request with data
  unread and no message to the daemon (`portforwardrequest.go:175`).

Known limits that no property covers, because nothing in the code promises
otherwise: while recovering, errors are ignored and a lost or refused recovery
Syn is not repeated (`mrtap.go:119`); there is no retransmission timer, so a last
Data that is lost stays in the pipeline (`datachannel.go:256`); `Release` wakes
`Inbox` once only, and a full window makes it wait again (`mrtap.go:302`); a
daemon connection that gives up does not close its broker
(`connection.go:186`); on its timeout waitForAgentReady waits 60s for itself
(`connection.go:391`); the agent's receive can wait on the idle timer's empty
channel once its connection is dying (`connection.go:263`); a second
OpenWebsocket with an id that is in use takes the first one's place in the table
(`controlchannel.go:375`); a message that fails while nobody reads
runtimeErrChan leaves its goroutine behind (`controlchannel.go:200`);
`NewFileStore` creates the file without the lock and can empty one that was saved
in between, and a crash in a save leaves it empty (`filestore.go:62`, `:161`;
`AtomicConfig` has both as `Wipe`).

One more divergence shows without a run: the header of the agent's data
connection says "we do not attempt to reconnect on disconnect", and its loop
does (`connection.go:169-175`, and its tests).

## Not modelled, and why

Cryptography (signatures, OIDC verification, threshold keys), JSON, HTTP
requests (the bastion client), logging and reports have no state machine to
check; where they can fail, the failure is an alternative of the action that
calls them.  RBAC checks, Unix user management, the authorized_keys file,
known_hosts and start-up code call the operating system or an API and return.
The daemon's servers (one datachannel per local connection) and its main with
its exit codes are left for the plan.

Within the modelled parts: the capacity of the transport's own inbound channel
(200) is not bounded, only what survives a reconnect is kept; an agent channel id
is opened once; DaemonConnected changes the length of the idle timer, which has
no length here; `Broadcast` has no caller; RetrieveLogs and Configure are jobs
that succeed or fail; older JSON formats of the configuration, the psql TLS
proxying of pwdb, raw terminals, what a terminal size is, stderr of exec, and the
content of a forwarded connection's error stream are left out.  In the table of
data connections every access is one step; that the unlocked ranges over it
collide with a write is a step of its own, `MapRace`.

## Plan

1. Proofs for the five kinds of session that can panic, once the panics are
   mended: `UpInv` and `NumberInv` are stated so that a kind is added to them by
   its own lemmas.
2. `DaemonServers`: one datachannel per local connection, and what becomes of
   channels whose connection gave up.
3. The authorized_keys file: entries added and expiring while several sessions
   and another process write it.
