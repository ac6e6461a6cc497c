----------------------------- MODULE Registration -----------------------------
(***************************************************************************)
(* The processes of an agent around its configuration: the service, which  *)
(* waits for a registration, runs, keeps its identity token fresh and      *)
(* notes its version and shutdown; the command that registers the agent,   *)
(* once or again by force; and, on the key shards, the service that is     *)
(* sent shards and the command that edits them.  A registration is the     *)
(* number of its key pair; a token, the number of the registration that it *)
(* was issued for.  The node that issues both is external.                 *)
(***************************************************************************)
EXTENDS KeyShards

CONSTANTS
  MaxRegs,       \* bound: registrations
  MaxVersion,    \* bound: writes to the store
  Keys, Targets, \* key shards
  NoSave, Absent, NoProc,
  Scenes         \* what may happen, see scene

Happenings == {"absent", "force", "crash", "fails", "expires", "edits"}

ASSUME RegistrationAssumption ==
  /\ MaxRegs \in Nat /\ MaxVersion \in Nat
  /\ \A s \in Scenes : s.backend \in {"file", "secret"} /\ s.env \subseteq Happenings

Service == "service"
Command == "command"
Procs == {Service, Command}
NoReg == 0

VARIABLES
  scene,      \* bounds: the store and what may happen; never changes
  prog,       \* prog[p]: where the program of p is
  known,      \* the registrations the node knows of
  fresh,      \* fresh[p]: the registration p is making
  watch,      \* the service's file watcher: "off", "on" or "event"
  ask,        \* the registration the service asks a token for, or NoReg
  backend, file, version, flock, pc, upd, snap, seen, mem, res

progVars == <<scene, prog, known, fresh, watch, ask>>
vars == <<progVars, backend, file, version, flock, pc, upd, snap, seen, mem, res>>

-----------------------------------------------------------------------------
(* The data and its updates: the agent's configuration and the key shards. *)
(* They are in stores of their own; a scene uses one of the two.           *)

Empty == [reg |-> NoReg, token |-> NoReg, jwks |-> {}, note |-> "none",
          keys |-> <<>>]

SetRegistrationData(c, r) ==
  [c EXCEPT !.reg = r, !.token = NoReg, !.jwks = @ \union {"registered"}]

SetAgentIdentityToken(c, r) == [c EXCEPT !.token = r]

SetServiceAccountJwksUrl(c, url) ==
  IF url \in c.jwks THEN NoSave ELSE [c EXCEPT !.jwks = @ \union {url}]

\* SetVersion and SetShutdownInfo.
SetVersion(c, note) == [c EXCEPT !.note = note]

WithKeys(c, keys) == IF keys = NoSave THEN NoSave ELSE [c EXCEPT !.keys = keys]

Entries == {[key |-> k, targets |-> ts] : k \in Keys,
            ts \in {<<t>> : t \in Targets} \union {<<t, t>> : t \in Targets}}
Edits ==
  {<<"addKey", e>> : e \in Entries} \union {<<"addTarget", t>> : t \in Targets}
    \union {<<"delete", t>> : t \in Targets} \union {<<"clear">>}
Updates ==
  {<<"register", r>> : r \in 1..MaxRegs} \union {<<"token", r>> : r \in 1..MaxRegs}
    \union {<<"jwks", "configured">>}
    \union {<<"note", n>> : n \in {"version", "shutdown"}} \union Edits

Apply(u, c) ==
  CASE u[1] = "register" -> SetRegistrationData(c, u[2])
    [] u[1] = "token" -> SetAgentIdentityToken(c, u[2])
    [] u[1] = "jwks" -> SetServiceAccountJwksUrl(c, u[2])
    [] u[1] = "note" -> SetVersion(c, u[2])
    [] u[1] = "addKey" -> WithKeys(c, AddKey(c.keys, u[2], NoSave))
    [] u[1] = "addTarget" -> WithKeys(c, AddTarget(c.keys, u[2], NoSave))
    [] u[1] = "delete" -> WithKeys(c, DeleteTarget(c.keys, u[2], NoSave))
    [] u[1] = "clear" -> WithKeys(c, Clear(c.keys, NoSave))

Store == INSTANCE ConfigStore WITH CanTie <- FALSE

storeVars == <<backend, file, version, flock, pc, upd, snap, seen, mem, res>>

Can(what) == what \in scene.env
Editing == Can("edits")

Init ==
  /\ scene \in Scenes
  /\ backend = scene.backend
  /\ file = IF Can("absent") THEN Absent ELSE Empty
  /\ version = 0 /\ flock = NoProc
  /\ pc = [p \in Procs |-> "idle"] /\ upd = [p \in Procs |-> NoSave]
  /\ snap = [p \in Procs |-> Empty] /\ seen = [p \in Procs |-> 0]
  /\ mem = [p \in Procs |-> Empty] /\ res = [p \in Procs |-> "none"]
  /\ prog = [p \in Procs |-> "off"] /\ known = {}
  /\ fresh = [p \in Procs |-> NoReg] /\ watch = "off" /\ ask = NoReg

At(p, where) == prog[p] = where /\ pc[p] = "idle"
Goto(p, where) == prog' = [prog EXCEPT ![p] = where]

-----------------------------------------------------------------------------
(* Starting up.                                                            *)

\* The program of p is run again: main.
Run(p) ==
  /\ At(p, "off") /\ Goto(p, "open")
  /\ fresh' = [fresh EXCEPT ![p] = NoReg]
  /\ Store!Die(p)
  /\ UNCHANGED <<scene, known, watch, ask>>

OpenAbsent(p) ==
  /\ At(p, "open") /\ Store!OpenAbsent(p)
  /\ UNCHANGED progVars

\* Faulty variant: a service that finds no registration runs all the same.
AfterLoadBlind(p, registered) ==
  IF Editing THEN "edit"
  ELSE IF p = Command THEN IF registered /\ ~Can("force") THEN "off" ELSE "phone"
  ELSE "version"

\* Where a process goes on with what it has loaded: NewAgent, NewKubeAgent and
\* getKeyShardConfig.
AfterLoad(p, registered) ==
  IF Editing THEN "edit"
  ELSE IF p = Command THEN IF registered /\ ~Can("force") THEN "off" ELSE "phone"
  ELSE IF registered THEN "version"
  ELSE IF backend = "file" THEN "watch" ELSE "phone"

Load(p) ==
  /\ At(p, "open") /\ Store!Load(p)
  /\ Goto(p, AfterLoad(p, file.reg # NoReg))
  /\ UNCHANGED <<scene, known, fresh, watch, ask>>

-----------------------------------------------------------------------------
(* Waiting for a registration.                                             *)

\* watcher.Add: from now on there are events.
Watch ==
  /\ At(Service, "watch") /\ Goto(Service, "waiting")
  /\ watch' = "on"
  /\ UNCHANGED <<scene, known, fresh, ask, storeVars>>

\* Faulty variant: looks at what the process has loaded.
WakeBlind ==
  /\ At(Service, "waiting") /\ watch = "event" /\ Store!Unlocked
  /\ watch' = "on"
  /\ IF mem[Service].reg = NoReg THEN UNCHANGED prog ELSE Goto(Service, "reload")
  /\ UNCHANGED <<scene, known, fresh, ask, storeVars>>

\* An event: the file is fetched once more.
Wake ==
  /\ At(Service, "waiting") /\ watch = "event" /\ Store!Unlocked
  /\ watch' = "on"
  /\ IF file.reg = NoReg THEN UNCHANGED prog ELSE Goto(Service, "reload")
  /\ UNCHANGED <<scene, known, fresh, ask, storeVars>>

\* It is not registered after all: Register has neither key nor token.
Reload ==
  /\ At(Service, "reload") /\ Store!Load(Service)
  /\ Goto(Service, IF file.reg = NoReg THEN "off" ELSE "version")
  /\ watch' = "off"
  /\ UNCHANGED <<scene, known, fresh, ask>>

-----------------------------------------------------------------------------
(* Registering.                                                            *)

NextReg == Cardinality(known) + 1

\* phoneHome: the node learns of the new key pair.
PhoneHome(p) ==
  /\ At(p, "phone") /\ NextReg <= MaxRegs
  /\ known' = known \union {NextReg}
  /\ fresh' = [fresh EXCEPT ![p] = NextReg]
  /\ Goto(p, "save")
  /\ UNCHANGED <<scene, watch, ask, storeVars>>

\* It fails, although the node may have come to know it: an activation token
\* can be used once, and so the retry of a request whose answer is lost fails.
PhoneFails(p) ==
  /\ At(p, "phone") /\ (Can("fails") \/ NextReg > MaxRegs)
  /\ known' \in {known} \union {known \union {r} : r \in {NextReg} \intersect 1..MaxRegs}
  /\ Goto(p, "off")
  /\ UNCHANGED <<scene, fresh, watch, ask, storeVars>>

SaveRegistration(p) ==
  /\ At(p, "save") /\ Store!Fetch(p, <<"register", fresh[p]>>)
  /\ Goto(p, "saving")
  /\ UNCHANGED <<scene, known, fresh, watch, ask>>

-----------------------------------------------------------------------------
(* Running.                                                                *)

NoteVersion ==
  /\ At(Service, "version") /\ Store!Fetch(Service, <<"note", "version">>)
  /\ Goto(Service, "noting")
  /\ UNCHANGED <<scene, known, fresh, watch, ask>>

\* AgentIdentityProvider.Get finds no token, or one that has expired, and asks
\* for one with the keys it holds.
AskToken ==
  /\ prog[Service] = "serving" /\ ask = NoReg
  /\ mem[Service].token = NoReg \/ Can("expires")
  /\ mem[Service].reg \in known
  /\ ask' = mem[Service].reg
  /\ UNCHANGED <<scene, prog, known, fresh, watch, storeVars>>

SaveToken ==
  /\ At(Service, "serving") /\ ask # NoReg
  /\ Store!Fetch(Service, <<"token", ask>>)
  /\ ask' = NoReg
  /\ UNCHANGED <<scene, prog, known, fresh, watch>>

\* configureServiceAccount.
Configure ==
  /\ At(Service, "serving") /\ Store!Fetch(Service, <<"jwks", "configured">>)
  /\ UNCHANGED progVars

Shutdown ==
  /\ At(Service, "serving") /\ Store!Fetch(Service, <<"note", "shutdown">>)
  /\ Goto(Service, "stopping") /\ ask' = NoReg
  /\ UNCHANGED <<scene, known, fresh, watch>>

-----------------------------------------------------------------------------
(* Key shards.                                                             *)

\* The service is sent a shard.
AddShard ==
  /\ At(Service, "edit")
  /\ \E e \in Entries : Store!Fetch(Service, <<"addKey", e>>)
  /\ UNCHANGED progVars

\* The command goes on from one edit to the next as long as they succeed.
Edit ==
  /\ At(Command, "edit")
  /\ \E u \in Edits : Store!Fetch(Command, u)
  /\ Goto(Command, IF res'[Command] = "noop" THEN "off" ELSE "editing")
  /\ UNCHANGED <<scene, known, fresh, watch, ask>>

\* printKeyShardConfig, or the list of edits is done.
EditsDone ==
  /\ At(Command, "edit") /\ Goto(Command, "off")
  /\ UNCHANGED <<scene, known, fresh, watch, ask, storeVars>>

-----------------------------------------------------------------------------
(* The rest of an update.                                                  *)

\* Where the program goes on when its update has ended.
AfterUpdate(p, ok) ==
  CASE prog[p] = "open" -> IF ok THEN "open" ELSE "off"
    [] prog[p] = "saving" -> IF ok /\ p = Service THEN "reload" ELSE "off"
    [] prog[p] = "noting" -> IF ok THEN "serving" ELSE "off"
    [] prog[p] = "stopping" -> "off"
    [] prog[p] = "editing" -> IF ok THEN "edit" ELSE "off"
    [] OTHER -> prog[p]

SaveStep(p) ==
  /\ Store!SaveStep(p)
  /\ prog' = [prog EXCEPT ![p] = IF pc'[p] # "idle" THEN @
                                 ELSE AfterUpdate(p, res'[p] = "ok")]
  /\ watch' = IF version' # version /\ watch # "off" THEN "event" ELSE watch
  /\ UNCHANGED <<scene, known, fresh, ask>>

Crash(p) ==
  /\ Can("crash") /\ prog[p] # "off" /\ Store!Die(p)
  /\ Goto(p, "off")
  /\ watch' = IF p = Service THEN "off" ELSE watch
  /\ ask' = IF p = Service THEN NoReg ELSE ask
  /\ UNCHANGED <<scene, known, fresh>>

ServiceStep ==
  \/ Watch \/ Wake \/ Reload \/ NoteVersion
  \/ OpenAbsent(Service) \/ Load(Service) \/ SaveStep(Service)
  \/ SaveRegistration(Service)

Next ==
  \/ ServiceStep
  \/ AskToken \/ SaveToken \/ Configure \/ Shutdown
  \/ AddShard \/ Edit \/ EditsDone
  \/ OpenAbsent(Command) \/ Load(Command) \/ SaveStep(Command)
  \/ SaveRegistration(Command)
  \/ \E p \in Procs : Run(p) \/ PhoneHome(p) \/ PhoneFails(p) \/ Crash(p)

Spec == Init /\ [][Next]_vars

\* A process that runs goes on with its program; nobody need ask for anything,
\* and the node need not answer.
FairSpec ==
  /\ Spec
  /\ WF_vars(ServiceStep)
  /\ SF_vars(Wake) /\ SF_vars(Reload)
  /\ WF_vars(SaveStep(Command))

-----------------------------------------------------------------------------
(* Properties.                                                             *)

\* Service and command fetch, change and save as they please, and yet the
\* configuration only changes by whole updates of what is there.
NoLostUpdate == Store!NoLostUpdate

\* The service runs as a registered agent only, also when a registration comes,
\* or is replaced, while it starts; a store that is created twice or a process
\* that dies while it saves can take the registration away.
RunsRegistered ==
  prog[Service] = "serving" /\ ~Can("absent") /\ ~Can("crash") =>
    mem[Service].reg \in known

\* An edit that succeeds has its effect whatever the others have saved: a
\* target that was deleted has no key left, a new key is the last one of its
\* targets.
EditTakesEffect ==
  [][\A p \in Procs :
       pc[p] # "idle" /\ pc'[p] = "idle" /\ res'[p] = "ok" /\ Editing
         /\ prog[p] \in {"edit", "editing"} =>
         LET u == upd[p] ks == Store!Content'.keys IN
         /\ u[1] = "delete" => LastKey(ks, u[2], NoSave) = NoSave
         /\ u[1] = "addKey" /\ findEntry(Store!Content.keys, u[2].key) = NoEntry =>
              \A t \in Range(u[2].targets) : LastKey(ks, t, NoSave) = u[2].key]_vars

\* A service that has been told of a change goes on once it is a registration.
WakesOnEvent ==
  (prog[Service] = "waiting" /\ watch = "event" /\ Store!Content.reg # NoReg)
    ~> (prog[Service] # "waiting" \/ Store!Content.reg = NoReg)

\* "Vacate our agent identity token because a new registration means we need a
\* new one even if the previous one remains verifiable": the token that is kept
\* is one of the registration that is kept.
TokenOfRegistration ==
  Store!Content.token # NoReg => Store!Content.token = Store!Content.reg

\* "This process will wait until it detects a new registration and then [...]
\* load it before proceeding."
WaitEnds ==
  (prog[Service] = "waiting" /\ Store!Content.reg # NoReg)
    ~> (prog[Service] # "waiting" \/ Store!Content.reg = NoReg)
=============================================================================
