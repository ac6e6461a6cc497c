-------------------------- MODULE RegistrationProofs --------------------------
(***************************************************************************)
(* The agent's programs around its configuration: for every number of      *)
(* registrations, keys, targets and scenes the service and the command     *)
(* change the store by whole updates, and the service runs as a registered *)
(* agent.  What the store promises comes from ConfigStoreProofs.           *)
(***************************************************************************)
EXTENDS Registration, FiniteSetTheorems, TLAPS

\* The data of a store: a record with the fields of Empty.
IsConfig(c) == DOMAIN c = DOMAIN Empty

\* NoProc is not a process, and the marks of a missing file and of an update
\* with nothing to do are no data.
Sane == NoProc \notin Procs /\ ~IsConfig(Absent) /\ ~IsConfig(NoSave)

S == INSTANCE ConfigStoreProofs WITH CanTie <- FALSE

-----------------------------------------------------------------------------
(* The updates.                                                            *)

\* Every update keeps the fields, and only a registration changes who the
\* agent is.
LEMMA UpdatesOfConfigs ==
  ASSUME NEW u \in Updates, NEW c, IsConfig(c), Apply(u, c) # NoSave
  PROVE  /\ IsConfig(Apply(u, c))
         /\ Apply(u, c).reg = IF u[1] = "register" THEN u[2] ELSE c.reg
  BY DEF Updates, Edits, Apply, IsConfig, Empty, SetRegistrationData,
         SetAgentIdentityToken, SetServiceAccountJwksUrl, SetVersion, WithKeys

\* SetVersion and SetShutdownInfo always have something to save.
LEMMA NotesAreSaved ==
  ASSUME Sane, NEW c, IsConfig(c), NEW note \in {"version", "shutdown"}
  PROVE  Apply(<<"note", note>>, c) # NoSave
  BY DEF Sane, IsConfig, Empty, Apply, SetVersion

\* What the programs store is what ConfigStore's proof asks for.
LEMMA StoreSane == ASSUME Sane PROVE S!Sane
  BY UpdatesOfConfigs DEF Sane, S!Sane, IsConfig

-----------------------------------------------------------------------------
(* The programs.                                                           *)

Places ==
  {"off", "open", "watch", "waiting", "reload", "phone", "save", "saving",
   "version", "noting", "serving", "stopping", "edit", "editing"}

ProgInv ==
  /\ known \subseteq 1..MaxRegs
  /\ prog \in [Procs -> Places] /\ fresh \in [Procs -> Nat]
  /\ \A p \in Procs : prog[p] = "save" => fresh[p] \in known
  /\ ask \in known \union {NoReg}

\* ProgInv holds at the start.
LEMMA ProgInit == ASSUME Init PROVE ProgInv
  BY DEF Init, ProgInv, NoReg, Places

\* A number the node has not given yet.
LEMMA NextRegType == ASSUME ProgInv PROVE NextReg \in Nat \ {0}
  <1>1. IsFiniteSet(1..MaxRegs)
    BY RegistrationAssumption, FS_Interval
  <1>2. IsFiniteSet(known)
    BY <1>1, FS_Subset DEF ProgInv
  <1>. QED  BY <1>2, FS_CardinalityType DEF NextReg

\* Every step keeps ProgInv.
LEMMA ProgStep == ASSUME ProgInv, [Next]_vars PROVE ProgInv'
  <1>. USE DEF ProgInv, NoReg, Places, Goto, Procs, Service, Command
  <1>1. CASE UNCHANGED vars
    BY <1>1 DEF vars, progVars
  <1>2. ASSUME NEW p \in Procs, Run(p) PROVE ProgInv'
    BY <1>2 DEF Run
  <1>3. ASSUME NEW p \in Procs, OpenAbsent(p) PROVE ProgInv'
    BY <1>3 DEF OpenAbsent, progVars
  <1>4. ASSUME NEW p \in Procs, Load(p) PROVE ProgInv'
    BY <1>4 DEF Load, AfterLoad
  <1>5. CASE Watch \/ Wake \/ Reload
    BY <1>5 DEF Watch, Wake, Reload
  <1>6. ASSUME NEW p \in Procs, PhoneHome(p) PROVE ProgInv'
    <2>1. NextReg \in 1..MaxRegs
      BY <1>6, NextRegType, RegistrationAssumption DEF PhoneHome
    <2>. QED  BY <1>6, <2>1 DEF PhoneHome
  <1>7. ASSUME NEW p \in Procs, PhoneFails(p) PROVE ProgInv'
    BY <1>7 DEF PhoneFails
  <1>8. ASSUME NEW p \in Procs, SaveRegistration(p) PROVE ProgInv'
    BY <1>8 DEF SaveRegistration
  <1>9. CASE NoteVersion \/ AskToken \/ SaveToken \/ Configure \/ Shutdown
    BY <1>9 DEF NoteVersion, AskToken, SaveToken, Configure, Shutdown, progVars
  <1>10. CASE AddShard \/ Edit \/ EditsDone
    BY <1>10 DEF AddShard, Edit, EditsDone, progVars
  <1>11. ASSUME NEW p \in Procs, SaveStep(p) PROVE ProgInv'
    BY <1>11 DEF SaveStep, AfterUpdate
  <1>12. ASSUME NEW p \in Procs, Crash(p) PROVE ProgInv'
    BY <1>12 DEF Crash
  <1>. QED
    BY <1>1, <1>2, <1>3, <1>4, <1>5, <1>6, <1>7, <1>8, <1>9, <1>10, <1>11, <1>12
    DEF Next, ServiceStep

-----------------------------------------------------------------------------
(* The store.                                                              *)

\* The steps of the store, here and in ConfigStoreProofs.
LEMMA SameSteps ==
  ASSUME NEW p \in Procs
  PROVE  /\ Store!OpenAbsent(p) <=> S!OpenAbsent(p)
         /\ Store!Load(p) <=> S!Load(p)
         /\ Store!SaveStep(p) <=> S!SaveStep(p)
         /\ Store!Die(p) <=> S!Die(p)
         /\ \A u : Store!Fetch(p, u) <=> S!Fetch(p, u)
  <1>. USE DEF Store!Exists, S!Exists, Store!Unlocked, S!Unlocked,
               Store!Fetchable, S!Fetchable, Store!Set, S!Set,
               Store!Return, S!Return, Store!Written, S!Written
  <1>1. Store!OpenAbsent(p) <=> S!OpenAbsent(p)
    BY DEF Store!OpenAbsent, S!OpenAbsent
  <1>2. Store!Load(p) <=> S!Load(p)
    BY DEF Store!Load, S!Load
  <1>3. Store!SaveStep(p) <=> S!SaveStep(p)
    BY DEF Store!SaveStep, S!SaveStep,
       Store!SaveRefused, S!SaveRefused, Store!SaveTruncates, S!SaveTruncates,
       Store!SaveWrites, S!SaveWrites, Store!SaveGets, S!SaveGets,
       Store!SaveUpdates, S!SaveUpdates, Store!UpdateRefused, S!UpdateRefused,
       Store!Create, S!Create, Store!CreateRefused, S!CreateRefused
  <1>4. Store!Die(p) <=> S!Die(p)
    BY DEF Store!Die, S!Die
  <1>5. \A u : Store!Fetch(p, u) <=> S!Fetch(p, u)
    BY DEF Store!Fetch, S!Fetch, Store!Change, S!Change
  <1>. QED  BY <1>1, <1>2, <1>3, <1>4, <1>5

\* Whatever the programs do to the store is a step of the store: in particular
\* the registration that is saved, and the token, are ones the node has given.
LEMMA StoreSteps ==
  ASSUME ProgInv, [Next]_vars PROVE [S!Next]_(S!storeVars)
  <1>. DEFINE Updating == \E p \in Procs, u \in Updates : Store!Fetch(p, u)
              Stepping == \E p \in Procs : \/ Store!OpenAbsent(p) \/ Store!Load(p)
                                           \/ Store!SaveStep(p) \/ Store!Die(p)
  <1>. USE DEF Procs, Service, Command
  <1>1. CASE Updating
    BY <1>1, SameSteps DEF S!Next
  <1>2. CASE Stepping
    BY <1>2, SameSteps DEF S!Next
  <1>3. CASE UNCHANGED storeVars
    BY <1>3 DEF storeVars, S!storeVars
  <1>4. CASE UNCHANGED vars
    BY <1>4, <1>3 DEF vars, storeVars
  <1>5. ASSUME NEW p \in Procs,
               \/ Run(p) \/ OpenAbsent(p) \/ Load(p) \/ SaveStep(p) \/ Crash(p)
        PROVE  Stepping
    BY <1>5 DEF Run, OpenAbsent, Load, SaveStep, Crash
  <1>6. CASE Watch \/ Wake \/ AskToken \/ EditsDone
    BY <1>6, <1>3 DEF Watch, Wake, AskToken, EditsDone
  <1>7. CASE Reload
    BY <1>7, <1>2 DEF Reload
  <1>8. ASSUME NEW p \in Procs, PhoneHome(p) \/ PhoneFails(p)
        PROVE  UNCHANGED storeVars
    BY <1>8 DEF PhoneHome, PhoneFails
  <1>9. ASSUME NEW p \in Procs, SaveRegistration(p) PROVE Updating
    <2>1. <<"register", fresh[p]>> \in Updates
      BY <1>9 DEF SaveRegistration, At, ProgInv, Updates
    <2>. QED  BY <1>9, <2>1 DEF SaveRegistration
  <1>10. CASE SaveToken
    <2>1. <<"token", ask>> \in Updates
      BY <1>10 DEF SaveToken, ProgInv, Updates
    <2>. QED  BY <1>10, <2>1, <1>1 DEF SaveToken
  <1>11. CASE NoteVersion \/ Configure \/ Shutdown
    <2>1. /\ <<"note", "version">> \in Updates /\ <<"jwks", "configured">> \in Updates
          /\ <<"note", "shutdown">> \in Updates
      BY DEF Updates
    <2>. QED  BY <1>11, <2>1, <1>1 DEF NoteVersion, Configure, Shutdown
  <1>12. CASE AddShard \/ Edit
    <2>1. Edits \subseteq Updates
      BY DEF Updates
    <2>2. \A e \in Entries : <<"addKey", e>> \in Updates
      BY DEF Updates, Edits
    <2>. QED  BY <1>12, <2>1, <2>2, <1>1 DEF AddShard, Edit
  <1>. QED
    BY <1>1, <1>2, <1>3, <1>4, <1>5, <1>6, <1>7, <1>8, <1>9, <1>10, <1>11, <1>12
    DEF Next, ServiceStep

\* ConfigStore's invariant holds at the start.
LEMMA StoreInit == ASSUME Sane, Init PROVE S!IInv
  <1>1. file = Empty \/ file = Absent
    BY DEF Init
  <1>. QED
    BY <1>1, StoreSane DEF Init, S!Sane, S!IInv, S!StoreType, S!Saving

\* Every step of the programs keeps ConfigStore's invariant.
LEMMA StoreStep == ASSUME Sane, ProgInv, S!IInv, [Next]_vars PROVE S!IInv'
  BY StoreSane, StoreSteps, S!StepIInv

\* The service and the command fetch, change and save as they please, are run
\* again and die at any point, and yet the configuration, and the key shards,
\* change by whole updates of what is there only.
THEOREM UpdatesAreWhole == ASSUME Sane PROVE Spec => NoLostUpdate
  <1>1. Init => Store!Atomic!Init
    BY DEF Init, Store!Atomic!Init, Store!Content, Store!Exists
  <1>2. Init => ProgInv /\ S!IInv
    BY ProgInit, StoreInit
  <1>3. ProgInv /\ S!IInv /\ [Next]_vars => (ProgInv /\ S!IInv)'
    BY ProgStep, StoreStep
  <1>4. ProgInv /\ S!IInv /\ [Next]_vars => [Store!Atomic!Next]_(Store!Content)
    BY StoreSane, StoreSteps, S!StepAtomic
    DEF Store!Content, S!Content, S!Exists, Store!Exists,
        Store!Atomic!Next, S!Atomic!Next, Store!Atomic!Wipe, S!Atomic!Wipe,
        Store!Atomic!Update, S!Atomic!Update
  <1>. QED
    BY <1>1, <1>2, <1>3, <1>4, PTL
     DEF Spec, NoLostUpdate, Store!NoLostUpdate, Store!Atomic!Spec

-----------------------------------------------------------------------------
(* The service runs registered.                                            *)

\* No store is created twice and no process dies while it saves.
Quiet == ~Can("absent") /\ ~Can("crash")

Busy == {"fetched", "got", "truncated"}

\* Once the service has seen a registration there is one, its own copy of it
\* included: a registration is only ever replaced by another one, and every
\* update that is under way was worked out on data that had it.
RegInv ==
  /\ file # Absent /\ \A p \in Procs : pc[p] # "creating"
  /\ Store!Content.reg \in known \union {NoReg}
  /\ \A p \in Procs : mem[p].reg \in known \union {NoReg}
  /\ \A p \in Procs : pc[p] \in Busy /\ snap[p].reg # NoReg => mem[p].reg # NoReg
  /\ prog[Service] \in {"version", "noting", "serving"} =>
       Store!Content.reg # NoReg
  /\ prog[Service] \in {"noting", "serving"} => mem[Service].reg # NoReg

\* RegInv holds at the start.
LEMMA RegInit == ASSUME Sane, Init, Quiet PROVE RegInv
  BY DEF Sane, Init, Quiet, RegInv, Busy, Store!Content, Store!Exists, Empty, NoReg,
         Procs, Service, Command, IsConfig

\* A step of a save leaves the content, or puts there what the process has
\* made of it.
LEMMA SaveSteps ==
  ASSUME Sane, S!IInv, RegInv, NEW p \in Procs, Store!SaveStep(p)
  PROVE  /\ mem' = mem /\ file' # Absent
         /\ \A q \in Procs \ {p} : pc'[q] = pc[q] /\ snap'[q] = snap[q]
         /\ pc'[p] # "creating"
         /\ pc'[p] \in Busy => pc[p] \in Busy /\ snap'[p] = snap[p]
         /\ \/ Store!Content' = Store!Content
            \/ pc[p] \in Busy /\ Store!Content = snap[p] /\ Store!Content' = mem[p]
  <1>. USE DEF Sane, S!IInv, S!StoreType, S!Saving, RegInv, Busy, IsConfig,
               Store!Content, Store!Exists, Store!Unlocked, Store!Set,
               Store!Return, Store!Written
  <1>0. mem[p] # Absent /\ Empty # Absent
    OBVIOUS
  <1>1. CASE Store!SaveRefused(p)
    BY <1>1 DEF Store!SaveRefused
  <1>2. CASE Store!SaveTruncates(p)
    BY <1>0, <1>2 DEF Store!SaveTruncates
  <1>3. CASE Store!SaveWrites(p)
    BY <1>0, <1>3 DEF Store!SaveWrites
  <1>4. CASE Store!SaveGets(p)
    BY <1>4 DEF Store!SaveGets
  <1>5. CASE Store!SaveUpdates(p)
    BY <1>0, <1>5 DEF Store!SaveUpdates
  <1>6. CASE Store!UpdateRefused(p)
    BY <1>6 DEF Store!UpdateRefused
  <1>7. ~Store!Create(p) /\ ~Store!CreateRefused(p)
    BY DEF Store!Create, Store!CreateRefused
  <1>. QED
    BY <1>1, <1>2, <1>3, <1>4, <1>5, <1>6, <1>7 DEF Store!SaveStep

\* What an update is worked out on is the content, and it leaves whoever is
\* registered so, or registers someone the node knows.
LEMMA FetchSteps ==
  ASSUME Sane, ProgInv, S!IInv, RegInv, NEW p \in Procs, NEW u \in Updates,
         Store!Fetch(p, u), u[1] = "register" => u[2] \in known
  PROVE  /\ Store!Content' = Store!Content /\ file' # Absent
         /\ \A q \in Procs \ {p} :
              pc'[q] = pc[q] /\ snap'[q] = snap[q] /\ mem'[q] = mem[q]
         /\ \/ UNCHANGED <<pc, snap, mem>> /\ Apply(u, file) = NoSave
            \/ /\ pc'[p] = "fetched" /\ snap'[p] = Store!Content
               /\ mem'[p].reg \in known \union {NoReg}
               /\ Store!Content.reg # NoReg => mem'[p].reg # NoReg
  <1>. USE DEF S!IInv, S!StoreType, RegInv, Store!Fetch, Store!Change,
               Store!Fetchable, Store!Unlocked, Store!Exists, Store!Content, Store!Set
  <1>1. Store!Content = file /\ Store!Content' = Store!Content /\ file' # Absent
    OBVIOUS
  <1>2. \A q \in Procs \ {p} :
              pc'[q] = pc[q] /\ snap'[q] = snap[q] /\ mem'[q] = mem[q]
    OBVIOUS
  <1>3. CASE Apply(u, file) = NoSave
    BY <1>1, <1>2, <1>3
  <1>4. CASE Apply(u, file) # NoSave
    <2>1. pc'[p] = "fetched" /\ snap'[p] = file /\ mem'[p] = Apply(u, file)
      BY <1>4
    <2>2. IsConfig(file)
      BY DEF IsConfig
    <2>3. mem'[p].reg = IF u[1] = "register" THEN u[2] ELSE file.reg
      BY <1>4, <2>1, <2>2, UpdatesOfConfigs
    <2>4. u[1] = "register" => u[2] # NoReg
      BY DEF ProgInv, NoReg
    <2>. QED  BY <1>1, <1>2, <2>1, <2>3, <2>4
  <1>. QED  BY <1>3, <1>4

\* A step that leaves the store alone.
LEMMA ProgramSteps ==
  ASSUME RegInv, UNCHANGED storeVars, known \subseteq known',
         prog'[Service] \in {"version", "noting", "serving"} =>
           prog'[Service] = prog[Service]
  PROVE  RegInv'
  <1>1. Store!Content' = Store!Content
    BY DEF storeVars, Store!Content, Store!Exists
  <1>. QED  BY <1>1 DEF RegInv, storeVars

\* The service or the command begins an update.
LEMMA UpdateSteps ==
  ASSUME Sane, ProgInv, S!IInv, RegInv, NEW p \in Procs, NEW u \in Updates,
         Store!Fetch(p, u), u[1] = "register" => u[2] \in known,
         known' = known,
         \/ prog'[Service] = prog[Service]
         \/ prog'[Service] \notin {"version", "noting", "serving"}
         \/ /\ prog[Service] = "version" /\ prog'[Service] = "noting"
            /\ p = Service /\ Apply(u, file) # NoSave
  PROVE  RegInv'
  BY FetchSteps DEF RegInv, Busy, Procs, Service, Command

\* A process reads the store; the service takes itself for registered only if
\* it has read a registration.
LEMMA LoadSteps ==
  ASSUME Sane, S!IInv, RegInv, NEW p \in Procs, Store!Load(p), known' = known,
         \/ prog'[Service] = prog[Service] /\ p # Service
         \/ prog'[Service] \notin {"version", "noting", "serving"}
         \/ prog'[Service] = "version" /\ file.reg # NoReg
  PROVE  RegInv'
  <1>1. /\ Store!Content = file /\ Store!Content' = Store!Content
        /\ UNCHANGED <<file, pc, snap>>
    BY DEF Store!Load, Store!Fetchable, Store!Unlocked, Store!Exists, Store!Content
  <1>2. mem'[p] = file /\ \A q \in Procs \ {p} : mem'[q] = mem[q]
    BY DEF Store!Load, Store!Set, S!IInv, S!StoreType
  <1>3. pc[p] = "idle"
    BY DEF Store!Load
  <1>. QED  BY <1>1, <1>2, <1>3 DEF RegInv, Busy, Procs, Service, Command

\* Every step keeps RegInv.
LEMMA RegStep ==
  ASSUME Sane, ProgInv, S!IInv, Quiet, RegInv, [Next]_vars PROVE RegInv'
  <1>. USE DEF Procs, Service, Command
  <1>0. prog \in [Procs -> Places]
    BY DEF ProgInv
  <1>1. CASE UNCHANGED vars
    BY <1>1, ProgramSteps DEF vars, progVars, storeVars
  <1>2. ASSUME NEW p \in Procs, Run(p) PROVE RegInv'
    <2>1. Store!Content' = Store!Content /\ file' = file
      BY <1>2 DEF Run, At, Store!Die, Store!Return, Store!Set, Store!Content,
                  Store!Exists, S!IInv, S!StoreType, Sane
    <2>2. /\ pc'[p] = "idle" /\ mem'[p] = Empty
          /\ \A q \in Procs \ {p} :
               pc'[q] = pc[q] /\ snap'[q] = snap[q] /\ mem'[q] = mem[q]
      BY <1>2 DEF Run, Store!Die, Store!Return, Store!Set, S!IInv, S!StoreType
    <2>3. known' = known /\ prog'[p] = "open" /\ \A q \in Procs \ {p} : prog'[q] = prog[q]
      BY <1>0, <1>2 DEF Run, Goto
    <2>4. Empty.reg = NoReg
      BY DEF Empty
    <2>. QED  BY <2>1, <2>2, <2>3, <2>4 DEF RegInv, Busy
  <1>3. ASSUME NEW p \in Procs PROVE ~OpenAbsent(p)
    BY DEF OpenAbsent, Store!OpenAbsent, Store!Exists, RegInv
  <1>4. ASSUME NEW p \in Procs, Load(p) PROVE RegInv'
    BY <1>0, <1>4, LoadSteps DEF Load, Goto, AfterLoad
  <1>5. CASE Watch
    BY <1>0, <1>5, ProgramSteps DEF Watch, Goto
  <1>6. CASE Wake
    BY <1>0, <1>6, ProgramSteps DEF Wake, Goto
  <1>7. CASE Reload
    BY <1>0, <1>7, LoadSteps DEF Reload, Goto
  <1>8. ASSUME NEW p \in Procs, PhoneHome(p) \/ PhoneFails(p) PROVE RegInv'
    BY <1>0, <1>8, ProgramSteps DEF PhoneHome, PhoneFails, Goto
  <1>9. ASSUME NEW p \in Procs, SaveRegistration(p) PROVE RegInv'
    <2>1. <<"register", fresh[p]>> \in Updates /\ fresh[p] \in known
      BY <1>9 DEF SaveRegistration, At, ProgInv, Updates
    <2>. QED  BY <1>0, <1>9, <2>1, UpdateSteps DEF SaveRegistration, Goto
  <1>10. CASE NoteVersion
    <2>1. <<"note", "version">> \in Updates
      BY DEF Updates
    <2>2. file # Absent
      BY <1>10 DEF NoteVersion, Store!Fetch, Store!Change, Store!Fetchable, Store!Exists
    <2>3. Apply(<<"note", "version">>, file) # NoSave
      BY <2>2, NotesAreSaved DEF S!IInv, IsConfig
    <2>. QED  BY <1>0, <1>10, <2>1, <2>3, UpdateSteps DEF NoteVersion, At, Goto
  <1>11. CASE AskToken \/ EditsDone
    BY <1>0, <1>11, ProgramSteps DEF AskToken, EditsDone, Goto
  <1>12. CASE SaveToken
    <2>1. <<"token", ask>> \in Updates
      BY <1>12 DEF SaveToken, ProgInv, Updates
    <2>. QED  BY <1>12, <2>1, UpdateSteps DEF SaveToken
  <1>13. CASE Configure \/ Shutdown
    <2>1. <<"jwks", "configured">> \in Updates /\ <<"note", "shutdown">> \in Updates
      BY DEF Updates
    <2>. QED  BY <1>0, <1>13, <2>1, UpdateSteps DEF Configure, Shutdown, Goto, progVars
  <1>14. CASE AddShard \/ Edit
    <2>1. \A u \in Edits : u \in Updates /\ u[1] # "register"
      BY DEF Updates, Edits
    <2>2. \A e \in Entries : <<"addKey", e>> \in Edits
      BY DEF Edits
    <2>3. known' = known /\ prog'[Service] = prog[Service]
      BY <1>0, <1>14 DEF AddShard, Edit, Goto, progVars
    <2>. QED  BY <1>14, <2>1, <2>2, <2>3, UpdateSteps DEF AddShard, Edit
  <1>15. ASSUME NEW p \in Procs, SaveStep(p) PROVE RegInv'
    <2>1. /\ known' = known /\ \A q \in Procs \ {p} : prog'[q] = prog[q]
          /\ \/ prog'[p] = prog[p]
             \/ prog'[p] \notin {"version", "noting", "serving"}
             \/ prog[p] = "noting" /\ prog'[p] = "serving"
      BY <1>0, <1>15 DEF SaveStep, AfterUpdate
    <2>2. Store!SaveStep(p)
      BY <1>15 DEF SaveStep
    <2>. QED  BY <2>1, <2>2, SaveSteps DEF RegInv
  <1>16. ASSUME NEW p \in Procs PROVE ~Crash(p)
    BY DEF Crash, Quiet
  <1>. QED
    BY <1>1, <1>2, <1>3, <1>4, <1>5, <1>6, <1>7, <1>8, <1>9, <1>10, <1>11, <1>12,
       <1>13, <1>14, <1>15, <1>16
    DEF Next, ServiceStep

\* The service runs as a registered agent only, also when a registration comes,
\* or is replaced by force, while it starts, if no store is created twice and
\* no process dies while it saves.
THEOREM ServiceIsRegistered == ASSUME Sane PROVE Spec => []RunsRegistered
  <1>. DEFINE I == ProgInv /\ S!IInv /\ (Quiet => RegInv)
  <1>1. Init => I
    BY ProgInit, StoreInit, RegInit
  <1>2. I /\ [Next]_vars => I'
    <2>1. [Next]_vars => (Quiet' => Quiet)
      <3>1. [Next]_vars => scene' = scene
        BY DEF Next, ServiceStep, vars, progVars, Watch, Wake, Reload, NoteVersion,
               OpenAbsent, Load, SaveStep, SaveRegistration, AskToken, SaveToken,
               Configure, Shutdown, AddShard, Edit, EditsDone, Run, PhoneHome,
               PhoneFails, Crash
      <3>. QED  BY <3>1 DEF Quiet, Can
    <2>. QED  BY <2>1, ProgStep, StoreStep, RegStep
  <1>3. I => RunsRegistered
    BY DEF RegInv, RunsRegistered, Quiet, Procs, Service
  <1>. QED  BY <1>1, <1>2, <1>3, PTL DEF Spec
=============================================================================
