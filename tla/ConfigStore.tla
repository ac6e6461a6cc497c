----------------------------- MODULE ConfigStore -----------------------------
(***************************************************************************)
(* A configuration store and the processes that change it: fetch, change,  *)
(* save, with a check that nothing was saved in between.  On a server the  *)
(* store is a file, read and written under a file lock; in a cluster it is *)
(* a Kubernetes secret.  What the data is and what the updates do to it    *)
(* are parameters: they are those of the agent's configuration or those of *)
(* the key shards.  In a process the updates exclude one another, by the   *)
(* lock of the configuration object, so that each process has one at most. *)
(***************************************************************************)
EXTENDS Naturals

CONSTANTS
  Procs, Updates,
  Apply(_, _),    \* Apply(u, c): the new content, or NoSave
  Empty,          \* what a store without data is read as
  NoSave,         \* an update that has nothing to do, or cannot be done
  Absent,         \* there is no file
  NoProc,
  CanTie,         \* two writes may fall into the same millisecond
  MaxVersion      \* bound: writes

VARIABLES
  backend,   \* "file" or "secret"; never changes
  file,      \* what the store holds
  version,   \* time of the last change, or resource version
  flock,     \* the process that holds the file lock to save
  pc,        \* pc[p]: "idle", "creating", "fetched", "got" or "truncated"
  upd,       \* upd[p]: the update p is at
  snap,      \* snap[p]: what p fetched for it
  seen,      \* seen[p]: the version that it fetched
  mem,       \* mem[p]: the data p holds in memory
  res        \* res[p]: how its last update ended

storeVars == <<backend, file, version, flock, pc, upd, snap, seen, mem, res>>

Init ==
  /\ backend \in {"file", "secret"}
  /\ file = Absent /\ version = 0 /\ flock = NoProc
  /\ pc = [p \in Procs |-> "idle"] /\ upd = [p \in Procs |-> NoSave]
  /\ snap = [p \in Procs |-> Empty] /\ seen = [p \in Procs |-> 0]
  /\ mem = [p \in Procs |-> Empty] /\ res = [p \in Procs |-> "none"]

Set(f, p, v) == [f EXCEPT ![p] = v]

\* A write: two of them may get the same time.
Written(data) ==
  /\ file' = data
  /\ version' \in IF CanTie /\ backend = "file" THEN {version, version + 1}
                  ELSE {version + 1}

\* What p was at is over; what it fetched is not looked at again.
Return(p, result) ==
  /\ pc' = Set(pc, p, "idle") /\ res' = Set(res, p, result)
  /\ upd' = Set(upd, p, NoSave)
  /\ snap' = Set(snap, p, Empty) /\ seen' = Set(seen, p, 0)

Exists == file # Absent
Unlocked == flock = NoProc

\* FetchAgentData, FetchKeyShardData: of a file under its lock; a secret has
\* none.
Fetchable == Exists /\ Unlocked

-----------------------------------------------------------------------------
(* Opening a store.                                                        *)

\* There is nothing there...
OpenAbsent(p) ==
  /\ pc[p] = "idle" /\ ~Exists
  /\ pc' = Set(pc, p, "creating")
  /\ UNCHANGED <<backend, file, version, flock, upd, snap, seen, mem, res>>

\* ... so it is created: a file is emptied if it has come to exist meanwhile.
Create(p) ==
  /\ pc[p] = "creating"
  /\ backend = "file" \/ ~Exists
  /\ Return(p, "ok")
  /\ Written(Empty)
  /\ UNCHANGED <<backend, flock, mem>>

\* A secret that has come to exist meanwhile cannot be created.
CreateRefused(p) ==
  /\ pc[p] = "creating" /\ backend = "secret" /\ Exists
  /\ Return(p, "refused")
  /\ UNCHANGED <<backend, file, version, flock, mem>>

\* LoadAgentConfig, Reload, LoadKeyShardConfig.
Load(p) ==
  /\ pc[p] = "idle" /\ Fetchable
  /\ mem' = Set(mem, p, file) /\ res' = Set(res, p, "none")
  /\ UNCHANGED <<backend, file, version, flock, pc, upd, snap, seen>>

-----------------------------------------------------------------------------
(* An update.                                                              *)

\* The update u is worked out on c; it has nothing to save, or becomes the
\* process' own data before it is saved.
Change(p, u, c) ==
  /\ pc[p] = "idle" /\ Fetchable
  /\ version < MaxVersion
  /\ IF Apply(u, c) = NoSave
       THEN res' = Set(res, p, "noop") /\ UNCHANGED <<pc, upd, snap, seen, mem>>
       ELSE /\ pc' = Set(pc, p, "fetched") /\ res' = Set(res, p, "none")
            /\ upd' = Set(upd, p, u) /\ snap' = Set(snap, p, c)
            /\ seen' = Set(seen, p, version)
            /\ mem' = Set(mem, p, Apply(u, c))
  /\ UNCHANGED <<backend, file, version, flock>>

\* Faulty variant: the update is worked out on what is in memory.
FetchStale(p, u) == Change(p, u, mem[p])

\* It fetches what is there.
Fetch(p, u) == Change(p, u, file)

\* Save finds another version than the one that was fetched.
SaveRefused(p) ==
  /\ pc[p] = "fetched" /\ Unlocked /\ seen[p] # version
  /\ Return(p, "refused")
  /\ UNCHANGED <<backend, file, version, flock, mem>>

\* Faulty variant: the version is not compared.
SaveUnchecked(p) ==
  /\ pc[p] = "fetched" /\ Unlocked
  /\ backend = "file"
  /\ pc' = Set(pc, p, "truncated") /\ flock' = p
  /\ Written(Empty)
  /\ UNCHANGED <<backend, upd, snap, seen, mem, res>>

\* Save of a file: with the lock held the file is emptied...
SaveTruncates(p) ==
  /\ pc[p] = "fetched" /\ Unlocked /\ seen[p] = version
  /\ backend = "file"
  /\ pc' = Set(pc, p, "truncated") /\ flock' = p
  /\ Written(Empty)
  /\ UNCHANGED <<backend, upd, snap, seen, mem, res>>

\* ... and written anew.
SaveWrites(p) ==
  /\ pc[p] = "truncated"
  /\ Return(p, "ok") /\ flock' = NoProc
  /\ Written(mem[p])
  /\ UNCHANGED <<backend, mem>>

\* Save of a secret: it is got and compared...
SaveGets(p) ==
  /\ pc[p] = "fetched" /\ seen[p] = version
  /\ backend = "secret"
  /\ pc' = Set(pc, p, "got")
  /\ UNCHANGED <<backend, file, version, flock, upd, snap, seen, mem, res>>

\* ... and put back; the API server refuses that if it is not what was got.
SaveUpdates(p) ==
  /\ pc[p] = "got" /\ version = seen[p]
  /\ Return(p, "ok")
  /\ Written(mem[p])
  /\ UNCHANGED <<backend, flock, mem>>

UpdateRefused(p) ==
  /\ pc[p] = "got" /\ version # seen[p]
  /\ Return(p, "refused")
  /\ UNCHANGED <<backend, file, version, flock, mem>>

\* The process ends, or dies: the operating system releases its lock.
Die(p) ==
  /\ Return(p, "none") /\ mem' = Set(mem, p, Empty)
  /\ flock' = IF flock = p THEN NoProc ELSE flock
  /\ UNCHANGED <<backend, file, version>>

SaveStep(p) ==
  \/ SaveRefused(p) \/ SaveTruncates(p) \/ SaveWrites(p)
  \/ SaveGets(p) \/ SaveUpdates(p) \/ UpdateRefused(p)
  \/ Create(p) \/ CreateRefused(p)

Next ==
  \E p \in Procs :
    \/ OpenAbsent(p) \/ Load(p) \/ SaveStep(p) \/ Die(p)
    \/ \E u \in Updates : Fetch(p, u)

Spec == Init /\ [][Next]_storeVars

-----------------------------------------------------------------------------
(* Properties.                                                             *)

\* What the store holds, for those who respect the lock: while a file is empty
\* only because it is being saved, what was there before.
Content ==
  IF flock # NoProc THEN snap[flock]
  ELSE IF Exists THEN file ELSE Empty

\* Several processes fetch, change and save as they please, and yet the content
\* only ever changes by whole updates of what is there: no update undoes
\* another one ("1000% sure we will not be overwriting anything").
Atomic == INSTANCE AtomicConfig WITH content <- Content
NoLostUpdate == Atomic!Spec
=============================================================================
