-------------------------- MODULE ConfigStoreProofs --------------------------
(***************************************************************************)
(* The configuration store implements AtomicConfig: for every number of    *)
(* processes, whatever the data and the updates are, and for both kinds of *)
(* store.  The hypothesis is that no two writes get the same time.         *)
(***************************************************************************)
EXTENDS ConfigStore, TLAPS

CONSTANT IsConfig(_)    \* what the data of a store is

\* The updates take data to data, the mark of a missing file is none, NoProc is
\* not a process, and two writes have two times.
Sane ==
  /\ NoProc \notin Procs /\ ~CanTie
  /\ IsConfig(Empty) /\ ~IsConfig(Absent)
  /\ \A u \in Updates : \A c :
       IsConfig(c) /\ Apply(u, c) # NoSave => IsConfig(Apply(u, c))

Saving == {"fetched", "got"}

StoreType ==
  /\ version \in Nat /\ seen \in [Procs -> Nat]
  /\ pc \in [Procs -> {"idle", "creating", "fetched", "got", "truncated"}]
  /\ upd \in [Procs -> Updates \union {NoSave}]
  /\ DOMAIN snap = Procs /\ DOMAIN mem = Procs
  /\ snap = [p \in Procs |-> snap[p]] /\ mem = [p \in Procs |-> mem[p]]
  /\ flock \in Procs \union {NoProc}

\* What lets a save that passes its check be a whole update: as long as the
\* version is the one that was seen, what was fetched is what is there, and
\* nobody is saving.
IInv ==
  /\ StoreType
  /\ \A p \in Procs : seen[p] <= version
  /\ \A p \in Procs : flock = p <=> pc[p] = "truncated"
  /\ \A p \in Procs : pc[p] \in Saving \union {"truncated"} =>
       upd[p] \in Updates /\ mem[p] = Apply(upd[p], snap[p])
  /\ \A p \in Procs : pc[p] \in Saving /\ seen[p] = version =>
       flock = NoProc /\ file # Absent /\ file = snap[p]
  /\ flock # NoProc => file = Empty
  /\ file # Absent => IsConfig(file)
  /\ \A p \in Procs : IsConfig(snap[p]) /\ IsConfig(mem[p])

\* The initial state.
LEMMA InitIInv == ASSUME Sane, Init PROVE IInv
  BY DEF Sane, Init, IInv, StoreType, Saving

\* Every step keeps the inductive invariant.
LEMMA StepIInv == ASSUME Sane, IInv, [Next]_storeVars PROVE IInv'
<1> USE DEF Sane, IInv, StoreType, Saving
<1>1. CASE UNCHANGED storeVars
  BY <1>1 DEF storeVars
<1>2. ASSUME NEW p \in Procs, OpenAbsent(p) PROVE IInv'
  BY <1>2 DEF OpenAbsent, Set, Exists
<1>3. ASSUME NEW p \in Procs, Create(p) PROVE IInv'
  BY <1>3 DEF Create, Return, Written, Set, Exists
<1>4. ASSUME NEW p \in Procs, CreateRefused(p) PROVE IInv'
  BY <1>4 DEF CreateRefused, Return, Set, Exists
<1>5. ASSUME NEW p \in Procs, Load(p) PROVE IInv'
  BY <1>5 DEF Load, Fetchable, Set, Exists, Unlocked
<1>6. ASSUME NEW p \in Procs, NEW u \in Updates, Fetch(p, u) PROVE IInv'
  BY <1>6 DEF Fetch, Change, Fetchable, Set, Exists, Unlocked
<1>7. ASSUME NEW p \in Procs, SaveRefused(p) PROVE IInv'
  BY <1>7 DEF SaveRefused, Return, Set, Unlocked
<1>8. ASSUME NEW p \in Procs, SaveTruncates(p) PROVE IInv'
  BY <1>8 DEF SaveTruncates, Written, Set, Unlocked
<1>9. ASSUME NEW p \in Procs, SaveWrites(p) PROVE IInv'
  BY <1>9 DEF SaveWrites, Return, Written, Set
<1>10. ASSUME NEW p \in Procs, SaveGets(p) PROVE IInv'
  BY <1>10 DEF SaveGets, Set
<1>11. ASSUME NEW p \in Procs, SaveUpdates(p) PROVE IInv'
  BY <1>11 DEF SaveUpdates, Return, Written, Set
<1>12. ASSUME NEW p \in Procs, UpdateRefused(p) PROVE IInv'
  BY <1>12 DEF UpdateRefused, Return, Set
<1>13. ASSUME NEW p \in Procs, Die(p) PROVE IInv'
  <2>1. StoreType'
    BY <1>13 DEF Die, Return, Set
  <2>2. \A q \in Procs : (flock = q <=> pc[q] = "truncated")'
    BY <1>13 DEF Die, Return, Set
  <2>3. \A q \in Procs \ {p} :
          /\ pc'[q] = pc[q] /\ upd'[q] = upd[q] /\ snap'[q] = snap[q]
          /\ seen'[q] = seen[q] /\ mem'[q] = mem[q]
    BY <1>13 DEF Die, Return, Set
  <2>4. pc'[p] = "idle" /\ seen'[p] = 0
    BY <1>13 DEF Die, Return, Set
  <2>5. UNCHANGED <<file, version>> /\ (flock = NoProc => flock' = NoProc)
    BY <1>13 DEF Die
  <2>6. flock' # NoProc => flock # NoProc
    BY <1>13 DEF Die
  <2>7. snap'[p] = Empty /\ mem'[p] = Empty
    BY <1>13 DEF Die, Return, Set
  <2> QED
    BY <2>1, <2>2, <2>3, <2>4, <2>5, <2>6, <2>7
<1> QED
  BY <1>1, <1>2, <1>3, <1>4, <1>5, <1>6, <1>7, <1>8, <1>9, <1>10, <1>11,
     <1>12, <1>13 DEF Next, SaveStep

\* Every step changes the content by a whole update, wipes it or leaves it.
LEMMA StepAtomic ==
  ASSUME Sane, IInv, [Next]_storeVars PROVE [Atomic!Next]_Content
<1> USE DEF Sane, IInv, StoreType, Saving, Content, Exists
<1>1. CASE UNCHANGED storeVars
  BY <1>1 DEF storeVars
<1>2. ASSUME NEW p \in Procs, OpenAbsent(p) PROVE Content' = Content
  BY <1>2 DEF OpenAbsent
<1>3. ASSUME NEW p \in Procs, Create(p) PROVE Content' = Content \/ Atomic!Wipe
  BY <1>3 DEF Create, Return, Written, Set, Atomic!Wipe
<1>4. ASSUME NEW p \in Procs, CreateRefused(p) PROVE Content' = Content
  BY <1>4 DEF CreateRefused, Return, Set
<1>5. ASSUME NEW p \in Procs, Load(p) PROVE Content' = Content
  BY <1>5 DEF Load
<1>6. ASSUME NEW p \in Procs, NEW u \in Updates, Fetch(p, u)
      PROVE  Content' = Content
  BY <1>6 DEF Fetch, Change, Set, Unlocked
<1>7. ASSUME NEW p \in Procs, SaveRefused(p) PROVE Content' = Content
  BY <1>7 DEF SaveRefused, Return, Set, Unlocked
<1>8. ASSUME NEW p \in Procs, SaveTruncates(p) PROVE Content' = Content
  BY <1>8 DEF SaveTruncates, Written, Set, Unlocked
<1>9. ASSUME NEW p \in Procs, SaveWrites(p) PROVE Atomic!Update(upd[p])
  BY <1>9 DEF SaveWrites, Return, Written, Set, Atomic!Update
<1>10. ASSUME NEW p \in Procs, SaveGets(p) PROVE Content' = Content
  BY <1>10 DEF SaveGets
<1>11. ASSUME NEW p \in Procs, SaveUpdates(p) PROVE Atomic!Update(upd[p])
  BY <1>11 DEF SaveUpdates, Return, Written, Set, Atomic!Update
<1>12. ASSUME NEW p \in Procs, UpdateRefused(p) PROVE Content' = Content
  BY <1>12 DEF UpdateRefused, Return, Set
<1>13. ASSUME NEW p \in Procs, Die(p) PROVE Content' = Content \/ Atomic!Wipe
  BY <1>13 DEF Die, Return, Set, Atomic!Wipe
<1>14. ASSUME NEW p \in Procs, SaveWrites(p) \/ SaveUpdates(p)
       PROVE  upd[p] \in Updates
  BY <1>14 DEF SaveWrites, SaveUpdates
<1> QED
  BY <1>1, <1>2, <1>3, <1>4, <1>5, <1>6, <1>7, <1>8, <1>9, <1>10, <1>11,
     <1>12, <1>13, <1>14 DEF Next, SaveStep, Atomic!Next

\* Several processes fetch, change and save, in any order and dying at any
\* point, and the content changes by whole updates of what is there only.
THEOREM StoreIsAtomic == ASSUME Sane PROVE Spec => NoLostUpdate
<1>1. Init => Atomic!Init
  BY DEF Init, Atomic!Init, Content, Exists
<1>2. Init => IInv
  BY InitIInv
<1>3. IInv /\ [Next]_storeVars => IInv'
  BY StepIInv
<1>4. IInv /\ [Next]_storeVars => [Atomic!Next]_Content
  BY StepAtomic
<1> QED
  BY <1>1, <1>2, <1>3, <1>4, PTL DEF Spec, NoLostUpdate, Atomic!Spec
=============================================================================
