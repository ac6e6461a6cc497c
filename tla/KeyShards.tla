------------------------------ MODULE KeyShards ------------------------------
(***************************************************************************)
(* The key shards of an agent: a list of entries, each a key and the       *)
(* targets that it is for, in which a later entry takes precedence over an *)
(* earlier one.  The target ids of an entry may repeat.                    *)
(***************************************************************************)
EXTENDS Naturals, Sequences, FiniteSets, SequencesExt, FiniteSetsExt

NoEntry == 0

containsTarget(entry, target) == target \in Range(entry.targets)

\* KeyError is NoEntry.
findEntry(ks, key) ==
  LET found == {i \in DOMAIN ks : ks[i].key = key}
  IN IF found = {} THEN NoEntry ELSE Min(found)

\* Faulty variant: the first entry is taken.
lastIndexFirst(ks, target) ==
  LET found == {i \in DOMAIN ks : containsTarget(ks[i], target)}
  IN IF found = {} THEN NoEntry ELSE Min(found)

\* TargetError is NoEntry.
lastIndex(ks, target) ==
  LET found == {i \in DOMAIN ks : containsTarget(ks[i], target)}
  IN IF found = {} THEN NoEntry ELSE Max(found)

\* The targets of an entry, with those of new that it lacks appended.
AppendMissing(targets, new) ==
  FoldLeft(LAMBDA ts, t : IF t \in Range(ts) THEN ts ELSE Append(ts, t),
           targets, new)

\* NoOpError, and every other error, is none.
AddKey(ks, entry, none) ==
  LET i == findEntry(ks, entry.key)
  IN IF i = NoEntry THEN Append(ks, entry)
     ELSE IF Range(entry.targets) \subseteq Range(ks[i].targets) THEN none
     ELSE [ks EXCEPT ![i].targets = AppendMissing(@, entry.targets)]

AddTarget(ks, target, none) ==
  IF \A i \in DOMAIN ks : containsTarget(ks[i], target) THEN none
  ELSE [i \in DOMAIN ks |->
          [ks[i] EXCEPT !.targets = AppendMissing(@, <<target>>)]]

Clear(ks, none) == IF ks = <<>> THEN none ELSE <<>>

\* The last entry for the target loses its first mention of it.
RemoveOnce(ks, target) ==
  LET i == lastIndex(ks, target)
      m == Min({j \in DOMAIN ks[i].targets : ks[i].targets[j] = target})
  IN [ks EXCEPT ![i].targets = RemoveAt(@, m)]

\* Faulty variant: a hard removal stops after one entry.
removeTargetOnce(ks, target) == RemoveOnce(ks, target)

\* Where the list mentions the target.
Mentions(ks, target) ==
  UNION {{<<i, j>> : j \in {j \in DOMAIN ks[i].targets : ks[i].targets[j] = target}} :
         i \in DOMAIN ks}

\* removeTarget with hard: again, until no entry has it.
removeTarget(ks, target) ==
  LET left[n \in Nat] ==     \* after n removals
        IF n = 0 THEN ks ELSE RemoveOnce(left[n - 1], target)
  IN left[Cardinality(Mentions(ks, target))]

DeleteTarget(ks, target, none) ==
  IF lastIndex(ks, target) = NoEntry THEN none ELSE removeTarget(ks, target)

\* LastKey: the key a target's connections are made with.
LastKey(ks, target, none) ==
  IF lastIndex(ks, target) = NoEntry THEN none
  ELSE ks[lastIndex(ks, target)].key
=============================================================================
