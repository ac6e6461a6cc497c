---------------------------- MODULE AtomicConfig ----------------------------
(***************************************************************************)
(* What a configuration store promises to the processes that share it: the *)
(* content only ever changes by one whole update of what is there.  The    *)
(* one thing besides is that it can be lost altogether, by a process that  *)
(* dies while it saves or that creates the store once more.                *)
(***************************************************************************)
CONSTANTS Updates, Apply(_, _), Empty

VARIABLE content

Init == content = Empty

Update(u) == content' = Apply(u, content)

Wipe == content' = Empty

Next == Wipe \/ \E u \in Updates : Update(u)

Spec == Init /\ [][Next]_content
=============================================================================
