---------------------------- MODULE OrderedPipe -----------------------------
(***************************************************************************)
(* What a datachannel promises to the two plugins at its ends: payloads    *)
(* 1, 2, 3, ... are submitted at one end and handed over at the other in   *)
(* order, none twice, none out of thin air and none skipped once the first *)
(* has been handed over.  A prefix may be lost: the daemon forgets what it *)
(* has in its pipeline when it recovers before any Data was acked.         *)
(***************************************************************************)
EXTENDS Naturals, Sequences

VARIABLES
  sent,       \* payloads submitted so far
  received    \* payloads handed over, in order

PipeInit == sent = 0 /\ received = <<>>

Submit == sent' = sent + 1 /\ UNCHANGED received

HandOver ==
  \E k \in 1..sent :
    /\ received = <<>> \/ k = received[Len(received)] + 1
    /\ received' = Append(received, k)
    /\ UNCHANGED sent

PipeNext == Submit \/ HandOver

PipeSpec == PipeInit /\ [][PipeNext]_<<sent, received>>
=============================================================================
