--------------------------- MODULE MCMrtapChannel ---------------------------
(***************************************************************************)
(* Instances of MrtapChannel for TLC.  Payload numbers are ordered and ids *)
(* are compared for equality only, but both are naturals: no symmetry.     *)
(***************************************************************************)
EXTENDS MrtapChannel
=============================================================================
