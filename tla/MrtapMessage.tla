---------------------------- MODULE MrtapMessage ----------------------------
(***************************************************************************)
(* MrTAP messages (bzerolib/mrtap/message) and the two directions of the   *)
(* wire between one daemon datachannel and one agent datachannel.          *)
(*                                                                         *)
(* A hash is modelled as an identity: every Syn carries a random 32-byte   *)
(* nonce and every Data is chained, through its hpointer, to the SynAck of *)
(* one Syn, so no two messages that the daemon builds have equal hashes.   *)
(* Each Syn and Data therefore has an id, which stands for Hash().  The    *)
(* hash of an ack is the pair of the id it answers and of whether its      *)
(* ActionResponsePayload is non-empty: the response payload is part of the *)
(* hashed DataAckPayload.                                                  *)
(***************************************************************************)
EXTENDS Naturals, Sequences

VARIABLES
  d2a,   \* messages on their way from the daemon datachannel to the agent
  a2d    \* messages on their way from the agent datachannel to the daemon

wireVars == <<d2a, a2d>>

NoHash == 0     \* the empty string: no message has this hash

\* Hash() of a SynAck or a DataAck: what the next Data's HPointer commits to.
AckHash(of, resp) == [of |-> of, resp |-> resp]
NoAck == AckHash(NoHash, FALSE)

-----------------------------------------------------------------------------
(* Daemon to agent.  Payload 0 is the action payload of a Syn.             *)

SynMsg(id, cert) ==
  [type |-> "Syn", id |-> id, cert |-> cert, hp |-> NoAck, payload |-> 0]

DataMsg(id, cert, hp, payload) ==
  [type |-> "Data", id |-> id, cert |-> cert, hp |-> hp, payload |-> payload]

\* OpenDataChannel carries the Syn of a datachannel that is to be created.
OpenMsg(syn) == [syn EXCEPT !.type = "Open"]

CloseMsg ==
  [type |-> "Close", id |-> NoHash, cert |-> 0, hp |-> NoAck, payload |-> 0]

-----------------------------------------------------------------------------
(* Agent to daemon.  of is the HPointer, the hash of the answered message. *)

SynAckMsg(of, nonce) ==
  [type |-> "SynAck", of |-> of, resp |-> FALSE, nonce |-> nonce]

DataAckMsg(of, resp) ==
  [type |-> "DataAck", of |-> of, resp |-> resp, nonce |-> NoHash]

\* MrtapValidationError: the receiver tries to recover from it.
ErrorMsg(of) ==
  [type |-> "Error", of |-> of, resp |-> FALSE, nonce |-> NoHash]

\* ComponentStartupError and ComponentProcessingError: fatal to the receiver.
FatalMsg(of) ==
  [type |-> "Fatal", of |-> of, resp |-> FALSE, nonce |-> NoHash]

\* Output of the agent's plugin, outside the hash chain.
StreamMsg ==
  [type |-> "Stream", of |-> NoHash, resp |-> FALSE, nonce |-> NoHash]

-----------------------------------------------------------------------------
AckHashes == [of : Nat, resp : BOOLEAN]

Requests ==
  [type : {"Open", "Syn", "Data", "Close"}, id : Nat, cert : Nat,
   hp : AckHashes, payload : Nat]

Replies ==
  [type : {"SynAck", "DataAck", "Error", "Fatal", "Stream"}, of : Nat,
   resp : BOOLEAN, nonce : Nat]
=============================================================================
