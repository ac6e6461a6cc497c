---------------------------- MODULE MCConnection ----------------------------
(***************************************************************************)
(* Instances of Connection for TLC, with one channel: the theorems of      *)
(* ConnectionProofs hold for any set of channels.                          *)
(***************************************************************************)
EXTENDS Connection, TLC

Around(env, messages, calls, failures) ==
  [env |-> env, messages |-> messages, invocations |-> calls,
   breaks |-> failures]

\* Each of the three connections, with all that can happen to it.
AllRoles ==
  ("daemon" :> Around({"break", "connectFails", "giveUp", "serverClose",
                       "timeout", "pingTimeout", "close",
                       "channelStops"}, 1, 1, 1)) @@
  ("agent" :> Around({"break", "connectFails", "timeout", "close",
                      "channelStops", "openFails"}, 2, 2, 1)) @@
  ("control" :> Around({"break", "connectFails", "giveUp", "close",
                        "channelStops"}, 2, 2, 2))

\* An agent's connection whose websocket lasts.
AgentLasting == "agent" :> Around({"timeout", "close", "openFails"}, 2, 2, 0)

\* A daemon's connection whose websocket breaks once.
DaemonBreaks == "daemon" :> Around({"break"}, 2, 0, 1)

\* A daemon's connection with a channel that stops.
DaemonStops == "daemon" :> Around({"channelStops"}, 1, 3, 0)
=============================================================================
