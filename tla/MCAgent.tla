------------------------------ MODULE MCAgent ------------------------------
(***************************************************************************)
(* Instances of Agent for TLC.  Each scene lets a few things happen        *)
(* together: messages and connections that end; connections that are made  *)
(* and end while the channel closes those there are; a node that falls     *)
(* silent while the connection breaks; processes that follow one another.  *)
(***************************************************************************)
EXTENDS Agent

Scene(env, m, sends, s, b) ==
  [env |-> env, messages |-> m, sends |-> sends, starts |-> s, breaks |-> b]

\* Messages about one connection; connections of every id, and a restart.
OneId == CHOOSE id \in Ids : TRUE
AboutOne == Kinds \X {OneId}
OpenAll == ({"open"} \X Ids) \union {<<"restart", OneId>>}

MCScenes ==
  { Scene({"connEnds", "minutes"}, 2, AboutOne, 1, 0),
    Scene({"answer", "connEnds"}, 3, OpenAll, 1, 0),
    Scene({"answer", "silent", "signal", "minutes"}, 0, {}, 1, 2),
    Scene({"answer", "giveUp", "signal", "minutes"}, 1, AboutOne, 1, 1),
    Scene({"startFails", "crash", "giveUp", "minutes"}, 1, AboutOne, 2, 0) }

\* Two processes, the first of which is asked to restart.
RestartScene == { Scene({"minutes"}, 1, {<<"restart", OneId>>}, 2, 0) }
=============================================================================
