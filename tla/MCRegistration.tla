--------------------------- MODULE MCRegistration ---------------------------
(***************************************************************************)
(* Instances of Registration for TLC.                                      *)
(***************************************************************************)
EXTENDS Registration

Scene(b, env) == [backend |-> b, env |-> env]

MCScenes ==
  { Scene("file", {"absent", "crash"}),
    Scene("file", {"force", "fails", "expires"}),
    Scene("secret", {"absent", "force", "crash"}),
    Scene("file", {"edits"}),
    Scene("secret", {"edits"}) }

ForcedScene == { Scene("file", {"force", "expires"}) }
PlainScene == { Scene("file", {}) }
=============================================================================
