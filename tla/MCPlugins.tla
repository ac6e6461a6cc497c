------------------------------- MODULE MCPlugins -------------------------------
(* Sessions small enough to check: each kind alone, with every failure the *)
(* code looks at, and those that number their streams with reordering.     *)
EXTENDS Plugins

S(k, u, w, r, f) ==
  [kind |-> k, ups |-> u, downs |-> w, reorder |-> r, failures |-> f]

MCScenes == {
  S("dial", 0, 2, TRUE, {"close"}), S("dial", 1, 1, FALSE, Failures),
  S("pwdb", 1, 1, FALSE, Failures), S("opaque", 1, 1, FALSE, Failures),
  S("transparent", 1, 1, FALSE, Failures),
  S("shell", 1, 1, FALSE, Failures), S("attach", 0, 3, FALSE, {"close"}),
  S("webdial", 1, 2, TRUE, Failures), S("webws", 1, 1, FALSE, Failures),
  S("restapi", 1, 1, FALSE, Failures), S("kubestream", 0, 1, FALSE, Failures),
  S("kubestream", 0, 2, TRUE, {"close"}),
  S("kubeexec", 1, 1, FALSE, Failures), S("kubeexec", 0, 1, FALSE, {"close"}),
  S("portforward", 1, 1, TRUE, {}), S("portforward", 0, 2, FALSE, {}),
  S("portforward", 1, 0, FALSE, {"close"}), S("portforward", 1, 0, FALSE, {"break"}),
  S("portforward", 1, 0, FALSE, {"refuse", "slow"})}

\* Sessions in which nothing fails, though somebody may call Close.
LiveScenes == {S(k, 1, 1, FALSE, {"close"}) :
  k \in {"dial", "pwdb", "opaque", "shell", "attach", "kubestream", "kubeexec"}}

\* For CloseKills and StreamEnds.
StuckScenes == {S("dial", 2, 0, FALSE, {"close"}), S("pwdb", 0, 0, FALSE, {"close"})}
StreamScenes == {S("kubestream", 0, 1, FALSE, {"close"})}

\* Sessions too long for the code: with the first DownloadComplete fails, with
\* the second the client of a portforward misses a chunk; see the README.
DownloadScenes == {S("transparent", 0, 2, FALSE, {"close"})}
GapScenes == {S("portforward", 1, 3, TRUE, {})}
=============================================================================
