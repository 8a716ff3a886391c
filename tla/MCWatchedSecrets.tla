-------------------------- MODULE MCWatchedSecrets --------------------------
(***************************************************************************)
(* Instances of WatchedSecrets for TLC: three reconciliations at once and  *)
(* two namespaces, whose Secrets may be listed.                            *)
(***************************************************************************)
EXTENDS WatchedSecrets

CONSTANTS w1, w2, w3, ns1, ns2

MCCallers == {w1, w2, w3}
MCNamespaces == {ns1, ns2}
=============================================================================
