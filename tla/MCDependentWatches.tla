------------------------- MODULE MCDependentWatches -------------------------
(***************************************************************************)
(* Instance of DependentWatches for TLC.  Every Service names the          *)
(* release's namespace, but one is to be kept; the StatefulSets name it,   *)
(* another or none; and there is a cluster-scoped object.                  *)
(***************************************************************************)
EXTENDS DependentWatches

CONSTANTS w1, w2, c1, c2, service, statefulset, clusterrole

MCWorkers == {w1, w2}
MCCRs == {c1, c2}
MCKinds == {service, statefulset, clusterrole}
MCClusterScoped == {clusterrole}

Object(k, n, keep) == [kind |-> k, namespace |-> n, keep |-> keep]

MCManifests == {<<Object(service, "own", TRUE), Object(statefulset, "own", FALSE)>>,
                <<Object(statefulset, "", FALSE), Object(service, "own", FALSE)>>,
                <<Object(clusterrole, "", FALSE), Object(statefulset, "other", FALSE)>>}
=============================================================================
