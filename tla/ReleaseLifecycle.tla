-------------------------- MODULE ReleaseLifecycle --------------------------
(***************************************************************************)
(* What the helm-operator promises about the release of one custom         *)
(* resource, as its user sees it: which revisions are recorded, which of   *)
(* them run, and what the finalizer protects.  HelmOperator, read through  *)
(* the mapping it declares, implements this specification when the list of *)
(* release Secrets is up to date.                                          *)
(***************************************************************************)
EXTENDS Naturals

CONSTANT Versions     \* revisions of the release

VARIABLES
    phase,     \* the custom resource: "free", "protected", "deleting" or "gone"
    stored,    \* the revisions that are recorded, a subset of Versions
    running    \* those of them that are deployed

vars == <<phase, stored, running>>

Init == phase = "free" /\ stored = {} /\ running = {}

\* The finalizer is put on a custom resource that has something to clean up.
Protect ==
    /\ phase = "free" /\ stored # {}
    /\ phase' = "protected"
    /\ UNCHANGED <<stored, running>>

\* Without the finalizer the custom resource is gone as soon as it is deleted.
Delete ==
    /\ \/ phase = "free" /\ phase' = "gone"
       \/ phase = "protected" /\ phase' = "deleting"
    /\ UNCHANGED <<stored, running>>

\* The finalizer comes off when nothing is left to clean up.
LetGo ==
    /\ phase = "deleting" /\ stored = {}
    /\ phase' = "gone"
    /\ UNCHANGED <<stored, running>>

\* A revision is begun after all those that are recorded.
Begin(v) ==
    /\ \A w \in stored : w < v
    /\ stored' = stored \cup {v}
    /\ UNCHANGED <<phase, running>>

\* The newest revision runs; those before it may still be taken to run.
Deploy(v) ==
    /\ v \in stored /\ \A w \in stored : w <= v
    /\ running' = running \cup {v}
    /\ UNCHANGED <<phase, stored>>

\* A revision that runs stops doing so for a newer one.
Supersede ==
    /\ \E v \in stored \ running : \A w \in running : w < v
    /\ running' \in SUBSET running
    /\ UNCHANGED <<phase, stored>>

\* Revisions that do not run are dropped.
Prune ==
    /\ stored' \in SUBSET stored /\ running \subseteq stored'
    /\ UNCHANGED <<phase, running>>

\* Only a deletion takes down what runs.
Uninstall ==
    /\ phase \in {"deleting", "gone"}
    /\ stored' \in SUBSET stored
    /\ running' \in SUBSET (running \cap stored')
    /\ UNCHANGED phase

Next ==
    \/ Protect \/ Delete \/ LetGo
    \/ \E v \in Versions : Begin(v) \/ Deploy(v)
    \/ Supersede \/ Prune \/ Uninstall

Spec == Init /\ [][Next]_vars
=============================================================================
