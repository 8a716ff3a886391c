--------------------------- MODULE WatchedSecrets ---------------------------
(***************************************************************************)
(* The Secret informers the reconciliations of all CRs share               *)
(* (internal/helm/client/actionconfig.go, secrets_watch.go).  Every        *)
(* reconciliation asks getWatchedSecretsForNamespace for the informer of   *)
(* its CR's namespace; the first to ask creates it and waits, holding the  *)
(* mutex, until its cache has synced.  The map is written under the mutex  *)
(* and read once more after the mutex is released.                         *)
(*                                                                         *)
(* No name is one of DependentWatches, the other module about what the     *)
(* reconciliations share: HelmInformersProofs extends both.                *)
(***************************************************************************)
EXTENDS Naturals

CONSTANTS
    Callers,     \* concurrent reconciliations
    Namespaces,  \* namespaces with CRs
    Readable,    \* namespaces whose Secrets the operator may list
    Nobody,      \* the mutex is free
    MaxAborts    \* bound: aborts of the process

ASSUME ReadableAssumption == Readable \subseteq Namespaces
ASSUME NobodyAssumption == Nobody \notin Callers
ASSUME AbortsAssumption == MaxAborts \in Nat

VARIABLES
    watchedSecretsMutex,  \* the caller that holds the mutex
    watchedSecrets,       \* the keys of the map
    informers,            \* how many informers were started for a namespace
    synced,               \* namespaces whose informer's cache has synced
    at,                   \* where each caller stands
    namespace,            \* the namespace each caller asks for
    aborts                \* aborts of the process so far

secretsVars == <<watchedSecretsMutex, watchedSecrets, informers, synced, at,
          namespace, aborts>>

Places == {"idle", "lock", "insert", "run", "sync", "unlock", "read", "list"}

SecretsTypeOK ==
    /\ watchedSecretsMutex \in Callers \cup {Nobody}
    /\ watchedSecrets \in SUBSET Namespaces
    /\ informers \in [Namespaces -> Nat]
    /\ synced \in SUBSET Namespaces
    /\ at \in [Callers -> Places]
    /\ namespace \in [Callers -> Namespaces]
    /\ aborts \in 0 .. MaxAborts

Started ==
    /\ watchedSecretsMutex = Nobody
    /\ watchedSecrets = {}
    /\ informers = [n \in Namespaces |-> 0]
    /\ synced = {}
    /\ at = [w \in Callers |-> "idle"]

SecretsInit == Started /\ namespace \in [Callers -> Namespaces] /\ aborts = 0

Move(w, to) == at' = [at EXCEPT ![w] = to]

----------------------------------------------------------------------------
(* getWatchedSecretsForNamespace                                           *)

\* A reconciliation of a CR of namespace n asks for its Secrets.
Call(w, n) ==
    /\ at[w] = "idle"
    /\ namespace' = [namespace EXCEPT ![w] = n]
    /\ Move(w, "lock")
    /\ UNCHANGED <<watchedSecretsMutex, watchedSecrets, informers, synced, aborts>>

\* Mutant of Lock: when the key is found the function returns at once.
LockReturnsFound(w) ==
    /\ at[w] = "lock" /\ watchedSecretsMutex = Nobody
    /\ watchedSecretsMutex' = w
    /\ Move(w, IF namespace[w] \in watchedSecrets THEN "read" ELSE "insert")
    /\ UNCHANGED <<watchedSecrets, informers, synced, namespace, aborts>>

Lock(w) ==
    /\ at[w] = "lock" /\ watchedSecretsMutex = Nobody
    /\ watchedSecretsMutex' = w
    /\ Move(w, IF namespace[w] \in watchedSecrets THEN "unlock" ELSE "insert")
    /\ UNCHANGED <<watchedSecrets, informers, synced, namespace, aborts>>

\* The map is being written while at is "insert"; this step ends the write.
Insert(w) ==
    /\ at[w] = "insert"
    /\ watchedSecrets' = watchedSecrets \cup {namespace[w]}
    /\ Move(w, "run")
    /\ UNCHANGED <<watchedSecretsMutex, informers, synced, namespace, aborts>>

Run(w) ==
    /\ at[w] = "run"
    /\ informers' = [informers EXCEPT ![namespace[w]] = @ + 1]
    /\ Move(w, "sync")
    /\ UNCHANGED <<watchedSecretsMutex, watchedSecrets, synced, namespace, aborts>>

\* Mutant of WaitForCacheSync: Run only starts the informer.
NoWaitForCacheSync(w) ==
    /\ at[w] = "sync"
    /\ Move(w, "unlock")
    /\ UNCHANGED <<watchedSecretsMutex, watchedSecrets, informers, synced,
                   namespace, aborts>>

\* WaitForCacheSync(wait.NeverStop) has no timeout.
WaitForCacheSync(w) ==
    /\ at[w] = "sync" /\ namespace[w] \in synced
    /\ Move(w, "unlock")
    /\ UNCHANGED <<watchedSecretsMutex, watchedSecrets, informers, synced,
                   namespace, aborts>>

Unlock(w) ==
    /\ at[w] = "unlock"
    /\ watchedSecretsMutex' = Nobody
    /\ Move(w, "read")
    /\ UNCHANGED <<watchedSecrets, informers, synced, namespace, aborts>>

\* The map is read without the mutex.
Read(w) ==
    /\ at[w] = "read"
    /\ Move(w, "list")
    /\ UNCHANGED <<watchedSecretsMutex, watchedSecrets, informers, synced,
                   namespace, aborts>>

\* While another caller writes the map the runtime may detect the concurrent
\* access and abort the process, which restarts with nothing in memory.
ReadAborts(w) ==
    /\ at[w] = "read" /\ aborts < MaxAborts
    /\ \E v \in Callers \ {w} : at[v] = "insert"
    /\ watchedSecretsMutex' = Nobody
    /\ watchedSecrets' = {}
    /\ informers' = [n \in Namespaces |-> 0]
    /\ synced' = {}
    /\ at' = [v \in Callers |-> "idle"]
    /\ aborts' = aborts + 1
    /\ UNCHANGED namespace

\* The reconciliation lists its releases with the informer and ends.
Return(w) ==
    /\ at[w] = "list"
    /\ Move(w, "idle")
    /\ UNCHANGED <<watchedSecretsMutex, watchedSecrets, informers, synced,
                   namespace, aborts>>

\* The informer lists the Secrets; where it may not, it retries for ever.
CacheSync(n) ==
    /\ informers[n] > 0 /\ n \in Readable \ synced
    /\ synced' = synced \cup {n}
    /\ UNCHANGED <<watchedSecretsMutex, watchedSecrets, informers, at,
                   namespace, aborts>>

----------------------------------------------------------------------------

Caller(w) ==
    \/ Insert(w) \/ Run(w) \/ WaitForCacheSync(w) \/ Unlock(w)
    \/ Read(w) \/ ReadAborts(w) \/ Return(w)

SecretsNext ==
    \/ \E w \in Callers : Caller(w) \/ Lock(w)
    \/ \E w \in Callers, n \in Namespaces : Call(w, n)
    \/ \E n \in Namespaces : CacheSync(n)

SecretsSpec == SecretsInit /\ [][SecretsNext]_secretsVars

\* A goroutine that can go on does, a mutex hands itself to a waiter that
\* starves, and an informer that may list does so.
FairSecretsSpec ==
    /\ SecretsSpec
    /\ \A w \in Callers : WF_secretsVars(Caller(w)) /\ SF_secretsVars(Lock(w))
    /\ \A n \in Namespaces : WF_secretsVars(CacheSync(n))

----------------------------------------------------------------------------
(* Properties                                                              *)

\* A reconciliation lists releases only with an informer whose cache has
\* synced, whichever reconciliation created it and however their steps
\* interleave: an empty cache would show Sync a CR without a release, and the
\* chart would be installed again.
ListsFromSynced ==
    \A w \in Callers : at[w] = "list" => namespace[w] \in watchedSecrets \cap synced

\* However many CRs of a namespace are reconciled at once, one process starts
\* at most one informer for it; a second would never be stopped.
OneInformer == \A n \in Namespaces : informers[n] <= 1

\* A reconciliation of a namespace whose Secrets may be listed gets its
\* informer, unless the process aborts.
ReadableServed ==
    \A w \in Callers : \A n \in Readable :
        (at[w] = "lock" /\ namespace[w] = n) ~> at[w] \in {"list", "idle"}

\* What each step of getWatchedSecretsForNamespace may assume of the others.
MutexInv ==
    /\ SecretsTypeOK
    /\ \A w \in Callers :
          at[w] \in {"insert", "run", "sync", "unlock"} <=> watchedSecretsMutex = w
    /\ \A w \in Callers :
          /\ at[w] = "insert" => namespace[w] \notin watchedSecrets
          /\ at[w] = "run" => namespace[w] \in watchedSecrets /\ informers[namespace[w]] = 0
          /\ at[w] = "sync" => namespace[w] \in watchedSecrets
          /\ at[w] \in {"unlock", "read", "list"} =>
                namespace[w] \in watchedSecrets \cap synced
    /\ \A n \in Namespaces :
          /\ informers[n] = 0 \/ (informers[n] = 1 /\ n \in watchedSecrets)
          /\ n \in watchedSecrets \ synced =>
                \E w \in Callers : at[w] \in {"run", "sync"} /\ namespace[w] = n
=============================================================================
