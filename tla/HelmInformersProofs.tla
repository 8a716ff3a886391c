------------------------ MODULE HelmInformersProofs -------------------------
(***************************************************************************)
(* Proofs about what the reconciliations of one operator share: the        *)
(* watches of dependent objects (DependentWatches) and the Secret          *)
(* informers (WatchedSecrets), for any number of workers, CRs, kinds,      *)
(* namespaces and manifests of any length.                                 *)
(*                                                                         *)
(* HookInv is inductive; with it every object of a hooked release has a    *)
(* source of its kind, which leads from the owned objects of a kind to     *)
(* their CRs if the charts name the release's namespace in all of them     *)
(* (the README says what happens to the others).                           *)
(* MutexInv is inductive; with it every list is served by a synced         *)
(* informer and a namespace has at most one informer.                      *)
(***************************************************************************)
EXTENDS DependentWatches, WatchedSecrets, TLAPS

LEMMA HandlerType ==
    ASSUME NEW d \in Dependents
    PROVE  HandlerFor(d) \in Handlers /\ HandlerFor(d).object = d
BY DEF Dependents, Handlers, HandlerFor, OwnerHandler, AnnotationHandler

LEMMA ObjectType ==
    ASSUME NEW m \in Manifests, NEW i \in 1 .. Len(m) PROVE m[i] \in Dependents
BY ManifestsAssumption

LEMMA LengthType == ASSUME NEW m \in Manifests PROVE Len(m) \in Nat
BY ManifestsAssumption

LEMMA InitHookInv == Init => HookInv
BY NoneAssumption, FaultsAssumption DEF Init, HookInv, TypeOK, PCs, Manifest

LEMMA StepHookInv == HookInv /\ [Next]_vars => HookInv'
<1> USE NoneAssumption, FaultsAssumption DEF Goto, Manifest, Dependent
<1> SUFFICES ASSUME HookInv, [Next]_vars PROVE HookInv'
  OBVIOUS
<1> USE DEF HookInv, TypeOK, PCs
<1>1. ASSUME NEW w \in Workers, NEW c \in CRs, NEW m \in Manifests, Release(w, c, m)
      PROVE  HookInv'
  BY <1>1, LengthType DEF Release
<1>2. ASSUME NEW w \in Workers, Watched(w) PROVE HookInv'
  BY <1>2, LengthType DEF Watched
<1>3. ASSUME NEW w \in Workers, NotWatched(w) PROVE HookInv'
  BY <1>3, LengthType DEF NotWatched
<1>4. ASSUME NEW w \in Workers, Watch(w) PROVE HookInv'
  <2>1. /\ cr[w] \in CRs /\ Manifest(w) \in Manifests /\ next[w] \in 1 .. Len(Manifest(w))
    BY <1>4, LengthType DEF Watch
  <2>2. Dependent(w) \in Dependents /\ Dependent(w).kind \in Kinds
    BY <2>1, ObjectType DEF Dependents
  <2>3. HandlerFor(Dependent(w)) \in Handlers
    BY <2>2, HandlerType
  <2> HIDE DEF Dependent
  <2>4. TypeOK'
    BY <1>4, <2>2, <2>3 DEF Watch
  <2> USE DEF Dependent
  <2>5. \A h \in handlers' : h = HandlerFor(h.object) /\ Rendered(h.object)
    BY <1>4, <2>1, <2>2, HandlerType DEF Watch, Rendered
  <2>6. QED
    BY <1>4, <2>4, <2>5, LengthType DEF Watch
<1>5. ASSUME NEW w \in Workers, WatchFails(w) PROVE HookInv'
  BY <1>5, LengthType DEF WatchFails
<1>6. ASSUME NEW w \in Workers, Record(w) PROVE HookInv'
  <2>1. /\ cr[w] \in CRs /\ Manifest(w) \in Manifests /\ next[w] \in 1 .. Len(Manifest(w))
    BY <1>6, LengthType DEF Record
  <2>2. Dependent(w).kind \in Kinds
    BY <2>1, ObjectType DEF Dependents
  <2>3. TypeOK'
    BY <1>6, <2>2 DEF Record
  <2>4. ASSUME NEW v \in Workers, pc'[v] # "idle",
               NEW i \in 1 .. Len(Manifest(v)'), i < next'[v]
        PROVE  Manifest(v)'[i].kind \in watches'
    <3>1. pc[v] # "idle" /\ Manifest(v)' = Manifest(v) /\ Manifest(v) \in Manifests
      BY <1>6, <2>4 DEF Record
    <3>2. CASE v = w
      <4>1. i < next[w] \/ i = next[w]
        BY <1>6, <2>1, <2>4, <3>1, <3>2, LengthType DEF Record
      <4>2. QED
        BY <1>6, <3>1, <3>2, <4>1 DEF Record
    <3>3. CASE v # w
      BY <1>6, <2>4, <3>1, <3>3 DEF Record
    <3>4. QED
      BY <3>2, <3>3
  <2>5. \A k \in watches' : \E h \in handlers' : h.object.kind = k
    <3>1. HandlerFor(Dependent(w)) \in handlers
      BY <1>6 DEF Record
    <3>2. HandlerFor(Dependent(w)).object = Dependent(w)
      BY <2>1, ObjectType, HandlerType
    <3>3. QED
      BY <1>6, <3>1, <3>2 DEF Record
  <2>6. QED
    BY <1>6, <2>3, <2>4, <2>5, LengthType DEF Record
<1>7. ASSUME NEW w \in Workers, HookReturns(w) PROVE HookInv'
  BY <1>7, LengthType DEF HookReturns
<1>8. ASSUME NEW c \in CRs, Enqueue(c) PROVE HookInv'
  BY <1>8 DEF Enqueue
<1>9. CASE Restart
  BY <1>9 DEF Restart
<1>10. CASE UNCHANGED vars
  BY <1>10 DEF vars
<1>11. QED
  BY <1>1, <1>2, <1>3, <1>4, <1>5, <1>6, <1>7, <1>8, <1>9, <1>10 DEF Next, Hook

\* The steps of a hook stand on objects of the manifest of the CR the worker
\* alone reconciles, and whatever a hook has passed has a source on record.
THEOREM HooksSound == Spec => []HookInv
BY InitHookInv, StepHookInv, PTL DEF Spec

\* Whatever the charts render and however many hooks run at a time, each object
\* of a hooked release has a source, and one with an owner reference is followed
\* if its kind is Placed: although the record of watches is keyed by kind alone
\* and filled by concurrent workers, any source of such a kind serves.
THEOREM ObjectsFollowed == Spec => []OwnedFollowed
<1>1. HookInv => OwnedFollowed
  <2> SUFFICES ASSUME HookInv, NEW c \in hooked, NEW i \in 1 .. Len(released[c])
               PROVE  LET d == released[c][i] IN
                      /\ \E h \in handlers : Serves(h, d)
                      /\ Mark(d) = "owner" /\ Placed(d.kind) =>
                            \E h \in handlers : Follows(h, d)
    BY DEF OwnedFollowed
  <2> DEFINE d == released[c][i]
  <2>1. released[c] \in Manifests /\ d.kind \in watches
    BY DEF HookInv
  <2>2. PICK h \in handlers : h.object.kind = d.kind
    BY <2>1 DEF HookInv
  <2>3. h = HandlerFor(h.object) /\ Rendered(h.object)
    BY DEF HookInv
  <2>4. ASSUME Mark(d) = "owner", Placed(d.kind) PROVE Follows(h, d)
    <3>1. d.kind \notin ClusterScoped
      BY <2>4 DEF Mark, SupportsOwnerReference
    <3>2. h.object.namespace = "own"
      BY <2>2, <2>3, <2>4 DEF Placed, Rendered
    <3>3. h = OwnerHandler(h.object)
      BY <2>2, <2>3, <3>1, <3>2 DEF HandlerFor, SupportsOwnerReference
    <3>4. h.mark = "owner" /\ h.type = CRKind
      BY <3>3 DEF OwnerHandler
    <3>5. QED
      BY <2>2, <2>4, <3>4 DEF Follows, Serves
  <2>5. QED
    BY <2>2, <2>4 DEF Serves
<1>2. QED
  BY <1>1, HooksSound, PTL

----------------------------------------------------------------------------
(* The Secret informers                                                    *)

\* Before any reconciliation nothing is held, recorded or started.
LEMMA InitMutexInv == SecretsInit => MutexInv
BY NobodyAssumption, AbortsAssumption DEF SecretsInit, Started, MutexInv, SecretsTypeOK, Places

\* A step of any caller preserves what the others assume of the shared map:
\* the mutex excludes every other caller from the steps that change it.
LEMMA StepMutexInv == MutexInv /\ [SecretsNext]_secretsVars => MutexInv'
<1> SUFFICES ASSUME MutexInv, [SecretsNext]_secretsVars PROVE MutexInv'
  OBVIOUS
<1> USE NobodyAssumption, AbortsAssumption DEF Move, MutexInv, SecretsTypeOK, Places
<1>1. ASSUME NEW w \in Callers, NEW n \in Namespaces, Call(w, n) PROVE MutexInv'
  BY <1>1 DEF Call
<1>2. ASSUME NEW w \in Callers, Lock(w) PROVE MutexInv'
  BY <1>2 DEF Lock
<1>3. ASSUME NEW w \in Callers, Insert(w) PROVE MutexInv'
  BY <1>3 DEF Insert
<1>4. ASSUME NEW w \in Callers, Run(w) PROVE MutexInv'
  BY <1>4 DEF Run
<1>5. ASSUME NEW w \in Callers, WaitForCacheSync(w) PROVE MutexInv'
  BY <1>5 DEF WaitForCacheSync
<1>6. ASSUME NEW w \in Callers, Unlock(w) PROVE MutexInv'
  BY <1>6 DEF Unlock
<1>7. ASSUME NEW w \in Callers, Read(w) PROVE MutexInv'
  BY <1>7 DEF Read
<1>8. ASSUME NEW w \in Callers, ReadAborts(w) PROVE MutexInv'
  BY <1>8 DEF ReadAborts
<1>9. ASSUME NEW w \in Callers, Return(w) PROVE MutexInv'
  BY <1>9 DEF Return
<1>10. ASSUME NEW n \in Namespaces, CacheSync(n) PROVE MutexInv'
  BY <1>10 DEF CacheSync
<1>11. CASE UNCHANGED secretsVars
  BY <1>11 DEF secretsVars
<1>12. QED
  BY <1>1, <1>2, <1>3, <1>4, <1>5, <1>6, <1>7, <1>8, <1>9, <1>10, <1>11
     DEF SecretsNext, Caller

\* What each step of getWatchedSecretsForNamespace assumes of the other callers
\* holds in every reachable state: the mutex and the map agree.
THEOREM MutexProtects == SecretsSpec => []MutexInv
BY InitMutexInv, StepMutexInv, PTL DEF SecretsSpec

\* No reconciliation lists releases from a cache that has not synced, although
\* the map is read outside the mutex.
THEOREM SyncedLists == SecretsSpec => []ListsFromSynced
<1>1. MutexInv => ListsFromSynced
  BY DEF MutexInv, ListsFromSynced
<1>2. QED
  BY <1>1, MutexProtects, PTL

\* One process starts at most one informer per namespace.
THEOREM SingleInformer == SecretsSpec => []OneInformer
<1>1. MutexInv => OneInformer
  BY DEF MutexInv, SecretsTypeOK, OneInformer
<1>2. QED
  BY <1>1, MutexProtects, PTL
=============================================================================
