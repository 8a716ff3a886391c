-------------------------- MODULE DependentWatches --------------------------
(***************************************************************************)
(* The dynamic watches of one helm-operator controller: after a release,   *)
(* the release hook of internal/helm/controller/controller.go watches the  *)
(* kinds of the objects in the chart's manifest, so that a change of an    *)
(* object reconciles its CR again.                                         *)
(*                                                                         *)
(* An object is tied to its CR by what Build (internal/helm/client/        *)
(* client.go) put on it, an owner reference or annotations that name the   *)
(* CR; a watch follows it only if its handler reads that same mark.  The   *)
(* handler is chosen from the object as its chart renders it, and once for *)
(* all the objects of its kind.                                            *)
(* `watches' records the kinds already watched, under an RWMutex; the      *)
(* check, the call of Watch and the record are three steps of a worker.    *)
(***************************************************************************)
EXTENDS Naturals, Sequences, FiniteSets

CONSTANTS
    Workers,       \* concurrent reconciliations
    CRs,           \* the CRs of this controller, all in one namespace
    Kinds,         \* kinds of the objects a chart may render
    ClusterScoped, \* the kinds of Kinds that have no namespace
    Manifests,     \* manifests a release may have
    CRKind,        \* the kind of the CRs, namespaced
    None,          \* no CR, no manifest
    MaxFaults      \* bound: failed calls and restarts

\* An object as the chart renders it: `namespace' is what its manifest says,
\* "" nothing, "own" that of the release, "other" another; `keep' is the
\* resource policy.
Dependents == [kind : Kinds, namespace : {"", "own", "other"}, keep : BOOLEAN]

ASSUME KindsAssumption == ClusterScoped \subseteq Kinds /\ CRKind \notin Kinds
ASSUME ManifestsAssumption == Manifests \subseteq Seq(Dependents)
ASSUME NoneAssumption == None \notin CRs /\ None \notin Manifests
ASSUME FaultsAssumption == MaxFaults \in Nat

VARIABLES
    pending,   \* CRs in the work queue
    pc,        \* where the hook of each worker stands
    cr,        \* the CR each worker reconciles
    next,      \* the object of the manifest each worker looks at
    released,  \* the manifest each CR's release has
    hooked,    \* CRs whose last hook returned without an error
    watches,   \* the kinds recorded as watched
    handlers,  \* the event sources registered: for which object, reading what
    sources,   \* how many sources were registered for a kind
    faults     \* failed calls and restarts so far

vars == <<pending, pc, cr, next, released, hooked, watches, handlers, sources, faults>>

\* An event source is for a kind; `object' is the one Watch was called with.
Handlers == [object : Dependents, mark : {"owner", "annotation"}, type : Kinds \cup {CRKind}]

----------------------------------------------------------------------------
(* The marks of an object and what a watch reads                           *)

\* k8sutil.SupportsOwnerReference for a namespaced owner: the namespace is the
\* one the dependent carries when it is asked.
SupportsOwnerReference(kind, namespace) ==
    kind \notin ClusterScoped /\ namespace = "own"

\* Build sees the namespace Helm gave an object that had none.
Defaulted(d) == IF d.namespace = "" THEN "own" ELSE d.namespace
Mark(d) ==
    IF SupportsOwnerReference(d.kind, Defaulted(d)) /\ ~d.keep
    THEN "owner" ELSE "annotation"

OwnerHandler(d) == [object |-> d, mark |-> "owner", type |-> CRKind]
AnnotationHandler(d) == [object |-> d, mark |-> "annotation", type |-> d.kind]

\* Mutant of HandlerFor: like Build, the hook gives an object to be kept the
\* annotation, although the handler serves all objects of its kind.
HandlerForKept(d) ==
    IF SupportsOwnerReference(d.kind, d.namespace) /\ ~d.keep
    THEN OwnerHandler(d) ELSE AnnotationHandler(d)

\* The hook sees the manifest's text.  An annotation handler compares the
\* type annotation, the kind of the CR, with the type it was given: the kind
\* of the dependent.
HandlerFor(d) ==
    IF SupportsOwnerReference(d.kind, d.namespace)
    THEN OwnerHandler(d) ELSE AnnotationHandler(d)

Serves(h, d) == h.object.kind = d.kind
Follows(h, d) == Serves(h, d) /\ h.mark = Mark(d) /\ h.type = CRKind

----------------------------------------------------------------------------

Init ==
    /\ pending = CRs
    /\ pc = [w \in Workers |-> "idle"]
    /\ cr = [w \in Workers |-> None]
    /\ next = [w \in Workers |-> 1]
    /\ released = [c \in CRs |-> None]
    /\ hooked = {}
    /\ watches = {} /\ handlers = {}
    /\ sources = [k \in Kinds |-> 0]
    /\ faults = 0

Goto(w, to) == pc' = [pc EXCEPT ![w] = to]
Manifest(w) == released[cr[w]]
Dependent(w) == Manifest(w)[next[w]]

\* A reconciliation installs or upgrades the release and calls the hook.  The
\* work queue gives a CR to one worker at a time.
Release(w, c, m) ==
    /\ pc[w] = "idle" /\ c \in pending
    /\ \A v \in Workers : cr[v] # c
    /\ pending' = pending \ {c}
    /\ cr' = [cr EXCEPT ![w] = c]
    /\ released' = [released EXCEPT ![c] = m]
    /\ hooked' = hooked \ {c}
    /\ next' = [next EXCEPT ![w] = 1]
    /\ Goto(w, "check")
    /\ UNCHANGED <<watches, handlers, sources, faults>>

\* The kind is watched already: go on with the next object.
Watched(w) ==
    /\ pc[w] = "check" /\ next[w] <= Len(Manifest(w))
    /\ Dependent(w).kind \in watches
    /\ next' = [next EXCEPT ![w] = @ + 1]
    /\ UNCHANGED <<pending, pc, cr, released, hooked, watches, handlers, sources, faults>>

NotWatched(w) ==
    /\ pc[w] = "check" /\ next[w] <= Len(Manifest(w))
    /\ Dependent(w).kind \notin watches
    /\ Goto(w, "watch")
    /\ UNCHANGED <<pending, cr, next, released, hooked, watches, handlers, sources, faults>>

Watch(w) ==
    /\ pc[w] = "watch"
    /\ handlers' = handlers \cup {HandlerFor(Dependent(w))}
    /\ sources' = [sources EXCEPT ![Dependent(w).kind] = @ + 1]
    /\ Goto(w, "record")
    /\ UNCHANGED <<pending, cr, next, released, hooked, watches, faults>>

\* Mutant of WatchFails: the error of the hook is dropped by its caller.
WatchFailsQuietly(w) ==
    /\ pc[w] = "watch" /\ faults < MaxFaults
    /\ faults' = faults + 1
    /\ cr' = [cr EXCEPT ![w] = None]
    /\ Goto(w, "idle")
    /\ UNCHANGED <<pending, next, released, hooked, watches, handlers, sources>>

\* The kind cannot be mapped or watched: the hook, and with it Reconcile,
\* returns the error and the CR is queued again.
WatchFails(w) ==
    /\ pc[w] = "watch" /\ faults < MaxFaults
    /\ faults' = faults + 1
    /\ pending' = pending \cup {cr[w]}
    /\ cr' = [cr EXCEPT ![w] = None]
    /\ Goto(w, "idle")
    /\ UNCHANGED <<next, released, hooked, watches, handlers, sources>>

Record(w) ==
    /\ pc[w] = "record"
    /\ watches' = watches \cup {Dependent(w).kind}
    /\ next' = [next EXCEPT ![w] = @ + 1]
    /\ Goto(w, "check")
    /\ UNCHANGED <<pending, cr, released, hooked, handlers, sources, faults>>

HookReturns(w) ==
    /\ pc[w] = "check" /\ next[w] > Len(Manifest(w))
    /\ hooked' = hooked \cup {cr[w]}
    /\ cr' = [cr EXCEPT ![w] = None]
    /\ Goto(w, "idle")
    /\ UNCHANGED <<pending, next, released, watches, handlers, sources, faults>>

\* The user edits the CR or the reconcile period is over.
Enqueue(c) ==
    /\ c \notin pending
    /\ pending' = pending \cup {c}
    /\ UNCHANGED <<pc, cr, next, released, hooked, watches, handlers, sources, faults>>

\* The operator restarts: its watches are gone, every CR is listed again.
Restart ==
    /\ faults < MaxFaults
    /\ faults' = faults + 1
    /\ pending' = CRs
    /\ pc' = [w \in Workers |-> "idle"]
    /\ cr' = [w \in Workers |-> None]
    /\ hooked' = {} /\ watches' = {} /\ handlers' = {}
    /\ sources' = [k \in Kinds |-> 0]
    /\ UNCHANGED <<next, released>>

Hook(w) ==
    \/ Watched(w) \/ NotWatched(w) \/ Watch(w) \/ WatchFails(w)
    \/ Record(w) \/ HookReturns(w)

Next ==
    \/ \E w \in Workers, c \in CRs, m \in Manifests : Release(w, c, m)
    \/ \E w \in Workers : Hook(w)
    \/ \E c \in CRs : Enqueue(c)
    \/ Restart

Spec == Init /\ [][Next]_vars

\* A hook that can go on does, and the work queue hands out every CR in turn.
FairSpec ==
    /\ Spec
    /\ \A w \in Workers : WF_vars(Hook(w))
    /\ \A c \in CRs :
          SF_vars(\E w \in Workers, m \in Manifests : Release(w, c, m))

----------------------------------------------------------------------------
(* Properties                                                              *)

PCs == {"idle", "check", "watch", "record"}

TypeOK ==
    /\ pending \in SUBSET CRs /\ hooked \in SUBSET CRs
    /\ pc \in [Workers -> PCs]
    /\ cr \in [Workers -> CRs \cup {None}]
    /\ next \in [Workers -> Nat \ {0}]
    /\ released \in [CRs -> Manifests \cup {None}]
    /\ watches \in SUBSET Kinds /\ handlers \in SUBSET Handlers
    /\ sources \in [Kinds -> Nat]
    /\ faults \in 0 .. MaxFaults

Rendered(d) == \E m \in Manifests : \E i \in 1 .. Len(m) : m[i] = d

\* The charts name the release's namespace in every object of the kind.
Placed(kind) == \A m \in Manifests : \A i \in 1 .. Len(m) :
                    m[i].kind = kind => m[i].namespace = "own"

\* What the steps of a hook rely on: it stands on an object of the manifest of
\* the CR it alone works on, what it has passed is recorded, and what is
\* recorded has a source.
HookInv ==
    /\ TypeOK
    /\ \A w \in Workers :
          /\ pc[w] = "idle" <=> cr[w] = None
          /\ pc[w] # "idle" => Manifest(w) \in Manifests /\ cr[w] \notin hooked
          /\ pc[w] \in {"watch", "record"} => next[w] <= Len(Manifest(w))
          /\ pc[w] # "idle" => \A i \in 1 .. Len(Manifest(w)) :
                i < next[w] => Manifest(w)[i].kind \in watches
          /\ pc[w] = "record" => HandlerFor(Dependent(w)) \in handlers
          /\ \A v \in Workers : cr[w] = cr[v] /\ cr[w] # None => w = v
    /\ \A h \in handlers : h = HandlerFor(h.object) /\ Rendered(h.object)
    /\ \A k \in watches : \E h \in handlers : h.object.kind = k
    /\ \A c \in hooked :
          /\ released[c] \in Manifests
          /\ \A i \in 1 .. Len(released[c]) : released[c][i].kind \in watches

\* When the hook of a CR has returned without an error, each object of its
\* release has a source of its kind, and a change of one that has an owner
\* reference reaches the CR if all charts name the release's namespace in their
\* objects of that kind: the source may have been set up by another CR's hook in
\* another worker, for an object that is to be kept, or twice.
OwnedFollowed ==
    \A c \in hooked : \A i \in 1 .. Len(released[c]) :
        LET d == released[c][i] IN
        /\ \E h \in handlers : Serves(h, d)
        /\ Mark(d) = "owner" /\ Placed(d.kind) => \E h \in handlers : Follows(h, d)

\* Not satisfied: each object of a hooked release is followed, as the
\* documentation of watchDependentResources has it.
\* A cluster-scoped object, one in another namespace or one to be kept carries
\* annotations naming the CR's kind, which an annotation handler compares with
\* the kind of the object; and an object whose chart names no namespace is
\* watched by annotation although Build gave it an owner reference.
EveryObjectFollowed ==
    \A c \in hooked : \A i \in 1 .. Len(released[c]) :
        \E h \in handlers : Follows(h, released[c][i])

\* A hook that fails is called again until it returns without an error, for
\* every CR and after every restart.
AllHooked == \A c \in CRs : []<>(c \in hooked)
=============================================================================
