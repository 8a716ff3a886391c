---------------------------- MODULE OlmInstaller ---------------------------
(***************************************************************************)
(* `operator-sdk olm install' and `olm uninstall': the client of           *)
(* internal/olm/installer/client.go over internal/olm/client, one TLA+     *)
(* step per call.  A command may fail at any call, pass its deadline or be *)
(* interrupted, and further commands may follow, for any version.          *)
(* Meanwhile the API server establishes and finalizes custom resource      *)
(* definitions (CRDs) and OLM, once its deployments run, installs the      *)
(* ClusterServiceVersion (CSV) of the package server.                      *)
(*                                                                         *)
(* A version's manifests are its CRDs followed by its resources; objects   *)
(* of two versions may have the same name.  A resource whose kind is one   *)
(* of the CRDs is a custom resource (CR).                                  *)
(***************************************************************************)
EXTENDS Naturals, FiniteSets, Sequences, SequencesExt

CONSTANTS
    Versions,     \* releases of OLM
    CRDs,         \* the CRDs of every version, a sequence
    Resources,    \* [Versions -> sequences of names], the other manifests
    KindOf,       \* the CRD of each CR, None for other objects
    Operator,     \* deployment/olm-operator
    Catalog,      \* deployment/catalog-operator
    Server,       \* deployment/packageserver, which OLM makes from the CSV
    CSV,          \* the CSV of the package server
    Namespace,    \* the namespace of OLM
    Inside,       \* the objects in it
    MaxFaults,    \* bound: failures, deadlines and interruptions
    MaxRuns,      \* bound: commands
    None

ASSUME ManifestsAssumption ==
    /\ CRDs \in Seq(DOMAIN KindOf) /\ Resources \in [Versions -> Seq(DOMAIN KindOf)]
    /\ {Operator, Catalog, Server, CSV, Namespace} \cup Inside \cup ToSet(CRDs) \subseteq DOMAIN KindOf
    /\ \A o \in DOMAIN KindOf : KindOf[o] \in ToSet(CRDs) \cup {None}
    /\ None \notin Versions \cup DOMAIN KindOf
ASSUME BoundsAssumption == MaxFaults \in Nat /\ MaxRuns \in Nat

Objects == DOMAIN KindOf
Kinds == ToSet(CRDs)
Deployments == {Operator, Catalog, Server}

\* OLM is in its namespace, which the manifests create before anything in it.
ASSUME NamesAssumption ==
    /\ Operator # Catalog /\ Operator # Server /\ Catalog # Server
    /\ KindOf[CSV] # None /\ \A o \in Kinds \cup Deployments \cup {Namespace} : KindOf[o] = None
    /\ Deployments \cup {CSV} \subseteq Inside /\ Inside \cap (Kinds \cup {Namespace}) = {}
ASSUME NamespaceAssumption ==
    \A v \in Versions :
        /\ \E i \in DOMAIN Resources[v] : Resources[v][i] = Namespace
        /\ \A i \in DOMAIN Resources[v] : Resources[v][i] \in Inside =>
              \E j \in 1 .. i - 1 : Resources[v][j] = Namespace

\* Mutant of All: the CRDs come last.
AllCRDsLast(v) == Resources[v] \o CRDs

All(v) == CRDs \o Resources[v]

\* filterResources: what a sequence has at the positions `at', in order.
Filtered(s, at) ==
    [n \in 1 .. Cardinality(at) |-> s[CHOOSE i \in at : Cardinality({j \in at : j <= i}) = n]]

\* Resources outside the groups that the CRDs define.
NonOlm(v) == Filtered(Resources[v], {i \in DOMAIN Resources[v] : KindOf[Resources[v][i]] = None})
Subscription(o) == KindOf[o] # None /\ o # CSV
Subscriptions(v) == Filtered(Resources[v], {i \in DOMAIN Resources[v] : Subscription(Resources[v][i])})

VARIABLES
    op,        \* the command: none, install, uninstall, status
    version,   \* the version it is for, None before it is known
    pc,        \* where it stands
    todo,      \* the objects it still has to get, create or delete
    seen,      \* what GetObjectsStatus has got so far
    known,     \* the kinds its REST mapper has discovered
    result,    \* what the command says
    runs,      \* commands so far
    faults,    \* failures so far
    objs,      \* each object's version in the cluster, or None
    dying,     \* objects deleted but not yet gone
    served,    \* the CRDs whose kinds the API server serves
    rollout,   \* each deployment: progressing, complete, timedOut
    phase,     \* of the CSV
    installed  \* does the subscription's status name the CSV?

command == <<op, version, pc, todo, seen, known, result, runs>>
cluster == <<objs, dying, served, rollout, phase, installed>>
vars == <<command, faults, cluster>>

TypeOK ==
    /\ op \in {"none", "install", "uninstall", "status"}
    /\ version \in Versions \cup {None}
    /\ pc \in {"idle", "checkCRDs", "checkResources", "createCRDs", "awaitCRDs",
               "createResources", "operator", "catalog", "subscription", "csv",
               "server", "version", "checkAll", "delete", "gone"}
    /\ todo \in Seq(Objects)
    /\ seen \subseteq {"found", "notFound", "noKind", "error"}
    /\ known \subseteq Kinds
    /\ result \in {None, "ok", "error", "refused", "notInstalled"}
    /\ runs \in 0 .. MaxRuns /\ faults \in 0 .. MaxFaults
    /\ objs \in [Objects -> Versions \cup {None}]
    /\ dying \subseteq {o \in Objects : objs[o] # None}
    /\ served \subseteq {c \in Kinds : objs[c] # None}
    /\ rollout \in [Deployments -> {"progressing", "complete", "timedOut"}]
    /\ phase \in {"none", "Installing", "Succeeded", "Failed"}
    /\ installed \in BOOLEAN

Init ==
    /\ op = "none" /\ version = None /\ pc = "idle" /\ todo = <<>>
    /\ seen = {} /\ known = {} /\ result = None /\ runs = 0 /\ faults = 0
    /\ objs = [o \in Objects |-> None] /\ dying = {} /\ served = {}
    /\ rollout = [d \in Deployments |-> "progressing"]
    /\ phase = "none" /\ installed = FALSE

Exists(o) == objs[o] # None

----------------------------------------------------------------------------
(* Commands                                                                *)

Start(o, v, at, list) ==
    /\ pc = "idle" /\ runs < MaxRuns
    /\ op' = o /\ version' = v /\ pc' = at /\ todo' = list
    /\ seen' = {} /\ known' = {} /\ result' = None /\ runs' = runs + 1
    /\ UNCHANGED <<faults, cluster>>

Install(v) == Start("install", v, "checkCRDs", CRDs)
Uninstall(v) == Start("uninstall", v, "version", <<>>)
Status(v) == Start("status", v, "version", <<>>)

End(r) == pc' = "idle" /\ result' = r /\ todo' = <<>> /\ seen' = {}
Goto(at, list) == pc' = at /\ todo' = list /\ seen' = {} /\ UNCHANGED result

\* The deadline passes, the user interrupts, or a call fails.
Fails ==
    /\ pc # "idle" /\ faults < MaxFaults
    /\ faults' = faults + 1
    /\ End("error")
    /\ UNCHANGED <<op, version, known, runs, cluster>>

----------------------------------------------------------------------------
(* GetObjectsStatus and HasInstalledResources                              *)

\* The REST mapper asks the API server for a kind once.
Mapped(o) == KindOf[o] \in served \cup known \cup {None}
Mapping(o) == known \cup ({KindOf[o]} \cap served)

Outcome(o) == IF ~Mapped(o) THEN "noKind" ELSE IF Exists(o) THEN "found" ELSE "notFound"

Checking == pc \in {"checkCRDs", "checkResources", "awaitCRDs", "checkAll"}

Get ==
    /\ Checking /\ todo # <<>>
    /\ \/ seen' = seen \cup {Outcome(Head(todo))} /\ UNCHANGED faults
       \/ faults < MaxFaults /\ faults' = faults + 1 /\ seen' = seen \cup {"error"}
    /\ todo' = Tail(todo)
    /\ known' = Mapping(Head(todo))
    /\ UNCHANGED <<op, version, pc, result, runs, cluster>>

\* Mutant of HasInstalledResources: it takes all objects, not one.
AllInstalledResources == "found" \in seen /\ seen \cap {"notFound", "noKind"} = {}

HasInstalledResources == "found" \in seen

\* A kind that does not exist is no error where the list has its CRD.
Errored ==
    /\ ~HasInstalledResources
    /\ seen \cap (IF pc = "checkAll" THEN {"error"} ELSE {"error", "noKind"}) # {}

Judged == Checking /\ todo = <<>>

Refuse ==
    /\ Judged /\ pc \in {"checkCRDs", "checkResources"} /\ HasInstalledResources
    /\ End("refused")
    /\ UNCHANGED <<op, version, known, runs, faults, cluster>>

NothingInstalled ==
    /\ Judged /\ ~HasInstalledResources /\ ~Errored
    /\ \/ pc = "checkCRDs" /\ Goto("checkResources", NonOlm(version))
       \/ pc = "checkResources" /\ Goto("createCRDs", CRDs)
       \/ pc = "awaitCRDs" /\ Goto("awaitCRDs", CRDs)
       \/ pc = "checkAll" /\ End("notInstalled")
    /\ UNCHANGED <<op, version, known, runs, faults, cluster>>

\* An uninstallation goes on in spite of errors, the other commands do not.
CheckFails ==
    /\ Judged /\ Errored
    /\ IF op = "uninstall" THEN Goto("delete", All(version)) ELSE End("error")
    /\ UNCHANGED <<op, version, known, runs, faults, cluster>>

SomethingInstalled ==
    /\ Judged /\ HasInstalledResources
    /\ \/ pc = "awaitCRDs" /\ Goto("createResources", Resources[version])
       \/ op = "uninstall" /\ Goto("delete", All(version))
       \/ op = "status" /\ End("ok")
    /\ UNCHANGED <<op, version, known, runs, faults, cluster>>

----------------------------------------------------------------------------
(* InstallVersion                                                          *)

Creating == pc \in {"createCRDs", "createResources"}

\* Mutant of Create: a kind that is not served yet is an error.
CreateOnce ==
    /\ Creating /\ todo # <<>>
    /\ IF Mapped(Head(todo))
       THEN /\ objs' = [objs EXCEPT ![Head(todo)] = IF @ = None THEN version ELSE @]
            /\ todo' = Tail(todo) /\ UNCHANGED <<pc, seen, result>>
       ELSE End("error") /\ UNCHANGED objs
    /\ known' = Mapping(Head(todo))
    /\ UNCHANGED <<op, version, runs, faults, dying, served, rollout, phase, installed>>

\* A kind that is not served yet makes the creation try again.  An object
\* that already exists counts as created.
Create ==
    /\ Creating /\ todo # <<>> /\ Mapped(Head(todo))
    /\ objs' = [objs EXCEPT ![Head(todo)] = IF @ = None THEN version ELSE @]
    /\ todo' = Tail(todo)
    /\ known' = Mapping(Head(todo))
    /\ UNCHANGED <<op, version, pc, seen, result, runs, faults, dying, served, rollout,
                   phase, installed>>

Created ==
    /\ Creating /\ todo = <<>>
    /\ IF pc = "createCRDs" THEN Goto("awaitCRDs", CRDs) ELSE Goto("operator", <<>>)
    /\ UNCHANGED <<op, version, known, runs, faults, cluster>>

RolledOut(at, d, next, list) ==
    /\ pc = at /\ Exists(d) /\ rollout[d] = "complete"
    /\ Goto(next, list)
    /\ UNCHANGED <<op, version, known, runs, faults, cluster>>

RolloutFails ==
    /\ \E d \in Deployments :
          /\ pc = (CASE d = Operator -> "operator" [] d = Catalog -> "catalog"
                     [] d = Server -> "server")
          /\ Exists(d) /\ rollout[d] = "timedOut"
    /\ End("error")
    /\ UNCHANGED <<op, version, known, runs, faults, cluster>>

OperatorRolledOut == RolledOut("operator", Operator, "catalog", <<>>)
CatalogRolledOut == RolledOut("catalog", Catalog, "subscription", Subscriptions(version))

\* getSubscriptionCSV
SubscriptionCSV ==
    /\ pc = "subscription" /\ todo # <<>> /\ Exists(Head(todo)) /\ installed
    /\ Goto("csv", todo)
    /\ UNCHANGED <<op, version, known, runs, faults, cluster>>

\* DoCSVWait
CSVSucceeded ==
    /\ pc = "csv" /\ Exists(CSV) /\ phase = "Succeeded"
    /\ Goto("subscription", Tail(todo))
    /\ UNCHANGED <<op, version, known, runs, faults, cluster>>

CSVFailed ==
    /\ pc = "csv" /\ Exists(CSV) /\ phase = "Failed"
    /\ End("error")
    /\ UNCHANGED <<op, version, known, runs, faults, cluster>>

Subscribed ==
    /\ pc = "subscription" /\ todo = <<>>
    /\ Goto("server", <<>>)
    /\ UNCHANGED <<op, version, known, runs, faults, cluster>>

Installed ==
    /\ pc = "server" /\ Exists(Server) /\ rollout[Server] = "complete"
    /\ End("ok")
    /\ UNCHANGED <<op, version, known, runs, faults, cluster>>

----------------------------------------------------------------------------
(* Uninstall and UninstallVersion                                          *)

\* What GetInstalledVersion finds.
InstalledVersion == IF KindOf[CSV] \in served THEN objs[CSV] ELSE None

\* A version that was given is used if none can be found. The list of CSVs is the
\* REST mapper's first question for their kind.
CheckVersion ==
    /\ pc = "version"
    /\ \E found \in {InstalledVersion} \cup (IF faults < MaxFaults THEN {None} ELSE {}) :
          /\ IF found = InstalledVersion
             THEN known' = Mapping(CSV) /\ UNCHANGED faults
             ELSE faults' = faults + 1 /\ UNCHANGED known
          /\ LET target == IF version = None THEN found ELSE version IN
                IF target = None \/ found \notin {None, target}
                THEN End("error") /\ UNCHANGED version
                ELSE Goto("checkAll", All(target)) /\ version' = target
    /\ UNCHANGED <<op, runs, cluster>>

\* A kind that is not served and was not when this command began has no
\* resource: the deletion fails.
DeleteUnmapped ==
    /\ pc = "delete" /\ todo # <<>> /\ ~Mapped(Head(todo))
    /\ End("error")
    /\ UNCHANGED <<op, version, known, runs, faults, cluster>>

Delete ==
    /\ pc = "delete" /\ todo # <<>> /\ Mapped(Head(todo))
    /\ dying' = IF Exists(Head(todo)) THEN dying \cup {Head(todo)} ELSE dying
    /\ pc' = "gone" /\ known' = Mapping(Head(todo))
    /\ UNCHANGED <<op, version, todo, seen, result, runs, faults, objs, served, rollout,
                   phase, installed>>

\* Mutant of AwaitGone: it does not wait.
AwaitNothing ==
    /\ pc = "gone"
    /\ Goto("delete", Tail(todo))
    /\ UNCHANGED <<op, version, known, runs, faults, cluster>>

AwaitGone ==
    /\ pc = "gone" /\ ~Exists(Head(todo))
    /\ Goto("delete", Tail(todo))
    /\ UNCHANGED <<op, version, known, runs, faults, cluster>>

Uninstalled ==
    /\ pc = "delete" /\ todo = <<>>
    /\ End("ok")
    /\ UNCHANGED <<op, version, known, runs, faults, cluster>>

----------------------------------------------------------------------------
(* The API server and OLM                                                  *)

Establish(c) ==
    /\ Exists(c) /\ c \notin dying \cup served
    /\ served' = served \cup {c}
    /\ UNCHANGED <<command, faults, objs, dying, rollout, phase, installed>>

\* A CRD's CRs, the namespace's contents.
Contents(c) ==
    {o \in Objects : Exists(o) /\ (KindOf[o] = c \/ (c = Namespace /\ o \in Inside))}

\* Whoever is deleted takes its contents along.
DeleteContents(c) ==
    /\ c \in dying /\ ~(Contents(c) \subseteq dying)
    /\ dying' = dying \cup Contents(c)
    /\ UNCHANGED <<command, faults, objs, served, rollout, phase, installed>>

Running(d) == Exists(d) /\ rollout[d] = "complete"

\* The CSV has a finalizer once the operator has seen it.
Finalized(o) ==
    CASE o \in Kinds \cup {Namespace} -> Contents(o) = {}
      [] o = CSV -> phase = "none" \/ Running(Operator)
      [] OTHER -> TRUE

\* The garbage collector deletes the deployment of a CSV.
Vanish(o) ==
    /\ o \in dying /\ Finalized(o)
    /\ objs' = [objs EXCEPT ![o] = None]
    /\ dying' = (dying \ {o}) \cup (IF o = CSV /\ Exists(Server) THEN {Server} ELSE {})
    /\ served' = served \ {o}
    /\ rollout' = IF o \in Deployments THEN [rollout EXCEPT ![o] = "progressing"]
                  ELSE rollout
    /\ phase' = IF o = CSV THEN "none" ELSE phase
    /\ installed' = (installed /\ \E s \in Objects :
                        s # o /\ Exists(s) /\ KindOf[s] # None /\ s # CSV)
    /\ UNCHANGED <<command, faults>>

RollOut(d) ==
    /\ Exists(d) /\ d \notin dying /\ rollout[d] = "progressing"
    /\ \/ rollout' = [rollout EXCEPT ![d] = "complete"] /\ UNCHANGED faults
       \/ /\ faults < MaxFaults /\ faults' = faults + 1
          /\ rollout' = [rollout EXCEPT ![d] = "timedOut"]
    /\ UNCHANGED <<command, objs, dying, served, phase, installed>>

\* The subscription's CSV is created.
InstallCSV(s) ==
    /\ Running(Operator) /\ Running(Catalog)
    /\ KindOf[s] # None /\ s # CSV /\ Exists(s) /\ s \notin dying
    /\ KindOf[CSV] \in served \ dying /\ ~Exists(CSV)
    /\ objs' = [objs EXCEPT ![CSV] = objs[s]] /\ installed' = TRUE
    /\ UNCHANGED <<command, faults, dying, served, rollout, phase>>

\* The CSV's deployment is created.
DeployServer ==
    /\ Running(Operator) /\ Exists(CSV) /\ CSV \notin dying
    /\ phase = "none" /\ ~Exists(Server) /\ Namespace \notin dying
    /\ objs' = [objs EXCEPT ![Server] = objs[CSV]] /\ phase' = "Installing"
    /\ UNCHANGED <<command, faults, dying, served, rollout, installed>>

FinishCSV ==
    /\ Running(Operator) /\ Exists(CSV) /\ phase = "Installing"
    /\ \/ Running(Server) /\ phase' = "Succeeded"
       \/ rollout[Server] = "timedOut" /\ phase' = "Failed"
    /\ UNCHANGED <<command, faults, objs, dying, served, rollout, installed>>

----------------------------------------------------------------------------

Proceed ==
    \/ Get \/ Refuse \/ NothingInstalled \/ CheckFails \/ SomethingInstalled
    \/ Create \/ Created \/ OperatorRolledOut \/ CatalogRolledOut \/ RolloutFails
    \/ SubscriptionCSV \/ CSVSucceeded \/ CSVFailed \/ Subscribed \/ Installed
    \/ CheckVersion \/ DeleteUnmapped \/ Delete \/ AwaitGone \/ Uninstalled

APIServer ==
    \/ \E c \in Kinds : Establish(c)
    \/ \E c \in Kinds \cup {Namespace} : DeleteContents(c)
    \/ \E o \in Objects : Vanish(o)
    \/ \E d \in Deployments : RollOut(d)

OLM == \/ \E s \in Objects : InstallCSV(s)
       \/ DeployServer
       \/ FinishCSV

Next ==
    \/ \E v \in Versions : Install(v)
    \/ \E v \in Versions \cup {None} : Uninstall(v) \/ Status(v)
    \/ Proceed \/ Fails \/ APIServer \/ OLM

Spec == Init /\ [][Next]_vars

\* Commands poll until their deadline, which is a failure.
FairSpec ==
    /\ Spec
    /\ WF_vars(Proceed)
    /\ \A c \in Kinds : WF_vars(Establish(c))
    /\ \A c \in Kinds \cup {Namespace} : WF_vars(DeleteContents(c))
    /\ \A o \in Objects : WF_vars(Vanish(o)) /\ WF_vars(InstallCSV(o))
    /\ \A d \in Deployments : WF_vars(RollOut(d))
    /\ WF_vars(DeployServer) /\ WF_vars(FinishCSV)

----------------------------------------------------------------------------
(* Properties                                                              *)

Ends(o, r) == op = o /\ pc # "idle" /\ pc' = "idle" /\ result' = r

\* "OLM must be completely uninstalled before installation": an installation
\* that reports success has every object of its version, none from an earlier
\* installation of another version and none on its way out, although objects
\* that exist count as created (olm/client/client.go:141).
InstalledAsAsked ==
    [][Ends("install", "ok") =>
          /\ \A i \in DOMAIN All(version) :
                objs[All(version)[i]] = version /\ All(version)[i] \notin dying
          /\ objs[Server] = version
          /\ \A d \in Deployments : rollout[d] = "complete"]_vars

\* What a failed or interrupted installation left, and what a whole one made,
\* an uninstallation that reports success has removed, and OLM has not made
\* it again.
NothingRemains ==
    [][Ends("uninstall", "ok") =>
          \A i \in DOMAIN All(version) : ~Exists(All(version)[i])]_vars

\* A command works its way through a list of objects.
Rest(t, list) == Len(t) <= Len(list) /\ \A i \in 1 .. Len(t) : t[i] = list[Len(list) - Len(t) + i]
Done(t, list) == {list[i] : i \in 1 .. Len(list) - Len(t)}
AfterCRDs == {"awaitCRDs", "createResources", "operator", "catalog", "subscription", "csv", "server"}
Making == AfterCRDs \cup {"createCRDs"}
StepsInv ==
    /\ pc \in {"checkCRDs", "checkResources"} \cup Making => op = "install"
    /\ pc \in {"version", "checkAll"} => op \in {"uninstall", "status"}
    /\ pc \in {"delete", "gone"} => op = "uninstall"
    /\ pc \notin {"idle", "version"} => version \in Versions
    /\ pc \in {"checkCRDs", "createCRDs", "awaitCRDs"} => Rest(todo, CRDs)
    /\ pc = "checkResources" => Rest(todo, NonOlm(version))
    /\ pc = "createResources" => Rest(todo, Resources[version])
    /\ pc \in {"checkAll", "delete", "gone"} => Rest(todo, All(version))
    /\ pc \in {"gone", "csv"} => todo # <<>>

\* A CR has its CRD, and what is in the namespace has the namespace.
ClusterInv ==
    /\ \A o \in Objects : Exists(o) /\ KindOf[o] # None => Exists(KindOf[o])
    /\ \A o \in Inside : Exists(o) => Exists(Namespace)
    /\ \A d \in Deployments : ~Exists(d) => rollout[d] = "progressing"

\* What an installation has seen to be absent stays absent until it creates it,
\* and everything there is of OLM from then on is of its version, and stays.
OLMs(v) == Kinds \cup {Namespace} \cup Inside \cup ToSet(All(v)) \cup {o \in Objects : KindOf[o] # None}
MakingInv ==
    /\ pc = "checkCRDs" /\ seen \cap {"found", "error"} = {} =>
          \A o \in Done(todo, CRDs) : ~Exists(o)
    /\ pc = "checkResources" =>
          /\ \A c \in Kinds : ~Exists(c)
          /\ seen \cap {"found", "error", "noKind"} = {} =>
                \A o \in Done(todo, NonOlm(version)) : ~Exists(o)
    /\ pc \in {"checkCRDs", "checkResources"} => known = {}
    /\ pc \in Making =>
          /\ \A o \in OLMs(version) : Exists(o) => objs[o] = version /\ o \notin dying
          /\ \A c \in known : Exists(c)
    /\ pc = "createCRDs" => \A o \in Done(todo, CRDs) : Exists(o)
    /\ pc \in AfterCRDs => \A c \in Kinds : Exists(c)
    /\ pc = "createResources" => \A o \in Done(todo, Resources[version]) : Exists(o)
    /\ pc \in AfterCRDs \ {"awaitCRDs", "createResources"} =>
          \A o \in ToSet(Resources[version]) : Exists(o)
    /\ pc \in {"catalog", "subscription", "csv", "server"} => Running(Operator)
    /\ pc \in {"subscription", "csv", "server"} => Running(Catalog)

\* What an uninstallation has removed stays away: the CRDs go first, and without
\* them OLM makes nothing.
RemovedInv == pc \in {"delete", "gone"} => \A o \in Done(todo, All(version)) : ~Exists(o)
InstallerInv == TypeOK /\ StepsInv /\ ClusterInv /\ MakingInv /\ RemovedInv

\* An installation that begins in an empty cluster succeeds unless something
\* fails, in whatever order kinds become available (olm/installer/client.go:117
\* waits for one CRD only).
InstallSucceeds ==
    (op = "install" /\ runs = 1 /\ faults = 0) ~>
        ((pc = "idle" /\ result = "ok") \/ faults > 0 \/ runs > 1)

\* The first uninstallation ends, unless something fails: the finalizer of the
\* CSV is handled, because the CRDs go before the operator.
UninstallEnds ==
    (op = "uninstall" /\ pc = "delete" /\ faults = 0) ~> (pc = "idle" \/ faults > 0)

\* Not satisfied: an uninstallation that follows an interrupted one fails at the
\* first CR once the CRDs are gone, and never removes what comes after it.
UninstallRepeatable ==
    [][Ends("uninstall", "error") => faults' > faults \/ version = None
                                     \/ InstalledVersion \notin {None, version}]_vars
=============================================================================
