--------------------------- MODULE OperatorInstall --------------------------
(***************************************************************************)
(* `run bundle', `run bundle-upgrade' and `run packagemanifests': the      *)
(* OperatorInstaller of registry/operator_installer.go with its catalog    *)
(* creators (index_image.go, configmap.go) and registry pods, one TLA+     *)
(* step per call that changes the cluster.  Commands run one after the     *)
(* other; one may fail at any call, pass its deadline or be interrupted.   *)
(* OLM resolves subscriptions, runs approved plans and installs CSVs       *)
(* meanwhile, and `cleanup' (module OperatorUninstall) may remove          *)
(* everything; what the catalog source owned is collected later.           *)
(***************************************************************************)
EXTENDS Catalog, FiniteSets

CONSTANTS
    Bundles,       \* bundle images, each with the CSV of its name
    Replaces,      \* spec.replaces of each CSV, None if it has none
    LabelChannel,  \* the first channel of the bundles' labels
    Default,       \* the default index image
    Index,         \* [index images -> [fbc, opm: BOOLEAN, catalog]]
    Listed,        \* the install modes that the operator's CSV lists
    Modes,         \* those of them that it says are supported
    TargetsOf,     \* [install modes -> sets of namespaces to watch]
    Own,           \* the operator's namespace
    Manifests,     \* package manifests on disk: a channel's bundles, oldest first
    Traditional,   \* [installed, index, channel] that OLM may have installed
    MaxMaps,       \* bound: ConfigMaps of one catalog
    MaxFaults,     \* bound: failures, deadlines, interruptions
    MaxRuns        \* bound: commands

ASSUME IndexAssumption ==
    /\ Default \in DOMAIN Index /\ Index[Default].catalog = EmptyCatalog
    /\ None \notin DOMAIN Index /\ \A i \in DOMAIN Index : IsCatalog(Index[i].catalog)
ASSUME TraditionalAssumption == \A t \in Traditional : t.index \in DOMAIN Index
ASSUME BundleAssumption == Replaces \in [Bundles -> Bundles \cup {None}] /\ None \notin Bundles
ASSUME NamesAssumption ==
    "service" \notin Bundles /\ None \notin {"service", "Pending", "Running", "Terminating"}
ASSUME ModesAssumption == Modes \subseteq Listed
ASSUME LimitsAssumption == MaxMaps \in Nat /\ MaxFaults \in Nat /\ MaxRuns \in Nat

VARIABLES
    op,        \* the command: none, bundle, upgrade, manifests
    pc,        \* where it stands
    arg,       \* what it was given and has read: see NoArg
    result,    \* what it says
    runs,      \* commands so far
    faults,    \* failures so far
    catsrc,    \* the catalog source: its address, spec.image and annotations
    maps,      \* the ConfigMaps with the catalog, by partition
    pods,      \* the registry pods, by bundle image
    registry,  \* the package manifests registry: data, deployment, service
    groups,    \* the operator groups' target namespaces, a sequence
    sub,       \* the subscription
    plans,     \* the install plans
    csvs       \* phase of each CSV, None if it does not exist

command == <<op, pc, arg, result, runs>>
cluster == <<catsrc, maps, pods, registry, groups, sub, plans, csvs>>
vars == <<command, faults, cluster>>

NoArg == [bundle |-> None, index |-> None, mode |-> None, channel |-> None, items |-> <<>>,
          docs |-> <<>>, written |-> 0, old |-> None, plan |-> 0, ref |-> 0, data |-> <<>>]

Absent == [uid |-> None, data |-> <<>>]

\* Each incarnation of the catalog source has its number: the objects of an
\* earlier one are garbage.
TypeOK ==
    /\ op \in {"none", "bundle", "upgrade", "manifests"}
    /\ pc \in {"idle", "source", "maps", "pod", "running", "link", "old", "gone",
               "registry", "stale", "data", "deployment", "service", "rollout",
               "group", "subscribe", "plan", "approve", "csv"}
    /\ DOMAIN arg = DOMAIN NoArg
    /\ result \in {None, "ok", "error"}
    /\ runs \in 0 .. MaxRuns /\ faults \in 0 .. MaxFaults
    /\ catsrc.exists \in BOOLEAN /\ catsrc.uid \in 0 .. MaxRuns
    /\ catsrc.pod \in Bundles \cup {None, "service"} /\ catsrc.image \in DOMAIN Index \cup {None}
    /\ DOMAIN pods = Bundles
    /\ DOMAIN registry = {"data", "deployment", "service"}
    /\ sub.exists \in BOOLEAN /\ sub.plan \in 0 .. Len(plans)
    /\ sub.installed \in Bundles \cup {None}
    /\ csvs \in [Bundles -> {None, "Installing", "Succeeded", "Failed"}]

NoSource(uid) == [exists |-> FALSE, uid |-> uid, pod |-> None, image |-> None,
                  index |-> None, items |-> <<>>]
NoSub == [exists |-> FALSE, channel |-> None, starting |-> None, installed |-> None, plan |-> 0]
NoPod == [uid |-> None, index |-> None, items |-> <<>>, phase |-> None,
          maps |-> 0, serves |-> None]
NoMap == [uid |-> None, docs |-> <<>>]

\* An empty namespace, or one where OLM has installed the operator from an
\* index image, with any operator groups the namespace may have.
Init ==
    /\ op = "none" /\ pc = "idle" /\ arg = NoArg /\ result = None /\ runs = 0 /\ faults = 0
    /\ maps = [i \in 1 .. MaxMaps |-> NoMap] /\ pods = [b \in Bundles |-> NoPod]
    /\ registry = [o \in {"data", "deployment", "service"} |-> Absent]
    /\ \/ /\ groups \in {<<>>, <<{Own}>>, <<{}>>, <<{}, {Own}>>}
          /\ catsrc = NoSource(0) /\ sub = NoSub /\ plans = <<>>
          /\ csvs = [b \in Bundles |-> None]
       \/ \E t \in Traditional :
          /\ groups = <<{Own}>>
          /\ catsrc = [NoSource(0) EXCEPT !.exists = TRUE, !.image = t.index]
          /\ sub = [exists |-> TRUE, channel |-> t.channel, starting |-> None,
                    installed |-> t.installed, plan |-> 1]
          /\ plans = <<[csv |-> t.installed, approved |-> TRUE, done |-> TRUE]>>
          /\ csvs = [b \in Bundles |-> IF b = t.installed THEN "Succeeded" ELSE None]

----------------------------------------------------------------------------
(* Commands                                                                *)

End(r) == pc' = "idle" /\ result' = r /\ UNCHANGED <<op, arg, runs>>
Goto(at) == pc' = at /\ UNCHANGED <<op, arg, result, runs>>

\* A command's checks fail before it changes anything.
Rejected(o, bundle) ==
    /\ op' = o /\ arg' = [NoArg EXCEPT !.bundle = bundle]
    /\ pc' = "idle" /\ result' = "error" /\ runs' = runs + 1

Accepted(o, given, at) ==
    op' = o /\ arg' = given /\ pc' = at /\ result' = None /\ runs' = runs + 1

\* CheckCompatibility: TargetsOf has the modes that Validate lets through.  A mode
\* that the CSV does not list is refused later, by ensureOperatorGroup.
Compatible(mode) ==
    /\ mode = "SingleNamespace" => Own \notin TargetsOf[mode]
    /\ Listed # {}
    /\ mode \notin Listed \ Modes

\* setAddMode
AddMode(index) == IF Index[index].opm THEN "semver" ELSE "replaces"
Item(bundle, index) == [bundle |-> bundle, mode |-> AddMode(index)]

\* generateFBCContent, for the index images that are file-based
NewCatalog ==
    [i \in DOMAIN Index |-> [b \in Bundles |->
        IF Index[i].fbc THEN GenerateFBCContent(i = Default, Index[i].catalog, b) ELSE None]]
NewDocs == [i \in DOMAIN Index |-> [b \in Bundles |-> Docs(NewCatalog[i][b])]]

\* bundle.Install.setup
RunBundle(bundle, index, mode) ==
    LET catalog == NewCatalog[index][bundle]
        given == [NoArg EXCEPT !.bundle = bundle, !.index = index, !.mode = mode,
                               !.channel = IF Index[index].fbc THEN DefaultChannel
                                           ELSE LabelChannel,
                               !.items = <<Item(bundle, index)>>, !.docs = NewDocs[index][bundle]]
    IN  /\ pc = "idle" /\ runs < MaxRuns
        /\ IF Compatible(mode) /\ (Index[index].fbc => catalog # None)
           THEN Accepted("bundle", given, "source")
           ELSE Rejected("bundle", bundle)
        /\ UNCHANGED <<faults, cluster>>

\* packagemanifests.Install.setup: the channel whose current CSV is bundle.
RunManifests(data, bundle, mode) ==
    LET given == [NoArg EXCEPT !.bundle = bundle, !.mode = mode, !.channel = LabelChannel,
                               !.data = data]
    IN  /\ pc = "idle" /\ runs < MaxRuns
        /\ IF Last(data) = bundle /\ Compatible(mode) /\ Modes # {}
           THEN Accepted("manifests", given, "source")
           ELSE Rejected("manifests", bundle)
        /\ UNCHANGED <<faults, cluster>>

\* Mutant of UpgradedCatalogs: it takes the channel from the labels.
UpgradedInLabelChannel(bundle, index, items) ==
    IF ~Index[index].fbc THEN {None}
    ELSE IF items = <<>>
         THEN HandleTraditionalUpgrade(Index[index].catalog, bundle, LabelChannel)
    ELSE RunFBCUpgrade(index = Default, Index[index].catalog,
                       [i \in DOMAIN items |-> items[i].bundle], bundle, LabelChannel)

\* Upgrade.setup, the reads of UpgradeOperator and those of UpdateCatalog: the
\* index image and the bundles so far are annotations of the catalog source,
\* or its spec.image before the first upgrade of what OLM installed.
UpgradedCatalogs(bundle, index, items) ==
    IF ~Index[index].fbc THEN {None}
    ELSE IF items = <<>>
         THEN HandleTraditionalUpgrade(Index[index].catalog, bundle, sub.channel)
    ELSE RunFBCUpgrade(index = Default, Index[index].catalog,
                       [i \in DOMAIN items |-> items[i].bundle], bundle, sub.channel)

Upgrade(bundle) ==
    LET items == catsrc.items
        index == IF items = <<>> THEN catsrc.image
                 ELSE IF catsrc.index # None THEN catsrc.index ELSE Default
        given(c) ==
            [NoArg EXCEPT !.bundle = bundle, !.index = index, !.channel = sub.channel,
                          !.items = Append(items, Item(bundle, index)), !.docs = Docs(c),
                          !.old = IF items = <<>> THEN None ELSE catsrc.pod,
                          !.plan = sub.plan]
    IN  /\ pc = "idle" /\ runs < MaxRuns
        /\ IF ~sub.exists \/ ~catsrc.exists \/ index = None
           THEN Rejected("upgrade", bundle)
           ELSE \E c \in UpgradedCatalogs(bundle, index, items) :
                   IF Index[index].fbc /\ c = None
                   THEN Rejected("upgrade", bundle)
                   ELSE Accepted("upgrade", given(c), "maps")
        /\ UNCHANGED <<faults, cluster>>

\* A call fails, the deadline passes or the user interrupts.
Fails ==
    /\ pc # "idle" /\ faults < MaxFaults
    /\ faults' = faults + 1 /\ End("error")
    /\ UNCHANGED cluster

----------------------------------------------------------------------------
(* Catalogs in registry pods                                               *)

\* CreateCatalog
CreateSource ==
    /\ pc = "source"
    /\ IF catsrc.exists THEN End("error") /\ UNCHANGED catsrc
       ELSE /\ catsrc' = [NoSource(catsrc.uid + 1) EXCEPT !.exists = TRUE]
            /\ Goto(IF op = "bundle" THEN "maps" ELSE "registry")
    /\ UNCHANGED <<faults, maps, pods, registry, groups, sub, plans, csvs>>

\* createOrUpdateConfigMap: an update leaves the owner as it is.
CreatedOrUpdated(map, docs) ==
    [uid |-> IF map = NoMap THEN catsrc.uid ELSE map.uid, docs |-> docs]

\* createConfigMaps, one after the other; those left of a larger catalog stay.
CreateConfigMap ==
    /\ pc = "maps"
    /\ IF arg.docs = <<>> THEN Goto("pod") /\ UNCHANGED maps
       ELSE LET i == arg.written + 1
                n == InNextConfigMap(arg.docs) IN
            /\ i <= MaxMaps
            /\ maps' = [maps EXCEPT ![i] = CreatedOrUpdated(@, SubSeq(arg.docs, 1, n))]
            /\ arg' = [arg EXCEPT !.written = i, !.docs = SubSeq(@, n + 1, Len(@))]
            /\ UNCHANGED <<op, pc, result, runs>>
    /\ UNCHANGED <<faults, catsrc, pods, registry, groups, sub, plans, csvs>>

NewPod == [uid |-> catsrc.uid, index |-> arg.index, items |-> arg.items,
           phase |-> "Pending", maps |-> arg.written, serves |-> None]

\* Mutant of CreatePod: a pod that exists will do.
ReusePod ==
    /\ pc = "pod"
    /\ pods' = [pods EXCEPT ![arg.bundle] = IF @ = NoPod THEN NewPod ELSE @]
    /\ Goto("running")
    /\ UNCHANGED <<faults, catsrc, maps, registry, groups, sub, plans, csvs>>

\* The pod has the name of the bundle image.
CreatePod ==
    /\ pc = "pod"
    /\ IF pods[arg.bundle] # NoPod THEN End("error") /\ UNCHANGED pods
       ELSE pods' = [pods EXCEPT ![arg.bundle] = NewPod] /\ Goto("running")
    /\ UNCHANGED <<faults, catsrc, maps, registry, groups, sub, plans, csvs>>

\* checkPodStatus
AwaitPod ==
    /\ pc = "running"
    /\ IF pods[arg.bundle] = NoPod THEN End("error")
       ELSE pods[arg.bundle].phase = "Running" /\ Goto("link")
    /\ UNCHANGED <<faults, cluster>>

\* The rest of createAnnotatedRegistry, or updateCatalogSource.  A conflict
\* makes it read the catalog source again and write the same values.
Link(next) ==
    /\ pc = "link"
    /\ IF ~catsrc.exists THEN End("error") /\ UNCHANGED catsrc
       ELSE /\ catsrc' = IF op = "manifests" THEN [catsrc EXCEPT !.pod = "service"]
                         ELSE [catsrc EXCEPT !.pod = arg.bundle, !.index = arg.index,
                                  !.items = arg.items,
                                  !.image = IF op = "upgrade" THEN None ELSE @]
            /\ Goto(next)
    /\ UNCHANGED <<faults, maps, pods, registry, groups, sub, plans, csvs>>

\* Mutant of LinkSource: the previous registry pod is kept.
LinkOnly == Link(IF op = "upgrade" THEN "plan" ELSE "group")

LinkSource ==
    Link(IF op # "upgrade" THEN "group" ELSE IF arg.old = None THEN "plan" ELSE "old")

\* deleteRegistryPod
DeleteOld ==
    /\ pc = "old"
    /\ IF pods[arg.old] = NoPod THEN End("error") /\ UNCHANGED pods
       ELSE pods' = [pods EXCEPT ![arg.old].phase = "Terminating"] /\ Goto("gone")
    /\ UNCHANGED <<faults, catsrc, maps, registry, groups, sub, plans, csvs>>

AwaitGone ==
    /\ pc = "gone" /\ pods[arg.old] = NoPod
    /\ Goto("plan")
    /\ UNCHANGED <<faults, cluster>>

----------------------------------------------------------------------------
(* Registries of package manifests                                         *)

\* registryUp: a registry with the same data is kept, whoever owns it.
CheckRegistry ==
    /\ pc = "registry"
    /\ Goto(IF registry["deployment"] = Absent THEN "data"
            ELSE IF registry["data"].data = arg.data THEN "link" ELSE "stale")
    /\ UNCHANGED <<faults, cluster>>

\* DeletePackageManifestsRegistry
DeleteStale ==
    /\ pc = "stale"
    /\ \/ \E o \in DOMAIN registry :
             /\ registry[o] # Absent
             /\ o = "deployment" => registry["data"] = Absent
             /\ o = "service" => registry["deployment"] = Absent
             /\ registry' = [registry EXCEPT ![o] = Absent]
          /\ Goto("stale")
       \/ /\ \A o \in DOMAIN registry : registry[o] = Absent
          /\ Goto("data") /\ UNCHANGED registry
    /\ UNCHANGED <<faults, catsrc, maps, pods, groups, sub, plans, csvs>>

\* CreatePackageManifestsRegistry: what exists counts as created.
CreateObject(o, next) ==
    /\ pc = o
    /\ registry' = [registry EXCEPT ![o] =
                       IF @ # Absent THEN @ ELSE [uid |-> catsrc.uid, data |-> arg.data]]
    /\ Goto(next)
    /\ UNCHANGED <<faults, catsrc, maps, pods, groups, sub, plans, csvs>>

CreateData == CreateObject("data", "deployment")
CreateDeployment == CreateObject("deployment", "service")
CreateService == CreateObject("service", "rollout")

\* DoRolloutWait: its pods mount the data.
AwaitRollout ==
    /\ pc = "rollout" /\ registry["deployment"] # Absent /\ registry["data"] # Absent
    /\ Goto("link")
    /\ UNCHANGED <<faults, cluster>>

----------------------------------------------------------------------------
(* InstallOperator and the end of UpgradeOperator                          *)

\* Mutant of TargetNamespaces: the given namespaces, whatever the mode.
GivenNamespaces(supported, mode) == IF mode = None THEN {} ELSE TargetsOf[mode]

\* getTargetNamespaces: no namespace means all.
TargetNamespaces(supported, mode) ==
    IF "AllNamespaces" \in supported THEN {}
    ELSE IF "OwnNamespace" \in supported THEN {Own}
    ELSE IF mode = None THEN {} ELSE TargetsOf[mode]

EnsureOperatorGroup ==
    LET supported == IF arg.mode = None THEN Modes ELSE Modes \cap {arg.mode}
        targets == TargetNamespaces(supported, arg.mode)
    IN  /\ pc = "group"
        /\ CASE groups = <<>> /\ supported # {} -> groups' = <<targets>> /\ Goto("subscribe")
             [] /\ Len(groups) = 1 /\ supported # {}
                /\ arg.mode = None \/ groups[1] = targets ->
                    UNCHANGED groups /\ Goto("subscribe")
             [] OTHER -> UNCHANGED groups /\ End("error")
        /\ UNCHANGED <<faults, catsrc, maps, pods, registry, sub, plans, csvs>>

CreateSubscription ==
    /\ pc = "subscribe"
    /\ IF sub.exists THEN End("error") /\ UNCHANGED sub
       ELSE /\ sub' = [NoSub EXCEPT !.exists = TRUE, !.channel = arg.channel,
                                    !.starting = arg.bundle]
            /\ Goto("plan")
    /\ UNCHANGED <<faults, catsrc, maps, pods, registry, groups, plans, csvs>>

\* Mutant of WaitForInstallPlan: any plan will do.
WaitForAnyPlan ==
    /\ pc = "plan" /\ sub.plan # 0
    /\ pc' = "approve" /\ arg' = [arg EXCEPT !.ref = sub.plan] /\ UNCHANGED <<op, result, runs>>
    /\ UNCHANGED <<faults, cluster>>

WaitForInstallPlan ==
    /\ pc = "plan" /\ sub.plan # arg.plan
    /\ pc' = "approve" /\ arg' = [arg EXCEPT !.ref = sub.plan] /\ UNCHANGED <<op, result, runs>>
    /\ UNCHANGED <<faults, cluster>>

\* The plan is the one that the wait last read, whatever the subscription names
\* by now.
ApproveInstallPlan ==
    /\ pc = "approve"
    /\ plans' = [plans EXCEPT ![arg.ref].approved = TRUE]
    /\ Goto("csv")
    /\ UNCHANGED <<faults, catsrc, maps, pods, registry, groups, sub, csvs>>

\* Mutant of InstalledCSV: the CSV of any bundle will do.
InstalledAnyCSV ==
    /\ pc = "csv"
    /\ \E b \in Bundles : csvs[b] = "Succeeded" /\ End("ok")
    /\ UNCHANGED <<faults, cluster>>

\* DoCSVWait
InstalledCSV ==
    /\ pc = "csv"
    /\ \/ csvs[arg.bundle] = "Succeeded" /\ End("ok")
       \/ csvs[arg.bundle] = "Failed" /\ End("error")
    /\ UNCHANGED <<faults, cluster>>

----------------------------------------------------------------------------
(* Kubernetes                                                              *)

\* An init container unpacks the ConfigMaps that the pod mounts.
StartPod(b) ==
    LET serving(contents) == [pods EXCEPT ![b].phase = "Running", ![b].serves = contents]
        index == Index[pods[b].index]
    IN  /\ pods[b].phase = "Pending"
        /\ \A i \in 1 .. pods[b].maps : maps[i] # NoMap
        /\ \/ /\ index.fbc
              /\ pods' = serving(Contents(UNION {ToSet(maps[i].docs) : i \in 1 .. pods[b].maps}))
           \/ /\ ~index.fbc
              /\ \E db \in {Database(index.catalog, pods[b].items, LabelChannel, Replaces)} :
                    pods' = serving(Offers(db))
        /\ UNCHANGED <<command, faults, catsrc, maps, registry, groups, sub, plans, csvs>>

StopPod(b) ==
    /\ pods[b].phase = "Terminating"
    /\ pods' = [pods EXCEPT ![b] = NoPod]
    /\ UNCHANGED <<command, faults, catsrc, maps, registry, groups, sub, plans, csvs>>

\* The garbage of earlier catalog sources.
Garbage(uid) == uid # None /\ ~(catsrc.exists /\ uid = catsrc.uid)

CollectPod(b) ==
    /\ Garbage(pods[b].uid)
    /\ pods' = [pods EXCEPT ![b] = NoPod]
    /\ UNCHANGED <<command, faults, catsrc, maps, registry, groups, sub, plans, csvs>>

CollectConfigMap(i) ==
    /\ Garbage(maps[i].uid)
    /\ maps' = [maps EXCEPT ![i] = NoMap]
    /\ UNCHANGED <<command, faults, catsrc, pods, registry, groups, sub, plans, csvs>>

CollectRegistry(o) ==
    /\ Garbage(registry[o].uid)
    /\ registry' = [registry EXCEPT ![o] = Absent]
    /\ UNCHANGED <<command, faults, catsrc, maps, pods, groups, sub, plans, csvs>>

\* The cleanup command of module OperatorUninstall, with operator groups.  The
\* plans go with their subscription: none of them is run any more.
Cleanup ==
    /\ pc = "idle" /\ runs < MaxRuns /\ sub.exists /\ catsrc.uid > 0
    /\ op' = "none" /\ arg' = NoArg /\ runs' = runs + 1 /\ UNCHANGED <<pc, result>>
    /\ catsrc' = NoSource(catsrc.uid) /\ sub' = NoSub /\ groups' = <<>>
    /\ csvs' = [b \in Bundles |-> None]
    /\ plans' = [p \in DOMAIN plans |-> [plans[p] EXCEPT !.done = TRUE]]
    /\ UNCHANGED <<faults, maps, pods, registry>>

----------------------------------------------------------------------------
(* OLM                                                                     *)

Offered == [i \in DOMAIN Index |-> Offers(Index[i].catalog)]

\* The catalog that the catalog source serves.
Served ==
    CASE ~catsrc.exists -> None
      [] catsrc.pod \in Bundles -> pods[catsrc.pod].serves
      [] catsrc.pod = "service" ->
            IF \E o \in DOMAIN registry : registry[o] = Absent THEN None
            ELSE Contents({Channel(LabelChannel, ChainOf(registry["data"].data, None))})
      [] catsrc.image # None -> Offered[catsrc.image]
      [] OTHER -> None

\* What the subscription may go to from what is installed.
Targets ==
    LET at == IF Served = None THEN {}
              ELSE {c \in Served.channels : c.package = Package /\ c.name = sub.channel}
        entries == UNION {ToSet(c.entries) : c \in at}
    IN  IF sub.installed = None THEN {e.name : e \in {x \in entries : x.name = sub.starting}}
        ELSE {e.name : e \in {x \in entries : x.replaces = sub.installed}}

\* Nothing new is planned while a plan runs, or for what is already planned.
Pending(b) ==
    /\ sub.plan # 0 /\ ~plans[sub.plan].done
    /\ plans[sub.plan].approved \/ plans[sub.plan].csv = b

Resolve ==
    /\ sub.exists /\ Len(groups) = 1
    /\ \E b \in Targets :
          /\ ~Pending(b)
          /\ plans' = Append(plans, [csv |-> b, approved |-> FALSE, done |-> FALSE])
    /\ sub' = [sub EXCEPT !.plan = Len(plans')]
    /\ UNCHANGED <<command, faults, catsrc, maps, pods, registry, groups, csvs>>

SelectsOwn(targets) == targets = {} \/ Own \in targets

\* "if namespace is not contained in targetNamespaces [...] the CSV is not
\* deployed in namespace" (operator_installer.go:298): there it may be or not.
RunPlan(p) ==
    /\ sub.exists /\ plans[p].approved /\ ~plans[p].done
    /\ plans' = [plans EXCEPT ![p].done = TRUE]
    /\ sub' = [sub EXCEPT !.installed = plans[p].csv]
    /\ \/ csvs' = [csvs EXCEPT ![plans[p].csv] = "Installing"]
       \/ UNCHANGED csvs /\ \E i \in DOMAIN groups : ~SelectsOwn(groups[i])
    /\ UNCHANGED <<command, faults, catsrc, maps, pods, registry, groups>>

\* Does the operator support what the group selects?
GroupSupported == groups = <<{Own}>> \/ \E m \in Modes : groups = <<TargetsOf[m]>>

\* A CSV that succeeds replaces the others.
FinishCSV(b) ==
    /\ csvs[b] = "Installing"
    /\ csvs' = IF GroupSupported THEN [c \in Bundles |-> IF c = b THEN "Succeeded" ELSE None]
               ELSE [csvs EXCEPT ![b] = "Failed"]
    /\ UNCHANGED <<command, faults, catsrc, maps, pods, registry, groups, sub, plans>>

----------------------------------------------------------------------------

Proceed ==
    \/ CreateSource \/ CreateConfigMap \/ CreatePod \/ AwaitPod \/ LinkSource
    \/ DeleteOld \/ AwaitGone
    \/ CheckRegistry \/ DeleteStale \/ CreateData \/ CreateDeployment \/ CreateService
    \/ AwaitRollout
    \/ EnsureOperatorGroup \/ CreateSubscription \/ WaitForInstallPlan
    \/ ApproveInstallPlan \/ InstalledCSV

OLM == Resolve \/ (\E p \in DOMAIN plans : RunPlan(p)) \/ \E b \in Bundles : FinishCSV(b)

Kubernetes ==
    \/ \E b \in Bundles : StartPod(b) \/ StopPod(b) \/ CollectPod(b)
    \/ \E i \in DOMAIN maps : CollectConfigMap(i)
    \/ \E o \in DOMAIN registry : CollectRegistry(o)

Next ==
    \/ \E b \in Bundles, m \in DOMAIN TargetsOf \cup {None} :
          \/ \E i \in DOMAIN Index : RunBundle(b, i, m)
          \/ \E d \in Manifests : RunManifests(d, b, m)
    \/ \E b \in Bundles : Upgrade(b)
    \/ Cleanup \/ Proceed \/ Fails \/ OLM \/ Kubernetes

Spec == Init /\ [][Next]_vars

\* Commands poll until their deadline, which is a failure; Kubernetes and OLM
\* retry for ever.
FairSpec == Spec /\ WF_vars(Proceed) /\ WF_vars(Resolve)
                 /\ WF_vars(\E p \in DOMAIN plans : RunPlan(p))
                 /\ \A b \in Bundles : WF_vars(StartPod(b)) /\ WF_vars(StopPod(b))
                                        /\ WF_vars(FinishCSV(b))

----------------------------------------------------------------------------
(* Properties                                                              *)

Ends(r) == pc # "idle" /\ pc' = "idle" /\ result' = r

\* The registry pod that the catalog source names is there, is its own, and was
\* made for the bundles that its annotations list: the old pod goes after the
\* source has the new one (index_image.go:489, 496), and a pod that an
\* interrupted command left is never taken for the new one.
PodOfSource ==
    (catsrc.exists /\ catsrc.pod \in Bundles) =>
        LET pod == pods[catsrc.pod] IN
        /\ pod.uid = catsrc.uid /\ pod.phase = "Running"
        /\ pod.items = catsrc.items /\ pod.index = catsrc.index

\* And where the index image is file-based it serves all of them.
Blobs(items) == {BundleBlob(items[i].bundle) : i \in DOMAIN items}
CatalogServed ==
    /\ PodOfSource
    /\ (catsrc.exists /\ catsrc.pod \in Bundles) =>
          LET pod == pods[catsrc.pod] IN
          Index[pod.index].fbc => Blobs(pod.items) \subseteq pod.serves.bundles

\* Unless a command was cut short, a catalog source has one registry pod.
OneRegistryPod ==
    (faults = 0 /\ pc \in {"idle", "plan", "approve", "csv"}) =>
        Cardinality({b \in Bundles : pods[b] # NoPod /\ pods[b].uid = catsrc.uid}) <= 1

\* An approved plan is one that did not exist when the command began, and the
\* command succeeds only once its bundle's CSV has, with the catalog that the
\* command made in place and the plan that it approved.
OnlyNewPlans ==
    [][\A p \in DOMAIN plans : plans'[p].approved /\ ~plans[p].approved => p > arg.plan]_vars

SucceedsAsAsked ==
    [][Ends("ok") =>
          /\ csvs[arg.bundle] = "Succeeded" /\ plans[arg.ref].approved
          /\ IF op = "manifests" THEN catsrc.pod = "service"
             ELSE catsrc.pod = arg.bundle /\ catsrc.items = arg.items
          /\ sub.channel = arg.channel]_vars

\* The variables' shapes, and how far each command can have come.
IsSeq(s) == s \in Seq(ToSet(s))
Attached == {"old", "gone", "group", "subscribe", "plan", "approve", "csv"}
Subscribed == {"plan", "approve", "csv"}
ShapeInv ==
    /\ DOMAIN arg = DOMAIN NoArg /\ DOMAIN catsrc = DOMAIN NoSource(0)
    /\ DOMAIN sub = DOMAIN NoSub
    /\ DOMAIN pods = Bundles /\ \A b \in Bundles : DOMAIN pods[b] = DOMAIN NoPod
    /\ IsSeq(arg.items) /\ IsSeq(catsrc.items) /\ IsSeq(plans)
    /\ \A i \in DOMAIN plans : DOMAIN plans[i] = {"csv", "approved", "done"}
    /\ arg.plan \in Nat /\ sub.plan \in 0 .. Len(plans)
    /\ catsrc.uid \in Nat /\ catsrc.exists \in BOOLEAN /\ faults \in Nat
    /\ sub.exists \in BOOLEAN
StepsInv ==
    /\ op \in {"none", "bundle", "upgrade", "manifests"}
    /\ op = "none" => pc = "idle"
    /\ op = "bundle" => pc \in {"idle", "source", "maps", "pod", "running", "link"}
                                \cup (Attached \ {"old", "gone"})
    /\ op = "upgrade" => pc \in {"idle", "maps", "pod", "running", "link"}
                                \cup (Attached \ {"group", "subscribe"})
    /\ op = "manifests" => pc \in {"idle", "source", "registry", "stale", "data", "deployment",
                                   "service", "rollout", "link"} \cup (Attached \ {"old", "gone"})
    /\ pc # "idle" => arg.bundle \in Bundles /\ (op # "manifests" => arg.items # <<>>)
    /\ pc \notin {"idle", "source"} => catsrc.exists

\* What the command knows of the subscription and of its plans.
PlanInv ==
    /\ pc # "idle" /\ (op = "upgrade" \/ pc \in Subscribed) =>
          sub.exists /\ sub.channel = arg.channel /\ arg.plan <= sub.plan
    /\ pc # "idle" /\ op # "upgrade" /\ pc \notin Subscribed => arg.plan = 0
    /\ ~sub.exists => sub.plan = 0
    /\ pc \in {"approve", "csv"} => arg.ref \in DOMAIN plans /\ arg.plan < arg.ref
    /\ pc = "csv" => plans[arg.ref].approved

\* What it knows of the catalog source and of its pods: the one it makes, the
\* one it replaces, and the one that the catalog source names.
Making == {"running", "link"}
OwnPod(b) == pods[b] # NoPod /\ pods[b].uid = catsrc.uid
SourceInv ==
    /\ PodOfSource
    /\ catsrc.pod \in Bundles <=> catsrc.items # <<>>
    /\ pc \in Attached =>
          IF op = "manifests" THEN catsrc.pod = "service"
          ELSE catsrc.pod = arg.bundle /\ catsrc.items = arg.items
    /\ op # "upgrade" /\ pc \notin Attached \cup {"idle", "source"} => catsrc.pod \notin Bundles
    /\ op = "upgrade" /\ pc \in {"maps", "pod"} \cup Making =>
          arg.old = IF catsrc.items = <<>> THEN None ELSE catsrc.pod
    /\ op # "manifests" /\ pc \in Making =>
          /\ arg.bundle # catsrc.pod
          /\ pods[arg.bundle].uid = catsrc.uid
          /\ pods[arg.bundle].items = arg.items /\ pods[arg.bundle].index = arg.index
          /\ pods[arg.bundle].phase \in {"Pending", "Running"}
          /\ pc = "link" => pods[arg.bundle].phase = "Running"
    /\ pc \in {"old", "gone"} => arg.old \in Bundles \ {arg.bundle}
OwnPodsInv ==
    /\ \A b \in Bundles : pods[b] # NoPod => pods[b].uid \in 0 .. catsrc.uid
    /\ faults = 0 /\ catsrc.exists => \A b \in Bundles : OwnPod(b) =>
          \/ b = catsrc.pod
          \/ b = arg.bundle /\ op # "manifests" /\ pc \in Making
          \/ b = arg.old /\ pc \in {"old", "gone"}
    /\ faults = 0 /\ ~catsrc.exists => \A b, c \in Bundles : OwnPod(b) /\ OwnPod(c) => b = c
InstallInv == ShapeInv /\ StepsInv /\ PlanInv /\ SourceInv /\ OwnPodsInv

\* Where the bundles of a file-based catalog are.  What was added to an index
\* image is not in it; of the catalog that a command makes each bundle is still
\* to be written or in a ConfigMap, where the pod will find it unless that is
\* collected before the pod starts; the pod that runs has it.
Added(index, items) ==
    /\ index \in DOMAIN Index
    /\ Index[index].fbc => Blobs(items) \cap ToSet(Index[index].catalog.bundles) = {}
Held(doc, n) == \E i \in 1 .. n : maps[i] = NoMap \/ doc \in ToSet(maps[i].docs)
WrittenInv ==
    (op # "manifests" /\ Index[arg.index].fbc) =>
        /\ pc \in {"source", "maps", "pod"} => IsSeq(arg.docs) /\ arg.written \in Nat
        /\ \A d \in Blobs(arg.items) :
              /\ pc \in {"source", "maps"} => d \in ToSet(arg.docs) \/ Held(d, arg.written)
              /\ pc = "pod" => Held(d, arg.written)
              /\ pc \in Making =>
                    IF pods[arg.bundle].phase = "Pending" THEN Held(d, pods[arg.bundle].maps)
                    ELSE d \in pods[arg.bundle].serves.bundles
ContentInv ==
    /\ DOMAIN maps = 1 .. MaxMaps
    /\ catsrc.image \in DOMAIN Index \cup {None}
    /\ catsrc.items # <<>> => Added(catsrc.index, catsrc.items)
    /\ pc # "idle" /\ op # "manifests" => Added(arg.index, arg.items) /\ WrittenInv
    /\ CatalogServed

\* Nothing is left of an earlier catalog source.
NoGarbage ==
    /\ \A b \in Bundles : ~Garbage(pods[b].uid)
    /\ \A i \in DOMAIN maps : ~Garbage(maps[i].uid)
    /\ \A o \in DOMAIN registry : ~Garbage(registry[o].uid)

\* An installation succeeds unless something fails: the first one, and one after
\* a cleanup once what that left is collected; where the namespace has no
\* operator group or one that fits and selects the namespace (else the command
\* waits for a CSV that may be elsewhere, operator_installer.go:298); and in a
\* database the bundle needs none before it.
InstallSucceeds ==
    (/\ op \in {"bundle", "manifests"} /\ pc = "source" /\ faults = 0
     /\ ~catsrc.exists /\ NoGarbage
     /\ arg.mode \in Modes \cup {None}
     /\ \/ groups = <<>> /\ (arg.mode # None => SelectsOwn(TargetsOf[arg.mode]))
        \/ groups = <<{Own}>> /\ arg.mode \in {None, "OwnNamespace"}
     /\ op = "manifests" \/ Index[arg.index].fbc \/ Replaces[arg.bundle] = None)
        ~> ((pc = "idle" /\ result = "ok") \/ faults > 0)

\* So does an upgrade of what is installed and is the newest in its file-based
\* catalog, through several upgrades, unless something of an earlier catalog is
\* left: ConfigMaps that are found keep their old owner, and are collected with it.
UpgradeSucceeds ==
    (/\ op = "upgrade" /\ pc = "maps" /\ faults = 0 /\ NoGarbage
     /\ Index[arg.index].fbc /\ Targets = {}
     /\ \A i \in DOMAIN groups : SelectsOwn(groups[i])
     /\ sub.installed # None /\ csvs[sub.installed] = "Succeeded")
        ~> ((pc = "idle" /\ result = "ok") \/ faults > 0)

\* Not satisfied: "Subsequent upgrades will go through the runFBCUpgrade
\* function" (index_image.go:193).  What OLM installed can be upgraded once; the
\* next upgrade, with a bundle that the catalog does not have, is refused.
SubsequentUpgrades ==
    [][(/\ runs' # runs /\ op' = "upgrade" /\ op = "upgrade" /\ result = "ok"
        /\ Served # None /\ BundleBlob(arg'.bundle) \notin Served.bundles
        /\ Index[catsrc.index].fbc) => result' # "error"]_vars

\* Not satisfied: where the catalog already offered something newer, the command
\* approves the plan for that and waits for its own bundle in vain.
ApprovesOwnPlan ==
    [][\A p \in DOMAIN plans : plans'[p].approved /\ ~plans[p].approved
                                => plans[p].csv = arg.bundle]_vars
=============================================================================
