# Specifications of the Operator SDK

TLA+ models of the concurrent and failure-prone parts of this repository, model-checked with TLC
and, where a claim should hold for every size of the instance, proved with TLAPS. The source is
the reference: every definition of a component module translates code, and `PROJECT.json` ("map")
names the lines. Definitions marked external there stand for what the code calls or what calls it:
Helm's library, controller-runtime, the API server, OLM, users.

## 1. The system

The repository builds two programs. `helm-operator` runs in a cluster and turns custom resources
into Helm releases. `operator-sdk` is a command that scaffolds projects, generates manifests, runs
scorecard tests in a cluster, installs OLM, and installs and removes operators through OLM.

| Component | State | Operations | Interacts with |
|---|---|---|---|
| Helm reconciler (`internal/helm/controller/reconcile.go`) | its copy of the CR, the status it builds | `Reconcile`: finalizer, deletion branch, status, wait annotation | the CR informer, the API server, the release manager, users who edit at any time |
| Release manager (`release/manager.go`, `manifestutil/`) | release Secrets, chart objects | `Sync`, `InstallRelease` with undo, `UpgradeRelease` with rollback, `ReconcileRelease`, `UninstallRelease`, `CleanupRelease` | Helm's storage driver and kube client |
| Release naming (`release/manager_factory.go`) | releases of the namespace | `NewManager`, `getReleaseName` | other CRs with the same name |
| Secret informers (`client/actionconfig.go`, `client/secrets_watch.go`) | a map of informers under a mutex | `getWatchedSecrets`, `List` | all reconciliations of the process |
| Dependent watches (`controller/controller.go`, `client/client.go`, `k8sutil`) | which kinds are watched | the release hook | all workers of a controller, the work queue |
| Watches file and start-up (`watches/`, `run/cmd.go`, `flags/`) | none after start-up | load, validate, select namespaces | - |
| Scorecard run (`internal/scorecard/`) | stages, results, ConfigMap, pods | `Run`, `runStageParallel`, `RunTest`, `Cleanup` | kubelet, API server, its context's deadline |
| Scorecard gathering (`storage.go`) | two byte streams of a pod | `execInPod`, `untarAll`, `gatherTestOutput` | tar in the sidecar |
| Cleanup (`olm/operator/uninstall.go`) | objects found and to delete | `Run`, `deleteObjects`, `deleteOperatorGroup` | OLM, the removed operator, other packages |
| Install and upgrade (`olm/operator/registry/operator_installer.go`, `bundle/`, `bundleupgrade/`, `packagemanifests/`) | catalog source, operator group, subscription, install plan | `InstallOperator`, `UpgradeOperator` | OLM, other commands |
| Catalogs and registry pods (`registry/index_image.go`, `fbcindex/`, `index/`, `fbcutil/`) | annotations of a catalog source, pods, ConfigMaps | `CreateCatalog`, `UpdateCatalog` | other commands, the garbage collector |
| Package manifests registry (`registry/configmap*`) | ConfigMap, Deployment, Service | `CreatePackageManifestsRegistry`, delete, staleness | OLM |
| OLM installer (`olm/installer`, `olm/client`) | OLM's CRDs and resources | install, uninstall, status | API server, OLM |
| Manifest collector (`generate/collector/`) | manifests by kind | read, filter, deduplicate, split RBAC | kustomize's output |
| CSV generator (`generate/clusterserviceversion/`) | the base CSV in the project | updaters, descriptions from API markers | the collector, Go API types |
| Generate commands and migration (`cmd/operator-sdk/generate/`, `pkgmantobundle/`, `generate/packagemanifest/`) | files of the project | `kustomize manifests`, `bundle`, `packagemanifests`, `pkgman-to-bundle` | each other's files, the user's edits |
| Scorecard tests, bundle validation (`scorecard/tests/`, `registry/validate.go`, `validate/`) | none | checks of a bundle | the generated bundle |
| Plugins, CLI, utilities | files | sequential transformations | - |

What is hard here, and what a test with a fake client hardly reaches:

* two informers that lag behind the operator's own writes (the CR's and the Secrets');
* a reconcile loop of a dozen calls, each of which may fail or be the last before a crash, and
  which must be redone from what it left behind;
* users, the garbage collector and OLM acting between any two of these calls;
* goroutines that share a map, a channel or an error variable; waits without a deadline;
* commands that fail halfway and are run again, with what they need to know already deleted;
* generators that start from files which they, or a failed run of theirs, have written before.

What makes each component correct:

* *Helm reconciler*: a release never outlives a CR that promised to uninstall it; a running release
  is not torn down; no write overwrites a user's; a deletion with the wait annotation waits; kept
  objects are kept; the spec ends up deployed and reported; a deletion ends.
* *Secret informers*: one informer per namespace, lists only from a synced one, everybody served.
* *Dependent watches*: a change of any object of a release reaches its CR, at a bounded cost.
* *Scorecard*: each selected test is reported once, in order, with the verdict of a test that ran;
  stages and sequential tests do not overlap; the run ends; nothing is left in the cluster.
* *Gathering*: output is complete or an error, and ends.
* *Cleanup*: success means uninstalled; the operator outlives the finalizers it handles; neighbours
  keep their operator group.
* *Install, upgrade, catalogs*: the catalog source names a pod that serves what it says; success
  means that the bundle asked for is installed, by a plan of this command; an installation or an
  upgrade that nothing disturbs succeeds.
* *OLM installer*: success means installed, or removed, whatever an earlier command left; it ends.
* *Generators*: what is written depends on the manifests and API types alone and not on the files
  found; no rule granted in the project is lost; a bundle has what its CSV refers to and passes
  the scorecard when its markers say so; the channels name versions that are there.

The full list of hazards, each at its line with the properties that cover it, is in `PROJECT.json`.

## 2. Modules

| Module | Models | Runs | Proofs |
|---|---|---|---|
| `HelmOperator` | reconciler + release manager + Helm storage + two informers + users | `MCHelmOperator*.cfg` | `HelmOperatorProofs` |
| `ReleaseLifecycle` | abstract: what a release's user is promised; `HelmOperator` instantiates it as `Lifecycle` | `MCHelmOperator.cfg` | `HelmOperatorProofs` |
| `WatchedSecrets` | the shared Secret informers and their mutex | `MCWatchedSecrets.cfg` | `HelmInformersProofs` |
| `DependentWatches` | release hooks of several workers, ownership marks, the work queue | `MCDependentWatches.cfg` | `HelmInformersProofs` |
| `Catalog` | file-based catalogs: their validity, how a bundle is inserted, how they are cut into ConfigMaps | with `OperatorInstall` | - |
| `OperatorInstall` | `run bundle`, `run bundle-upgrade`, `run packagemanifests`, the registry pods, OLM; extends `Catalog` | `MCOperatorInstall*.cfg` | `OperatorInstallProofs` |
| `OlmInstaller` | `olm install`, `olm uninstall`, `olm status` | `MCOlmInstaller.cfg` | `OlmInstallerProofs` |
| `OperatorUninstall` | `cleanup` and its repetitions against OLM | `MCOperatorUninstall.cfg` | `OperatorUninstallProofs` |
| `Scorecard` | a run: stages, tests, deadline, cleanup, printing | `MCScorecard.cfg` | `ScorecardProofs` |
| `ScorecardGather` | the gathering of one test's output | `ScorecardGather.cfg` | `ScorecardGatherProofs` |
| `Collector` | sorting, filtering and splitting of manifests, and their files | with `Generate` | `GenerateProofs` |
| `ClusterServiceVersion` | the updaters of a CSV; extends `Collector` | with `Generate` | `GenerateProofs` |
| `Definitions` | the base CSV and its descriptions from API markers; extends `ClusterServiceVersion` | with `Generate` | `GenerateProofs` |
| `BundleTests` | the scorecard's checks and the validation of a bundle | with `Generate` | - |
| `Generate` | the generate and migration commands over one project; composes the four above | `MCGenerate.cfg` | `GenerateProofs` |

`HelmOperator` uses of the Secret informers only that their lists may lag (`StorageLag`);
`WatchedSecrets` shows when a reconciliation obtains such a list at all. `Scorecard` takes from
`ScorecardGather` that a gathering ends with the output, with an error, or not at all: its
constant says which tests have an output that can be gathered, and `OnlyIfFits` says which do.
`BundleTests` gives the verdicts that `Scorecard` only carries. `OperatorInstall` has a `cleanup`
that removes everything in one step, which `OperatorUninstall` takes apart.

### HelmOperator

One CR, one incarnation of it, one operator process. `pc` says where `Reconcile` stands; `o` is
its copy of the CR with the status it builds, and `current` whether the copy still has the CR's
resource version: a write with an old one is a conflict, and `RetryOnConflict` retries the same
object, so the conflict is final (`Conflict`). `records` are the release Secrets; `listed` is what
the Secret informer has of them, `Listed` what `History`, `Last` and `Deployed` see. `live` holds
the content of each chart object and `terminating` those deleted but not gone.

Actions follow the calls: `SyncPrune` (delete what is not deployed), `SyncLoad`, `InstallCreate` /
`InstallNameInUse` / `InstallAlreadyExists`, `Apply`, `Supersede`, `Record`, `UpgradeCreate`,
`RollbackCreate`, `ReconcileRelease`, `Uninstall*`, `AddFinalizer`, `WriteStatus`,
`DeletionStatus`, `Cleanup*`, `RemoveFinalizer`, `WaitForDeletion`, and for each call one that
fails, with every part of its work done or not (`ApplyFails`, `UninstallObjectsFails`, ...), and
`Crash`. Around them: `EditSpec`, `Annotate`, `DeleteCR`, `DeleteObject`, `FinishDeletion`,
`CollectGarbage`, `CRCacheSync`, `ListSync`.

Abstracted: chart rendering is the function `Renders`; an object's content is the spec it was
rendered from; Helm's actions are the storage and cluster calls they make. Left out: override
values, dry runs, events, the length of the reconcile period, the Initialized condition, foreign
finalizers on the CR, a second incarnation of the CR. An error of the release hook is the failure
of the write that follows it.

### ReleaseLifecycle

The specification that a user of the operator would write. A custom resource is free, protected by
the finalizer, being deleted, or gone. A revision is begun after all that are recorded; only the
newest is deployed, and older ones then stop; what runs is taken down by a deletion alone; the
finalizer is put on a resource that has something to clean up and comes off when nothing is left.
`HelmOperator` reads its state through `Phase`, `Stored` and `Running`. The mapping says what the
dozen calls of a reconciliation, their failures and a crash between them amount to.

### WatchedSecrets

A caller (a reconciliation) locks the mutex, looks the namespace up, starts and syncs an informer
with the mutex held, unlocks, and then reads the map again without it. That read may run while
another caller writes: a fatal error of the Go runtime, modelled as an abort that restarts all.

### DependentWatches

Every worker's hook walks its manifest: is the kind on record, does the object get an owner
reference, watch, record; the check and the record are two critical sections of the same lock.
`Mark` is `Build`'s decision about ownership (taken on the object Helm defaulted, and not to own
what has the resource policy keep), `HandlerFor` the hook's (on the object as rendered, whatever its
policy), made once for all objects of a kind. An object is followed when a registered handler
reads the mark it got. The two decisions differ for an object without a namespace in its manifest
and for one to be kept, and no annotation handler ever fires: it compares the annotated type, the
CR's, with the type of the object (`controller.go:134`). So only objects that are owned are
followed, and `OwnedFollowed` says when they are.

### Catalog and OperatorInstall

`Catalog` has the data: packages, channels with entries, bundles, what `ConvertToModel` accepts,
how a bundle's blobs are inserted (`runFBCUpgrade`, `upsert`), the heads of a channel where Go's
map order decides (a set of outcomes), and the partition into ConfigMaps: `InNextConfigMap` cuts
the documents of a catalog where `Size`, the size of what is compressed together, would exceed
`MaxConfigMap`. What a pod serves, `Contents`, is a set of channels and bundles: the init container
unpacks files, whose order `opm` does not look at.

`OperatorInstall` runs one command after the other. `pc` is the place in the command, `arg` what
it was given and has read so far. Its steps are the calls that change the cluster: the catalog
source, each ConfigMap (created, or found and updated: `CreatedOrUpdated`), the registry pod, the
address and annotations of the catalog source, the old pod, operator group, subscription, the
approval of the plan, the wait for the CSV. The plan approved is the one that the last read of the
subscription named (`arg.ref`), whatever OLM has made since. `Fails` interrupts a command at any of
them. An install mode is checked twice: `Compatible` refuses one that the CSV lists as unsupported
before anything is created, one that it does not list at all fails only at the operator group
(`EnsureOperatorGroup`), when the catalog is there. OLM resolves the subscription against the
catalog served *now*, makes plans, runs approved ones and installs CSVs; where the operator group
does not select the namespace, the CSV may be elsewhere. `Cleanup` deletes the subscription with its
plans, the CSV and the catalog source; owned objects are collected later, one by one. Left out:
image pull secrets, TLS, security contexts, concurrent commands.

### OlmInstaller

The manifests of a version are CRDs followed by resources. Steps are `doCreate`, the three waits,
`doDelete` with its wait, and the status that an installation and `olm status` compute. The API
server serves a kind only after its CRD is established, deletes what a namespace or a CRD
contains, and removes objects later; OLM's operators have to run for the package server's CSV to
be installed, and to be finalized. A command may fail at each call with or without its effect.

### OperatorUninstall

`Run` step by step, with `objs` in deletion order and the wait for each; a call that fails, a
timeout, and the command run again (`RunAgain`). The package may be at any stage of its
installation. OLM resolves, executes an approved plan, fills in the requirement status and reports;
custom resources with finalizers appear and are handled while the operator's CSV exists; another
package may be installed or removed. Left out: messages, `--delete-crds` apart from
`--delete-all`, catalogs outside the namespace, more than one subscription of a package.

### Scorecard and ScorecardGather

`Scorecard` has the goroutine of each test and the channel of its stage; the three kinds of
stages (parallel, sequential, empty); the context's deadline as an action that may happen at any
step; calls that fail for the client and take effect later (`LateCreate`); the cleanup, which has a
context of its own; and the printing that the command does or does not do depending on the error.
`ScorecardGather` has tar writing two streams through bounded buffers, the connection that
serialises them, and the reader that reads stdout to its end before stderr.

### Generate and the modules below it

`Collector`, `ClusterServiceVersion`, `Definitions` and `BundleTests` are the pure algorithms, one
operator per function of the code, on manifests that are records with the fields the code reads.
`Definitions` has the Go packages of the API types with their imports: `TypesFound` looks a type up
as the code does, in the kind's package and its imports, and `TypesMeant` (of `Generate`'s
properties) as Go does, in the package that mentions it.
`Generate` is the project: its features (what kustomize prints), the base CSV, the bundle and
package directories, and the migrated bundles. One step is one command, with the flags that make a
difference, or one edit of the user. A command that fails keeps what it had written by then (the
package file, which comes first). Properties compare what the commands wrote with what the
manifests say, for whatever was on disk before. Left out: output to stdout, pinning of image
digests, display names and x-descriptors, recursive API types (on which the code does not end).

## 3. Runs

| Run | Shows |
|---|---|
| `helm_operator` | with an up-to-date Secret informer, two faults and two user actions anywhere: a CR is reported as deployed only when the release of its spec is recorded and runs, no finalizer comes off before the release is gone, a running release is not torn down, and the operator implements `ReleaseLifecycle` |
| `helm_operator_lag` | what still holds with any informer lag: no lost update, waits honoured, nothing recreated, kept objects kept |
| `helm_operator_live` | the spec ends up deployed and reported; deletions complete |
| `watched_secrets` | lists come from synced caches, everyone is served |
| `dependent_watches` | with objects to be kept, cluster-scoped, in another namespace or of none: every object gets a source, the owned ones of a kind that charts place in the release's namespace are followed, whichever object and worker the kind was first watched for; a hook that failed is run again |
| `operator_install` | after any three commands, one failure and a cleanup, the catalog source names a pod that serves its bundles; only new plans are approved; success is what was asked for; undisturbed installations (into the operator's own namespace) and upgrades succeed, also after a cleanup once what it left is collected |
| `olm_installer` | after any four commands for two versions with two failures, a success means that the version is there, or nothing of it; an undisturbed installation succeeds, an uninstallation ends |
| `uninstall` | success means gone; the operator group goes last; a cleanup succeeds unless something failed |
| `scorecard` | every selected test is reported once with the verdict of a test that ran; a run ends and leaves nothing behind |
| `scorecard_gather` | output complete or not at all; when the gathering ends |
| `generate` | the base gives a CSV only its metadata; grants are kept; a bundle is self-contained and passes validation and scorecard as its markers say; descriptions survive regeneration; package files and migrated bundles name what is there |
| `second_upgrade` | ends in a violation: what OLM installed from a catalog can be upgraded with `run bundle-upgrade` once; the second upgrade is refused (`index_image.go:354`, against the comment at 193 and the tutorial); the only finding of `PROJECT.json` |

### Known divergences

The modules also state properties that no listed run checks because the code does not satisfy
them. To see the trace, add the property to the configuration named.

| Property | Configuration | What happens |
|---|---|---|
| `UninstalledBeforeGone` | `MCHelmOperator.cfg` | the finalizer is added after the installation: a CR deleted in between leaves its release (`reconcile.go:263`) |
| `AllDeletedBeforeFinalizer` | `MCHelmOperator.cfg` | a CR deleted before its status reports the release is not waited for (`reconcile.go:177`; `changelog/generated/v1.6.0.md:13` says the annotation is "to allow all resources to be deleted before removing the custom resource's finalizer") |
| `StatusTruthful`, `FinalizerOutlastsRelease`, `RunningReleaseKept` | `MCHelmOperatorLag.cfg` | with a lagging informer the undo of an install uninstalls a release it did not make (`manager.go:184`), and a later reconciliation, which still sees that release, reports it as deployed although nothing is recorded (no failure is needed for that); a deletion that does not see the release removes the finalizer (`reconcile.go:148`), and `Sync` deletes a running revision that the informer still shows as pending (`manager.go:104`) |
| `RunEnds` | `MCScorecard.cfg` with `Drains` a proper subset of `Storage` | gathering has no deadline: the run never ends, past the wait time and without a cleanup (`storage.go:71`) |
| `OneAtATime` | `MCScorecard.cfg` | one failed poll ends the wait for a test: sequential tests overlap (`scorecard.go:297`) |
| `ResultsPrinted` | `MCScorecard.cfg` | a cleanup that fails after a timeout replaces the deadline error, and the results are lost (`scorecard.go:110`) |
| `NothingMissing` | `ScorecardGather.cfg` | a connection that breaks between two entries passes for the end of the archive (`storage.go:76`) |
| `ReadableServed` | `MCWatchedSecrets.cfg` with `Readable = {ns1}` (a deadlock) | a namespace whose Secrets may not be listed keeps the mutex and blocks all others (`actionconfig.go:86`) |
| `EveryObjectFollowed` | `MCDependentWatches.cfg` | a cluster-scoped object, one in another namespace and one to be kept are annotated (`client/client.go:80-87`), but the annotation handler is given the object's own kind and compares it with the CR's (`controller.go:154`); an object whose manifest names no namespace gets an owner reference from `Build` and an annotation handler from the hook (`controller.go:134`): a change of any of them reaches no CR |
| `ScorecardAgrees` without `FoundAsMeant` | `MCGenerate.cfg` with a type of `MCPackages`' second package that inlines another of that package | the search for marked fields looks every identifier up in the kind's package and every selector in its imports, whatever package the struct is in (`definitions/ast.go:108-131`): what a second package nests of its own is not found, or another type of that name is |
| `ApprovesOwnPlan` | `MCOperatorInstall.cfg` | where the catalog offers something newer, its plan is approved, and the command waits for its own bundle in vain (`operator_installer.go:359`) |
| `UninstallRepeatable` | `MCOlmInstaller.cfg` | after an interrupted uninstallation removed the CRDs, every later one fails at the first custom resource (`olm/client/client.go:165`) |
| `Uninstalled` | `MCOperatorUninstall.cfg` | after a failed attempt a second one reports success and leaves the CSV (`uninstall.go:150`) |
| `NilUnlessFound` | `MCOperatorUninstall.cfg` | a CSV that was not found is deleted all the same, which fails (`uninstall.go:129`, against the comment at 83-84) |
| `OnlyOwnedDeleted` | `MCOperatorUninstall.cfg` | CRDs that the CSV only requires are deleted (`uninstall.go:241`, against the flag's text at 59) |
| `GroupServes` | `MCOperatorUninstall.cfg` | a package that subscribes after the check loses its operator group (`uninstall.go:187`) |

Further limits, seen in traces or met while the definitions were written:

* *Cleanup.* One that read the CSV before OLM had filled in its requirement status leaves the CRDs.
  If it is then interrupted and run again, the second one may find the CRDs and wait for
  finalizers that nobody handles any more, because the first has already deleted the CSV: only the
  timeout ends it. `Succeeds` is therefore about the first run.
* *Install and upgrade.* `run bundle` refuses an index image that has the package already
  (`bundle/install.go:222`). An operator that supports SingleNamespace only cannot be installed
  without `--install-mode`. With SingleNamespace or MultiNamespace and targets other than the
  operator's own namespace the command waits for a CSV that may not be there: the comment at
  `operator_installer.go:298` calls it a bug ("if namespace is not contained in targetNamespaces,
  DoCSVWait will fail because the CSV is not deployed in namespace"). The model lets OLM put the
  CSV there or not (`RunPlan`), and `InstallSucceeds` and `UpgradeSucceeds` are about groups that
  select the namespace (`SelectsOwn`). A registry that is being collected after a cleanup is found
  current (`configmap.go:77`), and a ConfigMap that is found keeps its old owner and is collected
  with it (`fbc_registry_pod.go:521`): both properties begin when nothing is left of an earlier
  catalog source (`NoGarbage`). An install mode that the CSV does not list is refused only after
  the catalog source was created (`install_mode.go:124`, `operator_installer.go:213`). An upgrade
  that was interrupted cannot be repeated: its pod exists; and one whose old pod is gone fails at
  its deletion.
* *Generators.* A Role shared by the operator's account and another leaves the bundle although a
  RoleBinding in it still refers to it (`collector/clusterserviceversion.go:85-115`), and two
  RoleBindings of such a Role are dereferenced as nil. Objects of different kinds with equal
  content (a Role and a ClusterRole, a validating and a mutating webhook) count as duplicates. A
  package with a skip marker ends the collection of types, so that later packages are not read
  (`definitions.go:199-202`). CRDs with a conversion webhook are grouped by the pointer to their
  port (`clusterserviceversion_updaters.go:351-355`), and the port of a v1beta1 CRD is not read;
  one without a path is dereferenced as nil (line 434; `PathsGiven`). Roles and bindings are looked
  up by their names alone (`collector/clusterserviceversion.go:47-83`): of two RoleBindings of one
  name in two namespaces the second is written twice and the first not at all, which
  `ManifestsAssumption` excludes. WATCH_NAMESPACE of an init container is not set, while its
  related images are collected. Generated descriptions may change places when the command is run
  twice. Files of removed objects stay in the bundle. `--input-dir` loses the label of the
  scorecard configuration and ignores `--overwrite`. A version generated without `--channel` is in
  no channel. A migration that failed leaves a directory that the next one refuses.
* *Scorecard tests.* `CheckSpec` never fails; the descriptor tests compare a path with the top
  level of an example only (`ScorecardAgrees` says for which markers that is right). What names a
  field is what the generator takes for its name: an embedded field with an explicit JSON name
  counts as inlined (`markers.go:214`), which `encoding/json` does not do. The validators of other
  projects (the format of a bundle, `olm.go:80`, CSVs, objects) are taken to find nothing, but for
  the agreement of owned and served kinds in `BundleValidation`.

### Bounds

Every bound is a constant. `MaxFaults` counts failed calls, crashes and aborts; two in
`helm_operator` allow a failure during the recovery from a failure, which is the deepest recovery
the code has (install then undo, upgrade then rollback). The lagging and the live instance have one
fault, as the lag itself and the liveness check multiply the states. `MaxChanges` counts user
actions: two (one with lag) allow an edit and a deletion, or an annotation and a deletion, in any
order and at any step. Helm's revisions are bounded by `MaxVersion = 6`, more than two faults and
two edits can create. Two specs with different manifests, one object they share and one they do
not, give every case of an upgrade. Three workers over two namespaces give contention within a
namespace and across. Three stages (parallel with two tests, empty, sequential with two tests) give
every transition of `Run`. One owned and one required CRD, three runs and a neighbour give every
case of `cleanup`.

`operator_install` has three bundles that replace each other, five index images (the empty default,
one with another package, one with the package, one with it behind another channel and with a newer
bundle, a database), a CSV that supports two install modes, of which one does not select the
namespace, lists a third as unsupported and does not list the fourth, three commands and one
failure; a catalog is cut after six units, so that the largest need two ConfigMaps (`MaxMaps`) and
the others one. `second_upgrade` needs two commands and no failure. `olm_installer` has two
versions that share some objects, two CRDs, each with a custom resource in one version, four
commands and two failures: enough for an interrupted command, its interrupted repetition, and two
more. `generate` starts from every set of its features, with and without a base, and takes three
steps: an edit or a failure, a command, and one that starts from its result. API types are at most
`MaxDepth` deep; they are in three packages, of which the second is inlined by the first and the
third asks to be skipped. `dependent_watches` has three kinds and three manifests, so that a kind
is first watched for an object to be kept, for one without a namespace or for one of another
namespace, by either worker.

### Fairness

* `HelmOperator`: the work queue requeues the key after each reconciliation, with an error at once
  and otherwise after the reconcile period, so the operator's fault-free steps are weakly fair; so
  are informers, deletions under way and the garbage collector. Users and failures are not.
* `WatchedSecrets`: a waiter on a Go mutex gets it eventually (starvation mode), so locking is
  strongly fair; other steps of a worker are weakly fair.
* `DependentWatches`: the work queue is first in, first out, so each CR's reconciliation is
  strongly fair to start; hooks run on.
* `Scorecard`, `ScorecardGather`: goroutines and tar run, without having to fail, and clocks tick.
  A test container need not end.
* `OperatorInstall`, `OlmInstaller`: the command goes on (its polls end at the deadline, which is a
  failure), the kubelet starts and stops pods, OLM and the API server retry for ever. Failures,
  further commands and users need no fairness.
* `Generate` has none: its properties are about what is on disk.
* `OperatorUninstall`: the command (which also returns once its timeout is over), the garbage
  collector, and each operator's handling of finalizers. Timeouts, failures and OLM need none.

`CHECK_DEADLOCK FALSE` is set where the system may stop: the budgets of users and faults are used
up, the CR is gone, a command has ended.

## 4. Proofs

Each theorem holds for every value of the constants that the named assumptions allow. Most
assumptions only say that names are distinct, that functions have their domains, and that bounds
are numbers. Some say something of the data, for a reason in the code or around it:

* `NamespaceAssumption` (`OlmInstaller`): OLM's manifests, which the repository embeds, create the
  namespace before anything in it.
* `ManifestsAssumption` (`Generate`): kustomize prints no two roles, cluster roles, bindings of a
  kind or services of one name and, of CRDs with a conversion webhook, no two of one name; a
  ClusterRoleBinding refers to a ClusterRole, as the API server demands. Without the first, a name
  in a binding or a webhook has no single meaning; without the second,
  `getRolesBoundToPartialBindings` looks in the wrong list.
* `PackagesAssumption`, `VersionsAssumption` (`Generate`): packages and versions are finite lists.
* `KindsAssumption` (`Generate`): the API types of a group and version are in one Go package, as
  kubebuilder lays them out, so no two types have the same group, version and kind; the plural name
  of a resource has no dot, so what follows the first dot of a CRD's name is the group
  (`DescToGVK`); names and kinds compare as a total order (`lessForCRDDescription`).
* `DepthAssumption` (`Definitions`): how deep API types nest is a number, which bounds the walk of
  the code and what `ScorecardAgrees` says of its result alike.
* `IndexAssumption`, `TraditionalAssumption` (`OperatorInstall`): rendering an index image gives
  finitely many packages, channels and bundles, and nothing for the default one; what OLM has
  installed came from one of the index images.

Each inductive invariant was first checked by TLC on the instance of the runs. What the proofs
need of a filter, a concatenation or a walk in order is written by positions (`Filtered`, `Where`,
`Joined`, `InOrder` in `Collector`), since the recursive operators of the library are out of the
prover's reach.

* **TypeCorrect** (`HelmOperatorProofs`): `TypeOK`, one lemma per action.
* **CopiesAgree, UserEditsKept, NothingRecreated, WaitsForObjects** (`HelmOperatorProofs`):
  `CopyInv` relates the CR, the informer's copy and `Reconcile`'s. It is needed because a write
  succeeds only if the copy is current: then its spec, annotation and deletion are the CR's, so
  nothing of the user's is overwritten. That `NothingRecreated` holds for any lag rests on the last
  conjuncts: whoever could still create objects began before the CR had its finalizer.
* **StorageKnown, ReleaseGoesFirst, RunningReleaseSafe, KeepHonoured** (`HelmOperatorProofs`):
  `ReleaseInv` says what each step may assume of the release storage. All but `KeepHonoured` assume
  `StorageLag = FALSE`, and the divergences above show that they need it.
* **StatusTellsTruth** (`HelmOperatorProofs`): without lag, a report of success is true when it is
  written. `ReportInv` follows the release from the Helm action to the status: the revision being
  applied is pending with the manifest of the copy's spec, or of the revision rolled back to; once
  applied, the objects have that content; and what ends in `writeStatus` is the newest recorded
  revision, while a failure carries its condition. That the spec is still the CR's is `CopyInv`: the
  status write needs a current copy.
* **ImplementsLifecycle** (`HelmOperatorProofs`): `Spec => Lifecycle!Spec`, without lag, for all
  specs, objects and bounds. Both invariants above are used, and `LifecycleInv` adds what the
  mapping needs: a CR that is being deleted has the finalizer (else a deletion would skip
  `deleting`); the revision of the action in progress is the newest and does not run yet, unless
  all was collected with the CR (else the record at the end would not be the abstract `Run`); and
  the finalizer is added only with a revision there. A step writes the CR or the release storage
  and never both (`Writers`), so each half is mapped on its own.
* **MutexProtects, SyncedLists, SingleInformer** (`HelmInformersProofs`): `MutexInv` ties the mutex
  to the map for any number of callers and namespaces; what a caller may list from is synced.
* **HooksSound, ObjectsFollowed** (`HelmInformersProofs`): `HookInv` says that what a hook passed
  is on record, that what is on record has a source, and that every source was made by `HandlerFor`
  for an object that some chart renders. So whatever object of whatever CR a kind was first watched
  for, its handler reads owner references if all charts place the objects of that kind in the
  release's namespace, and follows those that got one. Nothing is assumed of the charts: the
  condition is part of `OwnedFollowed`, and other kinds and objects may occur.
* **NothingLost, Complete, BlockedOtherwise** (`ScorecardGatherProofs`): `GatherInv` counts what tar
  has yet to write, what is in the streams and what was read, for archives and buffers of any size.
* **ScorecardSound, Reported, VerdictSound, CleanBehind** (`ScorecardProofs`): for any stages, tests
  and faults. `StagesInv` says that a test is done before its stage has passed and untouched after
  it, and that a sequential stage begins a test once those before it are done; `ItemsInv` that each
  test is at most once in the items and in the stage's output, in the order of the stages, and is
  there exactly from when its stage, or it, has ended; `PodsInv` whose container ended and what a
  cleanup has left. A goroutine delivers to a list that is emptied when the stage ends: both lists
  are in the invariant, so that no result is lost or doubled in between.
* **CleanupSound, Cleaned, OrderSound, GroupLast, OperatorServesCRs** (`OperatorUninstallProofs`):
  `CleanupInv` has four parts: types, what OLM's stages imply (`OLMInv`), what `Run` found against
  what it will delete (`ObjsInv`), and what was deleted stays deleted (`DeletedInv`). The crux is
  that the subscription goes first: after that nothing of the package is created, unless a plan is
  approved, and then a CSV is named by the subscription's status, is looked for, and, if it was not
  there yet, makes the run fail rather than succeed. `OrderInv` adds that a CRD goes only in, or
  after, a run that found the CSV with its requirements checked, and that such a run takes all
  CRDs: so no CRD waits for the operator when a later run deletes the CSV.
* **InstallSound, SourceHasPod, OnePod, PlansNew, SucceedsSound** (`OperatorInstallProofs`):
  `StepsInv` says which steps a command passes; `PlanInv` that the plan a command has read for
  approval, and then waits for, is newer than the one that was there when it began, although OLM
  may have named another since and a cleanup begins with none; `SourceInv` that the pod the catalog
  source names is the one whose address was read, made for this catalog source (a catalog source
  that is created anew has another `uid`, so a pod of the one before is never taken for it);
  `OwnPodsInv` that, unless a command was cut short, every other pod of the catalog source is the
  one being made or the one being replaced.
* **ContentSound, BundlesServed** (`OperatorInstallProofs`): `ContentInv`, inductive on top of
  `InstallInv`, follows each bundle of a file-based catalog: it was not in the index image
  (`Added`), and is among the documents still to be written, in a ConfigMap that is written
  (`Held`), or in the pod. A ConfigMap may be collected with an earlier catalog source before the
  pod starts: then the pod does not start, so `Held` lets it be gone. An upgrade rebuilds the
  catalog from the bundles of the annotations and the new one, and leaves out those that the index
  image has: that this leaves out none follows from the invariant for the old ones, and for the
  new one from what `ConvertToModel` accepts, every bundle in a channel and no bundle twice
  (`NewCatalogAdds`, `TraditionalAdds`, `UpgradeAdds`). `MaxMaps` bounds the ConfigMaps, whatever
  it is. A database is not covered: `Database` folds.
* **InstallerSound, InstalledSound, RemovedSound** (`OlmInstallerProofs`): the hard part is that
  an installation decides in one pass and creates in another, with OLM and the deletions of earlier
  commands in between. `MakingInv` says that what the pass found absent is absent until the
  command creates it (for custom resources this needs that their CRDs are absent), so that
  everything of OLM is then of this version and not on its way out. `RemovedInv` says that what
  an uninstallation has removed stays away: the CRDs go first, and without them OLM makes nothing.
* **GenerateSound, MetadataOnly, Grants, SelfContained, Consistent, MigrationSound**
  (`GenerateProofs`): for any manifests, features, API types, versions and sequence of commands.
  `GenInv` remembers how each file came to be: a bundle's CSV is what the collection of its command
  gives, and each of its manifest objects is in a file (`BundleInv`); the heads of the channels
  are what they were last given, by a command that left a directory or failed (`PackInv`).
  The properties of a bundle then are properties of one collection. `MetadataOnly` compares it with
  the collection of the same manifests and no base (`Alike`); `Grants` follows a rule through the
  removal of duplicates and the split, which needs that a role's name is unique; `SelfContained`
  follows a CRD into its file, although two objects may want one file name (`FileAt`), and into
  the one group of CRDs with its webhook.
* **HandWrittenKept** (`GenerateProofs`): for any API types, bases and commands. In the new list a
  generated description goes to the place of its order and any other to the place of its index,
  behind those generated for that place.
  The proof reads the list as its parts in order (`JoinedInOrder`), shows that where a description
  of the old list has gone in the new one increases with its place (`OthersKept`), so that the
  hand-written ones are the same list before and after, and that the places of generated
  descriptions and the kinds correspond one to one (`MadeOnce`, `KindsDescribed`). `BaseInv` gives
  it the shape of the base before the command.

* **ScoreSound, VerdictsFollow** (`GenerateProofs`): for any API packages, bases and commands; the
  verdicts for kinds whose fields the code finds where Go means them (`FoundAsMeant`, a condition of
  `ScorecardAgrees` on the kind's package and what it imports; it fails only where a second package
  nests types of its own or a name is in two packages).
  `ScoreInv`, inductive on top of `GenInv`, remembers where what the tests look at is from: a base
  refreshed from API types describes each of them by its markers and nothing else (`Describes`; an
  edit later adds only kinds that are not described), a bundle passed `ValidCSV`, holds only the
  kinds that a collection applies, and, in a directory that was empty, only its command's objects.
  Then a verdict is a question about markers. The code walks the fields breadth first and drops
  inlined names from their paths; `ScorecardAgrees` says instead which structs are inlined in which.
  `AllLevels` relates the two level by level (the induction over the depth goes by the
  well-foundedness of the naturals, `Induction`; `NearClosed` keeps it within the kind's package and
  its imports, where both find the same types), and `MarkedNames` concludes that a descriptor
  without a dot in its path is a marked field of the struct or of one inlined in it.

Only model-checked: every liveness property (`Converges`, `DeletionCompletes`, `ReadableServed`,
`AllHooked`, `RunEnds`, `GatheringEnds`, `Succeeds`, those of `OperatorInstall` and
`OlmInstaller`), since neither fairness nor ENABLED is within reach of the prover; what a database
serves, which is a fold; the violation.

## 5. Not modelled

* Release naming (`manager_factory.go`): one name checked against one history. That two CRs of
  different kinds with one name may both take a release is a hazard without a property:
  `HelmOperator` has one CR, and two would square its states.
* The watches file and start-up of `helm-operator`: read and validated before anything runs.
* Scorecard configuration, output formats, the packing of a bundle: sequential and printed.
* Optional and external bundle validators: other projects' code and executables.
* Within the generators: stdout, digest pinning, display names and x-descriptors, recursive types.
* Scaffolding plugins, annotations, CLI wiring, file utilities: text templates, flags and I/O.
* Generated manifests, images, samples, release tooling: data and packaging.

Some hazards of modelled parts are below the abstraction: the error variable of `execInPod` is
shared with its goroutine (`storage.go:71`); `HasInstalledResources` sorts with a comparator that
is no order (`olm/client/status.go:94`); a log that is the JSON null is dereferenced
(`formatting.go:33`); two commands at once, of `olm install` or of `run bundle`, may both find
nothing and then both create (`olm/installer/client.go:86`, `operator_installer.go:199`).
