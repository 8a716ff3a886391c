---------------------------- MODULE HelmOperator ----------------------------
(***************************************************************************)
(* The helm-operator's handling of ONE custom resource (CR): the           *)
(* reconcile loop of internal/helm/controller/reconcile.go and the release *)
(* manager of internal/helm/release/manager.go, one TLA+ step per call     *)
(* that another process can observe.                                       *)
(*                                                                         *)
(* Around the operator run the user (who edits, annotates and deletes the  *)
(* CR and may delete a chart's object), the API server's garbage           *)
(* collector, and the two informers the operator reads through: the one    *)
(* that serves r.Client.Get and the one that serves Helm's List of release *)
(* Secrets (internal/helm/client/secrets_watch.go).  Writes go to the API  *)
(* server directly, so what the operator reads may be older than what it   *)
(* wrote.                                                                  *)
(*                                                                         *)
(* A CR's spec is a member of Values; the manifest a spec renders to is    *)
(* the set of objects Renders[spec], each carrying that spec's content.    *)
(* Helm's Install, Upgrade, Rollback and Uninstall actions are a library:  *)
(* they are modelled by the storage and cluster calls they make.           *)
(***************************************************************************)
EXTENDS Naturals

CONSTANTS
    Values,       \* specs a CR may have
    Resources,    \* objects the chart may render
    Renders,      \* [Values -> SUBSET Resources], the manifest of a spec
    Keep,         \* objects annotated with the resource policy "keep"
    Owned,        \* objects that can carry an owner reference to the CR
    StorageLag,   \* may the Secret informer be behind the API server?
    MaxVersion,   \* bound: release revisions
    MaxFaults,    \* bound: crashes and failed calls
    MaxChanges,   \* bound: actions of the user
    None,         \* no spec, no record, no object
    NoCR          \* the CR does not exist

Versions == 1 .. MaxVersion

ASSUME ValuesAssumption == None \notin Values
ASSUME RendersAssumption == Renders \in [Values -> SUBSET Resources]
ASSUME PolicyAssumption == Keep \subseteq Resources /\ Owned \subseteq Resources \ Keep
ASSUME LagAssumption == StorageLag \in BOOLEAN
ASSUME BoundsAssumption ==
    MaxVersion \in Nat \ {0} /\ MaxFaults \in Nat /\ MaxChanges \in Nat

Conditions == {"Deployed", "ReleaseFailed", "Irreconcilable"}

\* What the operator uses of a CR.  `wait' is the uninstall-wait annotation;
\* status.conds are the conditions whose status is True.
CRStatus == [deployed : Values \cup {None}, conds : SUBSET Conditions]
CRs == [spec : Values, finalizer : BOOLEAN, deleting : BOOLEAN,
        wait : BOOLEAN, status : CRStatus]
ASSUME NoCRAssumption == NoCR \notin CRs

ReleaseStatus == {"pending", "deployed", "superseded", "failed", "uninstalling"}
Releases == [status : ReleaseStatus, manifest : Values]
ASSUME NoReleaseAssumption == None \notin Releases

\* The Helm action in progress: `version' is the revision it records, `from'
\* the revision it replaces (0: none), `target' the manifest it applies and
\* `current' the manifest it replaces.  `purge' is the history Uninstall read.
Transactions == [op : {"install", "upgrade", "rollback"},
                 version : Versions, from : 0 .. MaxVersion, was : ReleaseStatus,
                 target : Values, current : Values \cup {None}]
NoTx == [op |-> "none"]

VARIABLES
    cr,            \* the CR in the API server
    crCache,       \* the CR in the manager's informer
    cacheCurrent,  \* does crCache have the resourceVersion of cr?
    records,       \* the release Secrets in the API server, by revision
    listed,        \* the release Secrets in the Secret informer
    live,          \* the content of each object in the cluster
    terminating,   \* objects deleted but not yet gone
    pc,            \* where Reconcile stands
    o,             \* Reconcile's copy of the CR, its status included
    current,       \* does o have the resourceVersion of cr?
    rel,           \* manifest of the release Reconcile found or made
    tx,            \* the Helm action in progress
    purge,         \* revisions the Uninstall action in progress will purge
    faults,        \* crashes and failed calls so far
    changes        \* actions of the user so far

crVars  == <<cr, crCache, cacheCurrent>>
relVars == <<records, listed>>
objVars == <<live, terminating>>
locals  == <<o, current, rel, tx, purge>>
budgets == <<faults, changes>>
vars == <<crVars, relVars, objVars, pc, locals, budgets>>

PCs == {"idle", "prune", "load", "install", "apply", "supersede", "record",
        "addFinalizer", "writeStatus", "ensureFinalizer", "upgrade",
        "rollback", "reconcileRelease", "undo", "undoPurge", "uninstall",
        "purge", "deletionStatus", "cleanup", "removeFinalizer",
        "waitForDeletion", "reportFailure"}

TypeOK ==
    /\ cr \in CRs \cup {NoCR} /\ crCache \in CRs \cup {NoCR}
    /\ cacheCurrent \in BOOLEAN
    /\ records \in [Versions -> Releases \cup {None}]
    /\ listed \in [Versions -> Releases \cup {None}]
    /\ live \in [Resources -> Values \cup {None}]
    /\ terminating \in SUBSET Resources
    /\ pc \in PCs
    /\ o \in CRs \cup {NoCR} /\ (pc \notin {"idle"} => o \in CRs)
    /\ current \in BOOLEAN
    /\ rel \in Values \cup {None}
    /\ tx \in Transactions \cup {NoTx}
    /\ purge \in SUBSET Versions
    /\ faults \in 0 .. MaxFaults /\ changes \in 0 .. MaxChanges

----------------------------------------------------------------------------
(* Release storage.  Create, Get, Update and Delete reach the API server;  *)
(* List, which History, Last and Deployed are made of, reads the informer. *)

Listed == IF StorageLag THEN listed ELSE records

History == {v \in Versions : Listed[v] # None}
HistoryIn(status) == {v \in History : Listed[v].status \in status}
Newest(S) == CHOOSE v \in S : \A w \in S : w <= v

Stored == {v \in Versions : records[v] # None}

\* The storage after the records of S, those that exist, take a status.
Marked(S, status) ==
    [v \in Versions |-> IF v \in S \cap Stored
                        THEN [records[v] EXCEPT !.status = status]
                        ELSE records[v]]
Without(S) == [v \in Versions |-> IF v \in S THEN None ELSE records[v]]

----------------------------------------------------------------------------
(* Cluster objects.  A deletion is asynchronous: the object is terminating *)
(* until its finalizers and dependents are gone.                           *)

AppliedTo(S, v) == [r \in Resources |-> IF r \in S THEN v ELSE live[r]]
Existing(S) == {r \in S : live[r] # None}

----------------------------------------------------------------------------
(* Writes of the CR.  A write carries the resourceVersion of o: it fails   *)
(* with a conflict, or not found, unless o is current.  RetryOnConflict    *)
(* retries the same o, so a conflict is final for this reconciliation.     *)

WriteCR(new) ==
    /\ cr' = new
    /\ cacheCurrent' = (cacheCurrent /\ new = cr)
    /\ UNCHANGED crCache

\* Mutant of Written: retried with a fresh resourceVersion, the old content wins.
WrittenBlindly(new, copy) ==
    /\ cr # NoCR
    /\ WriteCR(new)
    /\ o' = copy
    /\ UNCHANGED current

\* updateResource and updateResourceStatus, when they succeed: the CR is there
\* and becomes `new', and Reconcile goes on with `copy'.
Written(new, copy) ==
    /\ current /\ cr # NoCR
    /\ WriteCR(new)
    /\ o' = copy
    /\ UNCHANGED current

\* Reconcile returns: what it holds is dropped, the key is requeued.
Return ==
    /\ pc' = "idle"
    /\ o' = NoCR /\ current' = FALSE
    /\ rel' = None /\ tx' = NoTx /\ purge' = {}

Goto(l) == pc' = l
Fault == faults < MaxFaults /\ faults' = faults + 1 /\ UNCHANGED changes

\* The status Reconcile will write: conditions set and cleared, and the
\* release it reports.
WithStatus(deployed, set, clear) ==
    [o EXCEPT !.status = [deployed |-> deployed, conds |-> (@.conds \ clear) \cup set]]

\* An error is recorded under a condition before Reconcile returns it.
ReportFailure(cond) ==
    /\ o' = WithStatus(o.status.deployed, {cond}, {})
    /\ Goto("reportFailure")

----------------------------------------------------------------------------
Fresh(spec, wait) ==
    [spec |-> spec, finalizer |-> FALSE, deleting |-> FALSE, wait |-> wait,
     status |-> [deployed |-> None, conds |-> {}]]

\* A CR was just created; the informers have not delivered it yet.
Init ==
    /\ cr \in {Fresh(v, w) : v \in Values, w \in BOOLEAN}
    /\ crCache = NoCR /\ cacheCurrent = FALSE
    /\ records = [v \in Versions |-> None] /\ listed = records
    /\ live = [r \in Resources |-> None] /\ terminating = {}
    /\ pc = "idle" /\ o = NoCR /\ current = FALSE
    /\ rel = None /\ tx = NoTx /\ purge = {}
    /\ faults = 0 /\ changes = 0

----------------------------------------------------------------------------
(* Reconcile: entry and Sync                                               *)

\* Get through the cache, then the deletion branch or Sync.  A CR that is not
\* found, or is being deleted without the finalizer, needs nothing.
StartReconcile ==
    /\ pc = "idle" /\ crCache # NoCR
    /\ crCache.deleting => crCache.finalizer
    /\ o' = crCache /\ current' = cacheCurrent
    /\ Goto(IF crCache.deleting THEN "uninstall" ELSE "prune")
    /\ UNCHANGED <<crVars, relVars, objVars, rel, tx, purge, budgets>>

\* Mutants of SyncPrune: the status of a revision is not looked at, and nothing
\* is cleaned up.
SyncPruneAll ==
    /\ pc = "prune"
    /\ records' = Without(History)
    /\ Goto("load")
    /\ UNCHANGED <<crVars, listed, objVars, locals, budgets>>

SyncPruneNone ==
    /\ pc = "prune"
    /\ Goto("load")
    /\ UNCHANGED <<crVars, relVars, objVars, locals, budgets>>

\* Sync, first half: every listed revision that is not deployed is deleted;
\* one that is already gone is not an error.
SyncPrune ==
    /\ pc = "prune"
    /\ records' = Without(HistoryIn(ReleaseStatus \ {"deployed"}))
    /\ Goto("load")
    /\ UNCHANGED <<crVars, listed, objVars, locals, budgets>>

\* A Delete fails: the revisions before it are gone, Sync returns the error.
SyncPruneFails ==
    /\ pc = "prune" /\ Fault
    /\ \E S \in SUBSET HistoryIn(ReleaseStatus \ {"deployed"}) : records' = Without(S)
    /\ ReportFailure("Irreconcilable")
    /\ UNCHANGED <<crVars, listed, objVars, current, rel, tx, purge>>

\* Sync, second half: the newest deployed revision is the installed release;
\* an upgrade is needed when the candidate renders another manifest.
SyncLoad ==
    /\ pc = "load"
    /\ LET deployed == HistoryIn({"deployed"})
           clean == [o EXCEPT !.status.conds = @ \ {"Irreconcilable"}]
       IN \/ /\ deployed = {}
             /\ o' = clean /\ Goto("install") /\ UNCHANGED rel
          \/ /\ deployed # {}
             /\ Listed[Newest(History)].status # "pending"
             /\ rel' = Listed[Newest(deployed)].manifest
             /\ o' = clean
             /\ Goto(IF o.finalizer
                     THEN IF rel' # o.spec THEN "upgrade" ELSE "reconcileRelease"
                     ELSE "ensureFinalizer")
          \/ \* the dry run finds another operation in progress
             /\ deployed # {}
             /\ Listed[Newest(History)].status = "pending"
             /\ ReportFailure("Irreconcilable") /\ UNCHANGED rel
    /\ UNCHANGED <<crVars, relVars, objVars, current, tx, purge, budgets>>

\* A read fails, or a chart does not render, before Sync, the upgrade or the
\* rollback has changed anything; the upgrade has no release to return.
CallFails ==
    /\ pc \in {"load", "upgrade", "rollback"} /\ Fault
    /\ ReportFailure(IF pc = "load" THEN "Irreconcilable" ELSE "ReleaseFailed")
    /\ UNCHANGED <<crVars, relVars, objVars, current, rel, tx, purge>>

----------------------------------------------------------------------------
(* InstallRelease                                                          *)

\* Install.Run up to Releases.Create: the name must be free in the history,
\* and the first revision is created as pending.
InstallCreate ==
    /\ pc = "install" /\ History = {} /\ records[1] = None
    /\ records' = [records EXCEPT ![1] = [status |-> "pending", manifest |-> o.spec]]
    /\ tx' = [op |-> "install", version |-> 1, from |-> 0, was |-> "failed",
              target |-> o.spec, current |-> None]
    /\ Goto("apply")
    /\ UNCHANGED <<crVars, listed, objVars, o, current, rel, purge, budgets>>

\* The name is still in use: Run returns no release, nothing to undo.
InstallNameInUse ==
    /\ pc = "install" /\ History # {}
    /\ ReportFailure("ReleaseFailed")
    /\ UNCHANGED <<crVars, relVars, objVars, current, rel, tx, purge, budgets>>

\* Releases.Create finds the Secret already there: Run returns the release it
\* could not record, and the manager uninstalls by name.
InstallAlreadyExists ==
    /\ pc = "install" /\ History = {} /\ records[1] # None
    /\ Goto("undo")
    /\ UNCHANGED <<crVars, relVars, objVars, locals, budgets>>

\* Rendering or validation fails after the release object exists: the same
\* undo, with nothing recorded.
InstallRenderFails ==
    /\ pc = "install" /\ History = {} /\ Fault
    /\ Goto("undo")
    /\ UNCHANGED <<crVars, relVars, objVars, locals>>

\* The objects are created, or adopted if a previous attempt left them there.
\* Upgrade and rollback also delete what only the replaced manifest has.
Apply ==
    /\ pc = "apply"
    /\ live' = AppliedTo(Renders[tx.target], tx.target)
    /\ terminating' = IF tx.current = None THEN terminating
                      ELSE terminating \cup
                           Existing((Renders[tx.current] \ Renders[tx.target]) \ Keep)
    /\ Goto(IF tx.op = "install" THEN "record" ELSE "supersede")
    /\ UNCHANGED <<crVars, relVars, locals, budgets>>

\* Some of the objects are applied, then a call fails; the revision is marked
\* failed and the one it was to replace recorded: as it was read by an upgrade,
\* as superseded by a rollback.  An install is then uninstalled, an upgrade
\* rolled back, and a rollback given up.
ApplyFails ==
    /\ pc = "apply" /\ Fault
    /\ \E S \in SUBSET Renders[tx.target] : live' = AppliedTo(S, tx.target)
    /\ records' = [v \in Versions |->
                     CASE v \notin Stored -> None
                       [] v \in Stored /\ v = tx.version -> [records[v] EXCEPT !.status = "failed"]
                       [] v \in Stored /\ v = tx.from -> [records[v] EXCEPT !.status = tx.was]
                       [] OTHER -> records[v]]
    /\ CASE tx.op = "install"  -> Goto("undo") /\ UNCHANGED o
         [] tx.op = "upgrade"  -> Goto("rollback") /\ UNCHANGED o
         [] tx.op = "rollback" -> ReportFailure("ReleaseFailed")
    /\ UNCHANGED <<crVars, listed, terminating, current, rel, tx, purge>>

\* Upgrade supersedes the revision it replaced, rollback every revision the
\* history lists as deployed.
Supersede ==
    /\ pc = "supersede"
    /\ records' = Marked(IF tx.op = "upgrade" THEN {tx.from} ELSE HistoryIn({"deployed"}),
                         "superseded")
    /\ Goto("record")
    /\ UNCHANGED <<crVars, listed, objVars, locals, budgets>>

\* recordRelease only logs a failed update: the revision stays as it was.
SupersedeFails ==
    /\ pc = "supersede" /\ Fault
    /\ Goto("record")
    /\ UNCHANGED <<crVars, relVars, objVars, locals>>

\* Mutant of AfterRecord: an upgrade, too, succeeds when it cannot be recorded.
AfterRecordAlways(ok) ==
    IF tx.op = "rollback" THEN ReportFailure("ReleaseFailed") /\ UNCHANGED rel
    ELSE /\ Goto(IF tx.op = "install" THEN "addFinalizer" ELSE "writeStatus")
         /\ rel' = tx.target /\ UNCHANGED o

\* Where a recorded (or unrecordable) revision leads.  An install succeeds
\* even when its record cannot be updated; an upgrade is rolled back; after a
\* rollback the upgrade's error is reported.
AfterRecord(ok) ==
    CASE tx.op = "install" -> Goto("addFinalizer") /\ rel' = tx.target /\ UNCHANGED o
      [] tx.op = "upgrade" ->
           IF ok THEN Goto("writeStatus") /\ rel' = tx.target /\ UNCHANGED o
                 ELSE Goto("rollback") /\ UNCHANGED <<o, rel>>
      [] tx.op = "rollback" -> ReportFailure("ReleaseFailed") /\ UNCHANGED rel

\* Mutant of Record: the revision that was replaced is recorded as deployed too.
RecordBoth ==
    /\ pc = "record"
    /\ records' = Marked({tx.from, tx.version}, "deployed")
    /\ AfterRecord(tx.version \in Stored)
    /\ UNCHANGED <<crVars, listed, objVars, current, tx, purge, budgets>>

Record ==
    /\ pc = "record"
    /\ records' = Marked({tx.version}, "deployed")
    /\ AfterRecord(tx.version \in Stored)
    /\ UNCHANGED <<crVars, listed, objVars, current, tx, purge, budgets>>

RecordFails ==
    /\ pc = "record" /\ Fault
    /\ AfterRecord(FALSE)
    /\ UNCHANGED <<crVars, relVars, objVars, current, tx, purge>>

----------------------------------------------------------------------------
(* The finalizer and the status of a CR that is not being deleted          *)

\* AddFinalizer runs after a first install and, for an installed release
\* that lacks it, before an upgrade or a reconciliation.  It writes the CR as it
\* was read; the status Reconcile is building stays with Reconcile.
AddFinalizer ==
    /\ pc \in {"addFinalizer", "ensureFinalizer"}
    /\ LET protected == [o EXCEPT !.finalizer = TRUE]
       IN Written([protected EXCEPT !.status = cr.status], protected)
    /\ Goto(IF pc = "addFinalizer" THEN "writeStatus"
            ELSE IF rel # o.spec THEN "upgrade" ELSE "reconcileRelease")
    /\ UNCHANGED <<relVars, objVars, rel, tx, purge, budgets>>

\* The release is reported as deployed and earlier failures are cleared.
WriteStatus ==
    /\ pc = "writeStatus"
    /\ current
    /\ WriteCR(WithStatus(rel, {"Deployed"}, {"ReleaseFailed", "Irreconcilable"}))
    /\ Return
    /\ UNCHANGED <<relVars, objVars, budgets>>

\* The update of the CR conflicts, or the CR is gone: Reconcile returns the
\* error and starts over from the cache.
Conflict ==
    /\ pc \in {"addFinalizer", "ensureFinalizer", "writeStatus", "deletionStatus",
               "removeFinalizer", "reportFailure"}
    /\ ~current
    /\ Return
    /\ UNCHANGED <<crVars, relVars, objVars, budgets>>

\* The call fails for another reason; for the release this includes the
\* release hook, which runs before the status is written.
WriteFails ==
    /\ pc \in {"addFinalizer", "ensureFinalizer", "writeStatus", "deletionStatus",
               "removeFinalizer", "reportFailure"}
    /\ Fault
    /\ Return
    /\ UNCHANGED <<crVars, relVars, objVars>>

\* The failure's condition is written, and the error returned either way.
ReportedFailure ==
    /\ pc = "reportFailure" /\ current
    /\ WriteCR(o)
    /\ Return
    /\ UNCHANGED <<relVars, objVars, budgets>>

----------------------------------------------------------------------------
(* UpgradeRelease and RollBack                                             *)

\* Upgrade.Run up to Releases.Create: the revision after the last listed one,
\* replacing the newest deployed one, or the last if it failed or was replaced.
Replaced == IF HistoryIn({"deployed"}) # {} THEN Newest(HistoryIn({"deployed"}))
            ELSE Newest(History)

UpgradePrepared ==
    /\ History # {} /\ Listed[Newest(History)].status # "pending"
    /\ Newest(History) \in HistoryIn({"failed", "superseded"}) \/ HistoryIn({"deployed"}) # {}

UpgradePossible ==
    /\ UpgradePrepared
    /\ Newest(History) + 1 \in Versions => records[Newest(History) + 1] = None

UpgradeCreate ==
    /\ pc = "upgrade" /\ UpgradePossible
    /\ LET version == Newest(History) + 1
       IN /\ version \in Versions
          /\ records' = [records EXCEPT ![version] = [status |-> "pending", manifest |-> o.spec]]
          /\ tx' = [op |-> "upgrade", version |-> version, from |-> Replaced,
                    was |-> Listed[Replaced].status, target |-> o.spec,
                    current |-> Listed[Replaced].manifest]
    /\ Goto("apply")
    /\ UNCHANGED <<crVars, listed, objVars, o, current, rel, purge, budgets>>

\* The objects of a manifest cannot be built: Run returns the release it has not
\* recorded yet, and Reconcile rolls back all the same.
UpgradeBuildFails ==
    /\ pc = "upgrade" /\ UpgradePrepared /\ Fault
    /\ Goto("rollback")
    /\ UNCHANGED <<crVars, relVars, objVars, locals>>

\* Run fails before it has a release to return: nothing to roll back.
UpgradeRefused ==
    /\ pc = "upgrade" /\ ~UpgradePossible
    /\ ReportFailure("ReleaseFailed")
    /\ UNCHANGED <<crVars, relVars, objVars, current, rel, tx, purge, budgets>>

\* Rollback.Run up to Releases.Create: a new revision with the manifest of
\* the one before the last.
RollbackPossible ==
    /\ History # {} /\ Newest(History) - 1 \in History \cap Stored
    /\ Newest(History) + 1 \in Versions => records[Newest(History) + 1] = None

RollbackCreate ==
    /\ pc = "rollback" /\ RollbackPossible
    /\ LET last == Newest(History)
       IN /\ last + 1 \in Versions
          /\ records' = [records EXCEPT ![last + 1] =
                             [status |-> "pending", manifest |-> records[last - 1].manifest]]
          /\ tx' = [op |-> "rollback", version |-> last + 1, from |-> last,
                    was |-> "superseded", target |-> records[last - 1].manifest,
                    current |-> Listed[last].manifest]
    /\ Goto("apply")
    /\ UNCHANGED <<crVars, listed, objVars, o, current, rel, purge, budgets>>

\* The rollback cannot start; its error is logged and the upgrade's reported.
RollbackRefused ==
    /\ pc = "rollback" /\ ~RollbackPossible
    /\ ReportFailure("ReleaseFailed")
    /\ UNCHANGED <<crVars, relVars, objVars, current, rel, tx, purge, budgets>>

----------------------------------------------------------------------------
(* ReconcileRelease                                                        *)

\* Missing objects are created, drifted ones patched.
ReconcileRelease ==
    /\ pc = "reconcileRelease"
    /\ live' = AppliedTo(Renders[rel], rel)
    /\ Goto("writeStatus")
    /\ UNCHANGED <<crVars, relVars, terminating, locals, budgets>>

ReconcileReleaseFails ==
    /\ pc = "reconcileRelease" /\ Fault
    /\ \E S \in SUBSET Renders[rel] : live' = AppliedTo(S, rel)
    /\ o' = WithStatus(o.status.deployed, {"Irreconcilable"}, {"ReleaseFailed"})
    /\ Goto("reportFailure")
    /\ UNCHANGED <<crVars, relVars, terminating, current, rel, tx, purge>>

----------------------------------------------------------------------------
(* UninstallRelease, and the undo of a failed install: Helm's Uninstall    *)

\* Mutant of UninstallNotFound: a release that is not found fails the deletion.
UninstallNotFoundIsError ==
    /\ pc \in {"uninstall", "undo"} /\ History = {}
    /\ ReportFailure("ReleaseFailed")
    /\ UNCHANGED <<crVars, relVars, objVars, current, rel, tx, purge, budgets>>

\* The history is empty: ErrReleaseNotFound.  The undo then reports the failed
\* install; the deletion goes on as if the release had been uninstalled.
UninstallNotFound ==
    /\ pc \in {"uninstall", "undo"} /\ History = {}
    /\ IF pc = "undo"
       THEN ReportFailure("ReleaseFailed")
       ELSE /\ o' = WithStatus(o.status.deployed, {},
                   {"ReleaseFailed"} \cup IF o.wait THEN {"Deployed"} ELSE {})
            /\ Goto("deletionStatus")
    /\ UNCHANGED <<crVars, relVars, objVars, current, rel, tx, purge, budgets>>

\* The newest listed revision is marked, and the objects of its manifest that
\* are not to be kept are deleted.
UninstallObjects ==
    /\ pc \in {"uninstall", "undo"} /\ History # {}
    /\ records' = Marked({Newest(History)}, "uninstalling")
    /\ terminating' = terminating \cup
                          Existing(Renders[Listed[Newest(History)].manifest] \ Keep)
    /\ purge' = History
    /\ Goto(IF pc = "undo" THEN "undoPurge" ELSE "purge")
    /\ UNCHANGED <<crVars, listed, live, o, current, rel, tx, budgets>>

\* Mutant of UninstallObjectsFails: the error is logged and the deletion goes on.
UninstallErrorIgnored ==
    /\ pc \in {"uninstall", "undo"} /\ History # {} /\ Fault
    /\ Goto("deletionStatus")
    /\ UNCHANGED <<crVars, relVars, objVars, locals>>

\* An object cannot be deleted: the release stays recorded as uninstalling.
UninstallObjectsFails ==
    /\ pc \in {"uninstall", "undo"} /\ History # {} /\ Fault
    /\ records' = Marked({Newest(History)}, "uninstalling")
    /\ \E S \in SUBSET Existing(Renders[Listed[Newest(History)].manifest] \ Keep) :
          terminating' = terminating \cup S
    /\ ReportFailure("ReleaseFailed")
    /\ UNCHANGED <<crVars, listed, live, current, rel, tx, purge>>

\* Every revision that was listed is deleted, and the CR's status says so; an
\* undo reports the failed install.
UninstallPurge ==
    /\ pc \in {"purge", "undoPurge"} /\ purge \subseteq Stored
    /\ records' = Without(purge)
    /\ IF pc = "undoPurge"
       THEN ReportFailure("ReleaseFailed")
       ELSE /\ o' = WithStatus(IF o.wait THEN o.status.deployed ELSE None, {},
                               {"ReleaseFailed", "Deployed"})
            /\ Goto("deletionStatus")
    /\ UNCHANGED <<crVars, listed, objVars, current, rel, tx, purge, budgets>>

\* A listed revision is gone, or its Delete fails: the purge stops there, and
\* the error that is returned no longer is ErrReleaseNotFound.
PurgeUpTo(v) ==
    /\ records' = Without({w \in purge : w < v})
    /\ ReportFailure("ReleaseFailed")
    /\ UNCHANGED <<crVars, listed, objVars, current, rel, tx, purge>>

UninstallPurgeMissing ==
    /\ pc \in {"purge", "undoPurge"}
    /\ \E v \in purge \ Stored :
          {w \in purge : w < v} \subseteq Stored /\ PurgeUpTo(v)
    /\ UNCHANGED budgets

UninstallPurgeFails ==
    /\ pc \in {"purge", "undoPurge"} /\ Fault
    /\ \E v \in purge : {w \in purge : w < v} \subseteq Stored /\ PurgeUpTo(v)

----------------------------------------------------------------------------
(* The rest of a deletion                                                  *)

\* The status is written; with the wait annotation the reported release's
\* objects must be gone before the finalizer is.
DeletionStatus ==
    /\ pc = "deletionStatus"
    /\ Written(o, o)
    /\ Goto(IF o.wait /\ o.status.deployed # None THEN "cleanup" ELSE "removeFinalizer")
    /\ UNCHANGED <<relVars, objVars, rel, tx, purge, budgets>>

\* CleanupRelease: as long as one object is found they are all deleted again
\* and the CR is requeued.
\*
\* Mutant of Reported: the resource policy is not looked at.
ReportedUnfiltered == Renders[o.status.deployed]

Reported == Renders[o.status.deployed] \ Keep

\* Mutant of CleanupDone: an object that is terminating counts as deleted.
CleanupDoneEarly ==
    /\ pc = "cleanup" /\ Existing(Reported) \subseteq terminating
    /\ Goto("removeFinalizer")
    /\ UNCHANGED <<crVars, relVars, objVars, locals, budgets>>

CleanupDone ==
    /\ pc = "cleanup" /\ Existing(Reported) = {}
    /\ Goto("removeFinalizer")
    /\ UNCHANGED <<crVars, relVars, objVars, locals, budgets>>

CleanupAgain ==
    /\ pc = "cleanup" /\ Existing(Reported) # {}
    /\ terminating' = terminating \cup Existing(Reported)
    /\ Return
    /\ UNCHANGED <<crVars, relVars, live, budgets>>

CleanupFails ==
    /\ pc = "cleanup" /\ Fault
    /\ \E S \in SUBSET Existing(Reported) : terminating' = terminating \cup S
    /\ ReportFailure("ReleaseFailed")
    /\ UNCHANGED <<crVars, relVars, live, current, rel, tx, purge>>

\* The last finalizer goes, and with it the CR.
RemoveFinalizer ==
    /\ pc = "removeFinalizer"
    /\ current
    /\ WriteCR(NoCR)
    /\ current' = FALSE
    /\ Goto("waitForDeletion")
    /\ UNCHANGED <<relVars, objVars, o, rel, tx, purge, budgets>>

\* Mutant of WaitForDeletion: the deletion branch does not return.
WaitForDeletionGoesOn ==
    /\ pc = "waitForDeletion" /\ crCache = NoCR
    /\ Goto("prune")
    /\ UNCHANGED <<crVars, relVars, objVars, locals, budgets>>

\* Reconcile polls the cache for five seconds for the CR to be gone.
WaitForDeletion ==
    /\ pc = "waitForDeletion" /\ crCache = NoCR
    /\ Return
    /\ UNCHANGED <<crVars, relVars, objVars, budgets>>

WaitForDeletionTimesOut ==
    /\ pc = "waitForDeletion" /\ crCache # NoCR /\ Fault
    /\ Return
    /\ UNCHANGED <<crVars, relVars, objVars>>

\* The operator's process dies and is started again.
Crash ==
    /\ pc # "idle" /\ Fault
    /\ Return
    /\ UNCHANGED <<crVars, relVars, objVars>>

----------------------------------------------------------------------------
(* The environment                                                         *)

CRCacheSync ==
    /\ ~cacheCurrent
    /\ crCache' = cr /\ cacheCurrent' = TRUE
    /\ UNCHANGED <<cr, relVars, objVars, pc, locals, budgets>>

ListSync ==
    /\ StorageLag /\ listed # records
    /\ listed' = records
    /\ UNCHANGED <<crVars, records, objVars, pc, locals, budgets>>

\* A write of the CR by someone else.
UserWrites(new) ==
    /\ cr # NoCR /\ new # cr /\ changes < MaxChanges
    /\ cr' = new /\ cacheCurrent' = FALSE /\ current' = FALSE
    /\ changes' = changes + 1
    /\ UNCHANGED <<crCache, relVars, objVars, pc, o, rel, tx, purge, faults>>

EditSpec == \E v \in Values : UserWrites([cr EXCEPT !.spec = v])
Annotate == \E w \in BOOLEAN : UserWrites([cr EXCEPT !.wait = w])

\* Without a finalizer the CR is gone at once.
DeleteCR ==
    /\ cr # NoCR
    /\ UserWrites(IF cr.finalizer THEN [cr EXCEPT !.deleting = TRUE] ELSE NoCR)

\* Somebody deletes an object of the chart.
DeleteObject(r) ==
    /\ live[r] # None /\ r \notin terminating /\ changes < MaxChanges
    /\ terminating' = terminating \cup {r}
    /\ changes' = changes + 1
    /\ UNCHANGED <<crVars, relVars, live, pc, locals, faults>>

FinishDeletion(r) ==
    /\ r \in terminating
    /\ live' = [live EXCEPT ![r] = None]
    /\ terminating' = terminating \ {r}
    /\ UNCHANGED <<crVars, relVars, pc, locals, budgets>>

\* Secrets and objects whose owner is gone are garbage collected.
Garbage == Existing(Owned) \ terminating

CollectGarbage ==
    /\ cr = NoCR /\ (Stored # {} \/ Garbage # {})
    /\ records' = Without(Versions)
    /\ terminating' = terminating \cup Garbage
    /\ UNCHANGED <<crVars, listed, live, pc, locals, budgets>>

----------------------------------------------------------------------------
Install == InstallCreate \/ InstallNameInUse \/ InstallAlreadyExists
HelmSteps == Apply \/ Supersede \/ Record \/ UpgradeCreate \/ UpgradeRefused
             \/ RollbackCreate \/ RollbackRefused \/ ReconcileRelease
             \/ UninstallNotFound \/ UninstallObjects \/ UninstallPurge
             \/ UninstallPurgeMissing
CRSteps == AddFinalizer \/ WriteStatus \/ Conflict \/ ReportedFailure
           \/ DeletionStatus \/ CleanupDone \/ CleanupAgain \/ RemoveFinalizer
           \/ WaitForDeletion

\* What the operator does when nothing fails.
Operator == StartReconcile \/ SyncPrune \/ SyncLoad \/ Install \/ HelmSteps \/ CRSteps

Failure == SyncPruneFails \/ CallFails \/ InstallRenderFails \/ UpgradeBuildFails \/ ApplyFails
           \/ SupersedeFails \/ RecordFails \/ WriteFails \/ ReconcileReleaseFails
           \/ UninstallObjectsFails \/ UninstallPurgeFails \/ CleanupFails
           \/ WaitForDeletionTimesOut \/ Crash

User == EditSpec \/ Annotate \/ DeleteCR \/ \E r \in Resources : DeleteObject(r)
Cluster == CRCacheSync \/ ListSync \/ CollectGarbage
           \/ \E r \in Resources : FinishDeletion(r)

Next == Operator \/ Failure \/ User \/ Cluster

Spec == Init /\ [][Next]_vars

\* The work queue requeues the key after every reconciliation, successful or
\* not; informers and the garbage collector eventually act.
Fairness ==
    /\ WF_vars(Operator)
    /\ WF_vars(CRCacheSync) /\ WF_vars(ListSync) /\ WF_vars(CollectGarbage)
    /\ \A r \in Resources : WF_vars(FinishDeletion(r))

FairSpec == Spec /\ Fairness
----------------------------------------------------------------------------
(* Properties                                                              *)

FinalizerRemoved == cr # NoCR /\ cr.finalizer /\ cr' = NoCR

\* The uninstall finalizer comes off only when no revision of the release is
\* left in storage (the deletion branch of Reconcile): a CR that was ever
\* protected is never dropped with its release still recorded.
FinalizerOutlastsRelease == [][FinalizerRemoved => Stored = {}]_vars

\* Sync and InstallRelease never tear down a release that runs: the record of
\* a deployed revision is deleted, or marked for uninstallation, only by a
\* reconciliation that saw the CR being deleted (or after the CR is gone).
RunningReleaseKept ==
    [][\A v \in Stored :
          /\ records[v].status = "deployed"
          /\ IF records'[v] = None THEN TRUE ELSE records'[v].status = "uninstalling"
          => cr = NoCR \/ o.deleting]_vars

\* The status tells the truth.  When the operator newly reports a CR as deployed
\* and clears every failure, the release reported is what the CR asks for at
\* that moment, the newest recorded revision is that release and is deployed (or
\* is a first revision that could not be recorded as deployed), and every
\* object of it that nobody deleted has its content: a failed upgrade, a
\* rollback, an edit of the CR meanwhile or a crash never end in such a report.
SaysDeployed(c) == c # NoCR /\ ~c.deleting /\ c.status.conds = {"Deployed"}
ReleaseRuns(v) ==
    /\ Stored # {} /\ records[Newest(Stored)].manifest = v
    /\ \/ records[Newest(Stored)].status = "deployed"
       \/ records[Newest(Stored)].status = "pending" /\ Stored = {1}
    /\ \A r \in Renders[v] : live[r] \in {v, None}
StatusTruthful ==
    [][SaysDeployed(cr') /\ cr # NoCR /\ cr'.status # cr.status
       => cr'.status.deployed = cr'.spec /\ ReleaseRuns(cr'.spec)]_vars

\* No write of the operator undoes a user's: the spec, the annotation and the
\* deletion of a CR that stays change only when the user changes them,
\* however old the copy Reconcile writes back.
NoLostUpdate ==
    [][cr # NoCR /\ cr' # NoCR /\ changes' = changes
       => [cr' EXCEPT !.finalizer = TRUE, !.status = cr.status]
          = [cr EXCEPT !.finalizer = TRUE]]_vars

\* With the uninstall-wait annotation, the CR goes only after every object of
\* status.deployedRelease.manifest, but those to be kept, is gone, not merely
\* terminating.
WaitHonoured ==
    [][FinalizerRemoved /\ cr.wait /\ cr.status.deployed # None
       => Existing(Renders[cr.status.deployed] \ Keep) = {}]_vars

\* The operator never deletes an object whose resource policy is "keep":
\* neither an upgrade that drops it from the manifest, nor the undo of an
\* install, nor a deletion with or without the wait annotation.
KeptObjectsSurvive ==
    [][changes' = changes => Keep \cap terminating' \subseteq terminating]_vars

\* Once a CR that had the finalizer is gone nothing brings its objects back:
\* only a reconciliation that began before the CR was protected may still
\* create objects without it.
NotRecreated ==
    [][cr = NoCR /\ (\E r \in Resources : live[r] = None /\ live'[r] # None)
       => ~o.finalizer]_vars

\* When the user and the failures have stopped, a CR that is not being deleted
\* ends up protected, with its spec deployed, every object of its manifest
\* as rendered, and a status that says so.
Converged ==
    /\ cr.finalizer
    /\ HistoryIn({"deployed"}) # {}
    /\ Listed[Newest(HistoryIn({"deployed"}))].manifest = cr.spec
    /\ \A r \in Renders[cr.spec] : live[r] = cr.spec /\ r \notin terminating
    /\ cr.status = [deployed |-> cr.spec, conds |-> {"Deployed"}]
Converges == <>[](cr # NoCR => cr.deleting \/ Converged)

\* A deletion completes: neither failures, nor conflicts, nor the wait for the
\* objects hold the CR for ever.
DeletionCompletes == (cr # NoCR /\ cr.deleting) ~> (cr = NoCR)

\* Reconcile's copy of the CR and the cached one, against the CR: a copy that is
\* current is what the API server has, a finalizer or a deletion that was once
\* read is there until the CR is gone, and a CR that was protected is gone only
\* when everybody saw it being deleted.
DeletionPCs == {"uninstall", "purge", "deletionStatus", "cleanup", "removeFinalizer",
                "waitForDeletion"}
CopyInv ==
    /\ cacheCurrent => crCache = cr
    /\ current => /\ pc # "idle" /\ cr # NoCR
                  /\ o.spec = cr.spec /\ o.wait = cr.wait
                  /\ o.deleting = cr.deleting /\ o.finalizer = cr.finalizer
    /\ crCache # NoCR /\ cr # NoCR => /\ crCache.finalizer => cr.finalizer
                                      /\ crCache.deleting => cr.deleting
    /\ pc # "idle" /\ cr # NoCR /\ o.finalizer => cr.finalizer
    /\ cr = NoCR /\ crCache # NoCR /\ crCache.finalizer => crCache.deleting
    /\ pc \in DeletionPCs => /\ o.deleting
                             /\ cr # NoCR => cr.deleting
                             /\ crCache # NoCR => crCache.deleting
    /\ pc \notin DeletionPCs \cup {"idle", "reportFailure"} /\ cr = NoCR => ~o.finalizer

\* What Reconcile knows of the release's storage where it stands, when what it
\* lists is up to date: Sync leaves deployed revisions only, an install begins
\* from none and is undone before one is deployed, and a deletion goes past the
\* uninstall with nothing recorded.
NoneDeployed == \A v \in Stored : records[v].status # "deployed"
ReleaseInv ==
    /\ pc = "load" => \A v \in Stored : records[v].status = "deployed"
    /\ pc = "install" => Stored = {}
    /\ pc = "apply" => /\ tx.was # "uninstalling"
                       /\ tx.op = "install" => tx.was # "deployed" /\ NoneDeployed
    /\ pc \in {"undo", "undoPurge"} => NoneDeployed
    /\ pc = "undo" /\ tx = NoTx => Stored = {}
    /\ pc \in {"uninstall", "purge"} => o.deleting
    /\ pc = "purge" => Stored \subseteq purge
    /\ pc \in {"deletionStatus", "cleanup", "removeFinalizer"} => Stored = {}

\* The operator as its user sees it: the revisions recorded, those deployed, and
\* whether the CR is protected, being deleted or gone.
Phase == CASE cr = NoCR -> "gone"
           [] cr # NoCR /\ ~cr.finalizer -> "free"
           [] cr # NoCR /\ cr.finalizer -> IF cr.deleting THEN "deleting" ELSE "protected"
Running == {v \in Stored : records[v].status = "deployed"}

Lifecycle == INSTANCE ReleaseLifecycle
                 WITH phase <- Phase, stored <- Stored, running <- Running

\* The reconcile loop and the release manager implement ReleaseLifecycle: a CR
\* is protected only with a release recorded and let go only with none, each
\* revision is begun after the last and stops running for a newer one, and
\* neither a cleanup nor an undo takes down one that runs.
LifecycleKept == Lifecycle!Spec

\* Not satisfied, if a Secret that was just created is not listed yet: what
\* manager.go says of the undo of an install that recorded nothing, "there was
\* nothing to rollback": it finds no release to uninstall.
UndoFindsNothing == pc = "undo" /\ tx = NoTx => History = {}

\* Not satisfied: what reconcile.go says of the finalizer, "added to CRs so they are cleaned up
\* after uninstalling a release": a CR goes away only when no revision of its
\* release is deployed.
UninstalledBeforeGone ==
    [][cr # NoCR /\ cr' = NoCR
       => \A v \in Stored : records[v].status # "deployed"]_vars

\* Not satisfied, if a CR is deleted before its first status update: what the
\* change log says of the wait annotation, "to allow all resources to be
\* deleted before removing the custom resource's finalizer": the finalizer of
\* such a CR goes when no object of the chart, but those to be kept, is left.
AllDeletedBeforeFinalizer ==
    [][FinalizerRemoved /\ cr.wait => Existing(Resources \ Keep) = {}]_vars
=============================================================================
