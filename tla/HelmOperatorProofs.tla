------------------------- MODULE HelmOperatorProofs -------------------------
(***************************************************************************)
(* Theorems about HelmOperator, for every set of specs and objects, every  *)
(* bound and any lag of the informers: TypeOK; and that what Reconcile,    *)
(* which works on a copy of the CR that may be out of date, writes back    *)
(* never undoes a user's change, and that no reconciliation recreates the  *)
(* objects of a CR that was protected and is gone.                         *)
(*                                                                         *)
(* Then what the release manager does to a release.  With an up-to-date    *)
(* list of release Secrets: the finalizer goes last, a running release is  *)
(* torn down only by a deletion, and the release that the status names as  *)
(* deployed runs.  With any list: objects to be kept are kept.             *)
(*                                                                         *)
(* And HelmOperator implements ReleaseLifecycle when the list is up to     *)
(* date: the initial states map to the initial state, and every step of    *)
(* the operator, of a failure, of the user or of the cluster to a step of  *)
(* the abstract specification or to none.                                  *)
(***************************************************************************)
EXTENDS HelmOperator, TLAPS, WellFoundedInduction

\* TypeOK, by the part of the system each conjunct is about.  It is not
\* inductive: a Helm action in progress must be a transaction, and the release to
\* be reconciled, or to wait for, must be known.
CRType == cr \in CRs \cup {NoCR} /\ crCache \in CRs \cup {NoCR} /\ cacheCurrent \in BOOLEAN
StorageInv == records \in [Versions -> Releases \cup {None}]
              /\ listed \in [Versions -> Releases \cup {None}]
ObjectsInv == live \in [Resources -> Values \cup {None}] /\ terminating \in SUBSET Resources
LocalsInv ==
    /\ pc \in PCs
    /\ o \in CRs \cup {NoCR} /\ (pc # "idle" => o \in CRs)
    /\ current \in BOOLEAN
    /\ rel \in Values \cup {None}
    /\ tx \in Transactions \cup {NoTx}
    /\ purge \in SUBSET Versions
    /\ pc \in {"apply", "supersede", "record"} => tx \in Transactions
    /\ pc \in {"ensureFinalizer", "reconcileRelease"} => rel \in Values
    /\ pc = "cleanup" => o.status.deployed \in Values
BudgetsInv == faults \in 0 .. MaxFaults /\ changes \in 0 .. MaxChanges
TypeInv == CRType /\ StorageInv /\ ObjectsInv /\ LocalsInv /\ BudgetsInv

-----------------------------------------------------------------------------
(* The helpers                                                             *)

\* A non-empty set of revisions has a newest one.
LEMMA NewestIn ==
    ASSUME NEW S, S \subseteq Versions, S # {}
    PROVE  Newest(S) \in S /\ \A w \in S : w <= Newest(S)
<1> DEFINE T == {MaxVersion - v : v \in S}
<1>0. MaxVersion \in Nat /\ \A v \in S : v \in Nat /\ v <= MaxVersion
  BY BoundsAssumption DEF Versions
<1>1. T \in SUBSET Nat /\ T # {}
  BY <1>0
<1>2. PICK n \in T : \A m \in T : n <= m
  <2>1. PICK R : /\ IsWellFoundedOn(R, Nat)
                 /\ \A n, m \in Nat : n < m => <<n, m>> \in R
    BY NatLessThanWellFounded DEF OpToRel
  <2> HIDE DEF T
  <2>w. IsWellFoundedOn(R, Nat) /\ T \subseteq Nat /\ T # {}
    BY <1>1, <2>1
  <2>2. PICK n \in T : \A m \in T : ~ (<<m, n>> \in R)
    BY <2>w, WFMin
  <2>3. \A m \in T : ~(m < n)
    BY <1>1, <2>1, <2>2
  <2> QED
    BY <1>1, <2>3
<1>3. PICK v \in S : n = MaxVersion - v
  BY <1>2
<1>4. \A w \in S : w <= v
  <2> SUFFICES ASSUME NEW w \in S PROVE w <= v
    OBVIOUS
  <2>1. MaxVersion - v <= MaxVersion - w
    BY <1>2, <1>3
  <2> QED
    BY <2>1, <1>0
<1> QED
  BY <1>4 DEF Newest

\* What the operator lists is a release storage, and its history a set of
\* revisions.
LEMMA ListedType ==
    ASSUME TypeOK
    PROVE  /\ Listed \in [Versions -> Releases \cup {None}]
           /\ History \subseteq Versions
           /\ \A v \in History : Listed[v] \in Releases
           /\ \A s : HistoryIn(s) \subseteq History
  BY NoReleaseAssumption DEF TypeOK, Listed, History, HistoryIn

\* Marking and deleting revisions yields a release storage.
LEMMA StorageType ==
    ASSUME TypeOK
    PROVE  /\ \A S : \A s \in ReleaseStatus : Marked(S, s) \in [Versions -> Releases \cup {None}]
           /\ \A S : Without(S) \in [Versions -> Releases \cup {None}]
  BY DEF TypeOK, Marked, Without, Stored, Releases

\* Applying a manifest yields contents of objects, and what exists are objects.
LEMMA ObjectsType ==
    ASSUME TypeOK
    PROVE  /\ \A S : \A v \in Values : AppliedTo(S, v) \in [Resources -> Values \cup {None}]
           /\ \A S : S \subseteq Resources => Existing(S) \subseteq Resources
  BY DEF TypeOK, AppliedTo, Existing

\* A status that is written is a status.
LEMMA StatusType ==
    ASSUME o \in CRs, NEW d \in Values \cup {None},
           NEW set \in SUBSET Conditions, NEW clear
    PROVE  WithStatus(d, set, clear) \in CRs
<1>1. o.status.conds \in SUBSET Conditions
  BY DEF CRs, CRStatus
<1>2. [deployed |-> d, conds |-> (o.status.conds \ clear) \cup set] \in CRStatus
  BY <1>1 DEF CRStatus
<1> QED
  BY <1>2 DEF WithStatus, CRs
-----------------------------------------------------------------------------
(* Type correctness                                                        *)

LEMMA TypeInvImplies == TypeInv => TypeOK
  BY DEF TypeInv, TypeOK, CRType, StorageInv, ObjectsInv, LocalsInv, BudgetsInv

\* What an action leaves alone keeps its type.
LEMMA UnchangedTypes ==
    ASSUME TypeInv
    PROVE  /\ UNCHANGED crVars => CRType'
           /\ UNCHANGED relVars => StorageInv'
           /\ UNCHANGED objVars => ObjectsInv'
           /\ UNCHANGED budgets => BudgetsInv'
           /\ UNCHANGED <<pc, locals>> => LocalsInv'
  BY DEF TypeInv, CRType, StorageInv, ObjectsInv, LocalsInv, BudgetsInv,
         crVars, relVars, objVars, budgets, locals

LEMMA FaultType == ASSUME TypeInv, Fault PROVE BudgetsInv'
  BY BoundsAssumption DEF TypeInv, BudgetsInv, Fault

LEMMA WriteCRType ==
    ASSUME TypeInv, NEW new \in CRs \cup {NoCR}, WriteCR(new)
    PROVE  CRType'
  BY DEF TypeInv, CRType, WriteCR

LEMMA ReturnType == ASSUME Return PROVE LocalsInv'
  BY DEF Return, LocalsInv, PCs

\* A step of Reconcile that only moves on.
LEMMA GotoType ==
    ASSUME TypeInv, pc # "idle", UNCHANGED <<o, current, rel, tx, purge>>,
           NEW l \in PCs \ {"cleanup"}, Goto(l),
           l \in {"apply", "supersede", "record"} => tx \in Transactions,
           l \in {"ensureFinalizer", "reconcileRelease"} => rel \in Values
    PROVE  LocalsInv'
  BY DEF TypeInv, LocalsInv, Goto

LEMMA CopyType ==
    ASSUME TypeInv, pc # "idle"
    PROVE  /\ o \in CRs /\ o.spec \in Values
           /\ o.status.deployed \in Values \cup {None}
           /\ o.status \in CRStatus
  BY DEF TypeInv, LocalsInv, CRs, CRStatus

\* The types of Reconcile's state after its copy takes another status.
LEMMA ReportFailureType ==
    ASSUME TypeInv, pc # "idle", NEW cond \in Conditions, ReportFailure(cond),
           UNCHANGED <<current, rel, tx, purge>>
    PROVE  LocalsInv'
<1>1. o' \in CRs
  BY CopyType, StatusType DEF ReportFailure
<1> QED
  BY <1>1 DEF TypeInv, LocalsInv, ReportFailure, Goto, PCs

\* Sync.
LEMMA SyncType ==
    ASSUME TypeInv, SyncPrune \/ SyncPruneFails \/ SyncLoad \/ CallFails
    PROVE  TypeInv'
<1> USE UnchangedTypes
<1>t. TypeOK
  BY TypeInvImplies
<1>1. CASE SyncPrune
  <2>1. StorageInv'
    BY <1>1, <1>t, StorageType DEF SyncPrune, StorageInv, TypeInv
  <2>2. LocalsInv'
    BY <1>1, GotoType DEF SyncPrune, PCs, locals
  <2> QED
    BY <1>1, <2>1, <2>2 DEF SyncPrune, TypeInv
<1>2. CASE SyncPruneFails
  <2>1. StorageInv'
    BY <1>2, <1>t, StorageType DEF SyncPruneFails, StorageInv, TypeInv
  <2>2. LocalsInv'
    BY <1>2, ReportFailureType DEF SyncPruneFails, Conditions
  <2> QED
    BY <1>2, <2>1, <2>2, FaultType DEF SyncPruneFails, TypeInv
<1>3. CASE SyncLoad
  <2> DEFINE deployed == HistoryIn({"deployed"})
             clean == [o EXCEPT !.status.conds = @ \ {"Irreconcilable"}]
  <2>0. pc = "load" /\ UNCHANGED <<current, tx, purge>>
    BY <1>3 DEF SyncLoad
  <2>1. clean \in CRs
    <3>1. o \in CRs /\ o.status \in CRStatus
      BY <2>0, CopyType
    <3>2. [o.status EXCEPT !.conds = @ \ {"Irreconcilable"}] \in CRStatus
      BY <3>1 DEF CRStatus
    <3>3. clean = [o EXCEPT !.status = [o.status EXCEPT !.conds = @ \ {"Irreconcilable"}]]
      BY <3>1 DEF CRs, CRStatus
    <3> QED
      BY <3>1, <3>2, <3>3 DEF CRs
  <2>2. deployed # {} => Listed[Newest(deployed)].manifest \in Values
    <3> SUFFICES ASSUME deployed # {} PROVE Listed[Newest(deployed)] \in Releases
      BY DEF Releases
    <3>1. deployed \subseteq Versions /\ deployed \subseteq History
      BY <1>t, ListedType
    <3>2. Newest(deployed) \in deployed
      BY <3>1, NewestIn
    <3> QED
      BY <3>1, <3>2, <1>t, ListedType
  <2>3. LocalsInv'
    <3>1. CASE deployed = {} /\ o' = clean /\ Goto("install") /\ UNCHANGED rel
      BY <2>0, <2>1, <3>1 DEF TypeInv, LocalsInv, Goto, PCs
    <3>2. CASE /\ deployed # {}
               /\ rel' = Listed[Newest(deployed)].manifest
               /\ o' = clean
               /\ \E l \in {"upgrade", "reconcileRelease", "ensureFinalizer"} : Goto(l)
      <4> HIDE DEF clean, deployed
      <4> QED
        BY <2>0, <2>1, <2>2, <3>2 DEF TypeInv, LocalsInv, Goto, PCs
    <3>3. CASE ReportFailure("Irreconcilable") /\ UNCHANGED rel
      BY <2>0, <3>3, ReportFailureType DEF Conditions
    <3> QED
      BY <1>3, <3>1, <3>2, <3>3 DEF SyncLoad
  <2> QED
    BY <1>3, <2>3 DEF SyncLoad, TypeInv
<1>4. CASE CallFails
  <2>1. LocalsInv'
    BY <1>4, ReportFailureType DEF CallFails, Conditions
  <2> QED
    BY <1>4, <2>1, FaultType DEF CallFails, TypeInv
<1> QED
  BY <1>1, <1>2, <1>3, <1>4

\* A revision that is recorded has a status and a manifest.
LEMMA RecordedType ==
    ASSUME TypeInv, NEW v \in Versions, NEW s \in ReleaseStatus, NEW m \in Values
    PROVE  [records EXCEPT ![v] = [status |-> s, manifest |-> m]]
               \in [Versions -> Releases \cup {None}]
  BY DEF TypeInv, StorageInv, Releases

LEMMA FirstVersion == 1 \in Versions /\ 0 \in 0 .. MaxVersion /\ Versions \subseteq 0 .. MaxVersion
  BY BoundsAssumption DEF Versions

\* InstallRelease.
LEMMA InstallType ==
    ASSUME TypeInv, Install \/ InstallRenderFails
    PROVE  TypeInv'
<1> USE UnchangedTypes
<1>1. CASE InstallCreate
  <2>0. pc = "install" /\ o.spec \in Values
    BY <1>1, CopyType DEF InstallCreate
  <2>1. StorageInv'
    BY <1>1, <2>0, FirstVersion, RecordedType DEF InstallCreate, ReleaseStatus, StorageInv, TypeInv
  <2>2. tx' \in Transactions
    BY <1>1, <2>0, FirstVersion DEF InstallCreate, Transactions, ReleaseStatus
  <2>3. LocalsInv'
    BY <1>1, <2>2 DEF InstallCreate, LocalsInv, TypeInv, Goto, PCs
  <2> QED
    BY <1>1, <2>1, <2>3 DEF InstallCreate, TypeInv
<1>2. CASE InstallNameInUse
  <2>1. LocalsInv'
    BY <1>2, ReportFailureType DEF InstallNameInUse, Conditions
  <2> QED
    BY <1>2, <2>1 DEF InstallNameInUse, TypeInv
<1>3. CASE InstallAlreadyExists
  <2>1. LocalsInv'
    BY <1>3, GotoType DEF InstallAlreadyExists, PCs, locals
  <2> QED
    BY <1>3, <2>1 DEF InstallAlreadyExists, TypeInv
<1>4. CASE InstallRenderFails
  <2>1. LocalsInv'
    BY <1>4, GotoType DEF InstallRenderFails, PCs, locals
  <2> QED
    BY <1>4, <2>1, FaultType DEF InstallRenderFails, TypeInv
<1> QED
  BY <1>1, <1>2, <1>3, <1>4 DEF Install

\* What the Helm action in progress applies and where it came from.
LEMMA TxType ==
    ASSUME TypeInv, pc \in {"apply", "supersede", "record"}
    PROVE  /\ tx \in Transactions
           /\ tx.op \in {"install", "upgrade", "rollback"}
           /\ tx.target \in Values /\ tx.was \in ReleaseStatus
           /\ tx.version \in Versions
  BY DEF TypeInv, LocalsInv, Transactions

\* A revision that takes another status is a release.
LEMMA RestatusType ==
    ASSUME TypeInv, NEW v \in Stored, NEW s \in ReleaseStatus
    PROVE  [records[v] EXCEPT !.status = s] \in Releases
<1>1. v \in Versions /\ records[v] \in Releases
  BY DEF TypeInv, StorageInv, Stored
<1> QED
  BY <1>1 DEF Releases

\* Applying the manifest of an install, an upgrade or a rollback.
LEMMA ApplyType ==
    ASSUME TypeInv, Apply \/ ApplyFails
    PROVE  TypeInv'
<1> USE UnchangedTypes
<1>t. TypeOK /\ pc = "apply"
  BY TypeInvImplies DEF Apply, ApplyFails
<1>x. tx \in Transactions /\ tx.op \in {"install", "upgrade", "rollback"}
      /\ tx.target \in Values /\ tx.was \in ReleaseStatus
  BY <1>t, TxType
<1>1. CASE Apply
  <2>1. live' \in [Resources -> Values \cup {None}]
    BY <1>1, <1>t, <1>x, ObjectsType DEF Apply
  <2>2. terminating' \in SUBSET Resources
    <3>1. terminating \subseteq Resources
      BY DEF TypeInv, ObjectsInv
    <3>2. CASE tx.current = None
      BY <1>1, <3>1, <3>2 DEF Apply
    <3>3. CASE tx.current # None
      <4>1. Renders[tx.current] \subseteq Resources
        BY <1>x, <3>3, RendersAssumption DEF Transactions
      <4>2. Existing((Renders[tx.current] \ Renders[tx.target]) \ Keep) \subseteq Resources
        BY <4>1, <1>t, ObjectsType
      <4> QED
        BY <1>1, <3>1, <3>3, <4>2 DEF Apply
    <3> QED
      BY <3>2, <3>3
  <2>3. LocalsInv'
    BY <1>1, <1>t, <1>x, GotoType DEF Apply, PCs, locals
  <2> QED
    BY <1>1, <2>1, <2>2, <2>3 DEF Apply, ObjectsInv, TypeInv
<1>2. CASE ApplyFails
  <2>1. live' \in [Resources -> Values \cup {None}]
    BY <1>2, <1>t, <1>x, ObjectsType DEF ApplyFails
  <2>2. StorageInv'
    <3>1. "failed" \in ReleaseStatus
      BY DEF ReleaseStatus
    <3> DEFINE after(v) == CASE v \notin Stored -> None
                 [] v \in Stored /\ v = tx.version -> [records[v] EXCEPT !.status = "failed"]
                 [] v \in Stored /\ v = tx.from -> [records[v] EXCEPT !.status = tx.was]
                 [] OTHER -> records[v]
    <3>2. \A v \in Versions : after(v) \in Releases \cup {None}
      <4> SUFFICES ASSUME NEW v \in Versions PROVE after(v) \in Releases \cup {None}
        OBVIOUS
      <4>1. records[v] \in Releases \cup {None}
        BY DEF TypeInv, StorageInv
      <4>2. v \in Stored => /\ [records[v] EXCEPT !.status = "failed"] \in Releases
                            /\ [records[v] EXCEPT !.status = tx.was] \in Releases
        BY <1>x, <3>1, RestatusType
      <4>3. CASE v \notin Stored
        BY <4>3
      <4>4. CASE v \in Stored /\ v = tx.version
        BY <4>2, <4>4
      <4>5. CASE v \in Stored /\ v # tx.version /\ v = tx.from
        BY <4>2, <4>5
      <4>6. CASE v \in Stored /\ v # tx.version /\ v # tx.from
        BY <4>1, <4>6
      <4> QED
        BY <4>3, <4>4, <4>5, <4>6
    <3>3. records' = [v \in Versions |-> after(v)] /\ listed' = listed
      BY <1>2 DEF ApplyFails
    <3> HIDE DEF after
    <3> QED
      BY <3>2, <3>3 DEF TypeInv, StorageInv
  <2>3. LocalsInv'
    <3>1. CASE tx.op = "install"
      BY <1>2, <1>t, <3>1, GotoType DEF ApplyFails, PCs
    <3>2. CASE tx.op = "upgrade"
      BY <1>2, <1>t, <3>2, GotoType DEF ApplyFails, PCs
    <3>3. CASE tx.op = "rollback"
      BY <1>2, <1>t, <3>3, ReportFailureType DEF ApplyFails, Conditions
    <3> QED
      BY <1>x, <3>1, <3>2, <3>3
  <2> QED
    BY <1>2, <2>1, <2>2, <2>3, FaultType DEF ApplyFails, ObjectsInv, TypeInv
<1> QED
  BY <1>1, <1>2

\* Superseding the replaced revision.
LEMMA SupersedeType ==
    ASSUME TypeInv, Supersede \/ SupersedeFails
    PROVE  TypeInv'
<1> USE UnchangedTypes
<1>t. TypeOK /\ pc = "supersede" /\ tx \in Transactions
  BY TypeInvImplies, TxType DEF Supersede, SupersedeFails
<1>1. CASE Supersede
  <2>1. StorageInv'
    BY <1>1, <1>t, StorageType DEF Supersede, StorageInv, TypeInv, ReleaseStatus
  <2>2. LocalsInv'
    BY <1>1, <1>t, GotoType DEF Supersede, PCs, locals
  <2> QED
    BY <1>1, <2>1, <2>2 DEF Supersede, TypeInv
<1>2. CASE SupersedeFails
  <2>1. LocalsInv'
    BY <1>2, <1>t, GotoType DEF SupersedeFails, PCs, locals
  <2> QED
    BY <1>2, <2>1, FaultType DEF SupersedeFails, TypeInv
<1> QED
  BY <1>1, <1>2

\* Recording the outcome.
LEMMA RecordType ==
    ASSUME TypeInv, Record \/ RecordFails
    PROVE  TypeInv'
<1> USE UnchangedTypes
<1>t. TypeOK /\ pc = "record"
  BY TypeInvImplies DEF Record, RecordFails
<1>x. tx \in Transactions /\ tx.op \in {"install", "upgrade", "rollback"} /\ tx.target \in Values
  BY <1>t, TxType
<1>a. ASSUME NEW ok \in BOOLEAN, AfterRecord(ok), UNCHANGED <<current, tx, purge>>
      PROVE  LocalsInv'
  <2>1. CASE tx.op = "install"
    BY <1>a, <1>t, <1>x, <2>1 DEF AfterRecord, TypeInv, LocalsInv, Goto, PCs
  <2>2. CASE tx.op = "upgrade" /\ ok
    BY <1>a, <1>t, <1>x, <2>2 DEF AfterRecord, TypeInv, LocalsInv, Goto, PCs
  <2>3. CASE tx.op = "upgrade" /\ ~ok
    BY <1>a, <1>t, <2>3, GotoType DEF AfterRecord, PCs
  <2>4. CASE tx.op = "rollback"
    BY <1>a, <1>t, <2>4, ReportFailureType DEF AfterRecord, Conditions
  <2> QED
    BY <1>x, <2>1, <2>2, <2>3, <2>4
<1>1. CASE Record
  <2>1. StorageInv'
    BY <1>1, <1>t, StorageType DEF Record, StorageInv, TypeInv, ReleaseStatus
  <2>2. LocalsInv'
    <3>1. (tx.version \in Stored) \in BOOLEAN
      OBVIOUS
    <3> QED
      BY <1>1, <1>a, <3>1 DEF Record
  <2> QED
    BY <1>1, <2>1, <2>2 DEF Record, TypeInv
<1>2. CASE RecordFails
  <2>1. LocalsInv'
    BY <1>2, <1>a DEF RecordFails
  <2> QED
    BY <1>2, <2>1, FaultType DEF RecordFails, TypeInv
<1> QED
  BY <1>1, <1>2

\* AddFinalizer writes what was read of the CR, but for the finalizer.
LEMMA Protection ==
    ASSUME TypeInv, AddFinalizer
    PROVE  \E new \in CRs :
              /\ WriteCR(new) /\ current /\ UNCHANGED current /\ cr \in CRs /\ o \in CRs
              /\ new.spec = o.spec /\ new.wait = o.wait /\ new.deleting = o.deleting
              /\ new.finalizer /\ new.status = cr.status
              /\ o' = [o EXCEPT !.finalizer = TRUE] /\ o' \in CRs
              /\ pc \in {"addFinalizer", "ensureFinalizer"}
              /\ pc' \in {"writeStatus", "upgrade", "reconcileRelease"}
<1> DEFINE copy == [o EXCEPT !.finalizer = TRUE]
           new == [copy EXCEPT !.status = cr.status]
<1>1. /\ pc \in {"addFinalizer", "ensureFinalizer"} /\ WriteCR(new) /\ o' = copy
      /\ current /\ UNCHANGED current /\ cr # NoCR
      /\ pc' \in {"writeStatus", "upgrade", "reconcileRelease"}
  BY DEF AddFinalizer, Written, Goto
<1>2. o \in CRs /\ cr \in CRs
  BY <1>1, CopyType DEF TypeInv, CRType
<1>3. copy \in CRs /\ cr.status \in CRStatus
  BY <1>2 DEF CRs
<1>4. new \in CRs /\ new.spec = o.spec /\ new.wait = o.wait /\ new.deleting = o.deleting
      /\ new.finalizer /\ new.status = cr.status
  BY <1>2, <1>3 DEF CRs
<1> HIDE DEF new
<1> QED
  BY <1>1, <1>2, <1>3, <1>4

\* Writes of the CR.
LEMMA CRStepsType ==
    ASSUME TypeInv, AddFinalizer \/ WriteStatus \/ Conflict \/ WriteFails \/ ReportedFailure
    PROVE  TypeInv'
<1> USE UnchangedTypes
<1>1. CASE AddFinalizer
  <2>1. pc \in {"addFinalizer", "ensureFinalizer"} /\ o' \in CRs /\ UNCHANGED current
    BY <1>1, Protection
  <2>3. CRType'
    BY <1>1, Protection, WriteCRType
  <2>4. LocalsInv'
    BY <1>1, <2>1 DEF AddFinalizer, Goto, TypeInv, LocalsInv, PCs
  <2> QED
    BY <1>1, <2>3, <2>4 DEF AddFinalizer, TypeInv
<1>2. CASE WriteStatus
  <2>1. o \in CRs /\ rel \in Values \cup {None}
    BY <1>2, CopyType DEF WriteStatus, TypeInv, LocalsInv
  <2>2. WithStatus(rel, {"Deployed"}, {"ReleaseFailed", "Irreconcilable"}) \in CRs
    BY <2>1, StatusType DEF Conditions
  <2>3. CRType'
    BY <1>2, <2>2, WriteCRType DEF WriteStatus
  <2> QED
    BY <1>2, <2>3, ReturnType DEF WriteStatus, TypeInv
<1>3. CASE Conflict
  BY <1>3, ReturnType DEF Conflict, TypeInv
<1>4. CASE WriteFails
  BY <1>4, ReturnType, FaultType DEF WriteFails, TypeInv
<1>5. CASE ReportedFailure
  <2>1. CRType'
    BY <1>5, CopyType, WriteCRType DEF ReportedFailure
  <2> QED
    BY <1>5, <2>1, ReturnType DEF ReportedFailure, TypeInv
<1> QED
  BY <1>1, <1>2, <1>3, <1>4, <1>5

\* The newest revision that is listed is a release.
LEMMA NewestType ==
    ASSUME TypeInv, NEW S, S \subseteq History, S # {}
    PROVE  /\ Newest(S) \in Versions /\ Newest(S) \in S
           /\ Listed[Newest(S)] \in Releases
           /\ Listed[Newest(S)].status \in ReleaseStatus
           /\ Listed[Newest(S)].manifest \in Values
<1>1. S \subseteq Versions /\ \A v \in History : Listed[v] \in Releases
  BY TypeInvImplies, ListedType
<1>2. Newest(S) \in S
  BY <1>1, NewestIn
<1> QED
  BY <1>1, <1>2 DEF Releases

\* UpgradeRelease.
LEMMA UpgradeType ==
    ASSUME TypeInv, UpgradeCreate \/ UpgradeRefused \/ UpgradeBuildFails
    PROVE  TypeInv'
<1> USE UnchangedTypes
<1>1. CASE UpgradeCreate
  <2> DEFINE version == Newest(History) + 1
  <2>0. pc = "upgrade" /\ o.spec \in Values /\ version \in Versions
    BY <1>1, CopyType DEF UpgradeCreate
  <2>1. StorageInv'
    BY <1>1, <2>0, RecordedType DEF UpgradeCreate, ReleaseStatus, StorageInv, TypeInv
  <2>2. /\ Replaced \in Versions /\ Listed[Replaced].status \in ReleaseStatus
        /\ Listed[Replaced].manifest \in Values
    <3>1. History # {} /\ HistoryIn({"deployed"}) \subseteq History
      BY <1>1, TypeInvImplies, ListedType DEF UpgradeCreate, UpgradePossible, UpgradePrepared
    <3> QED
      BY <3>1, NewestType DEF Replaced
  <2>3. tx' \in Transactions
    BY <1>1, <2>0, <2>2, FirstVersion DEF UpgradeCreate, Transactions
  <2>4. LocalsInv'
    BY <1>1, <2>3 DEF UpgradeCreate, LocalsInv, TypeInv, Goto, PCs
  <2> QED
    BY <1>1, <2>1, <2>4 DEF UpgradeCreate, TypeInv
<1>2. CASE UpgradeRefused
  <2>1. LocalsInv'
    BY <1>2, ReportFailureType DEF UpgradeRefused, Conditions
  <2> QED
    BY <1>2, <2>1 DEF UpgradeRefused, TypeInv
<1>3. CASE UpgradeBuildFails
  <2>1. LocalsInv'
    BY <1>3, GotoType DEF UpgradeBuildFails, PCs, locals
  <2> QED
    BY <1>3, <2>1, FaultType DEF UpgradeBuildFails, TypeInv
<1> QED
  BY <1>1, <1>2, <1>3

\* RollBack.
LEMMA RollbackType ==
    ASSUME TypeInv, RollbackCreate \/ RollbackRefused
    PROVE  TypeInv'
<1> USE UnchangedTypes
<1>1. CASE RollbackCreate
  <2> DEFINE last == Newest(History)
  <2>0. pc = "rollback" /\ last + 1 \in Versions
    BY <1>1 DEF RollbackCreate
  <2>1. last \in Versions /\ Listed[last].manifest \in Values
    BY <1>1, NewestType DEF RollbackCreate, RollbackPossible
  <2>2. records[last - 1].manifest \in Values
    <3>1. last - 1 \in Versions /\ last - 1 \in Stored
      BY <1>1, TypeInvImplies, ListedType DEF RollbackCreate, RollbackPossible
    <3> QED
      BY <3>1 DEF Stored, TypeInv, StorageInv, Releases
  <2>3. StorageInv'
    BY <1>1, <2>0, <2>2, RecordedType DEF RollbackCreate, ReleaseStatus, StorageInv, TypeInv
  <2>4. tx' \in Transactions
    BY <1>1, <2>0, <2>1, <2>2, FirstVersion DEF RollbackCreate, Transactions, ReleaseStatus
  <2>5. LocalsInv'
    BY <1>1, <2>4 DEF RollbackCreate, LocalsInv, TypeInv, Goto, PCs
  <2> QED
    BY <1>1, <2>3, <2>5 DEF RollbackCreate, TypeInv
<1>2. CASE RollbackRefused
  <2>1. LocalsInv'
    BY <1>2, ReportFailureType DEF RollbackRefused, Conditions
  <2> QED
    BY <1>2, <2>1 DEF RollbackRefused, TypeInv
<1> QED
  BY <1>1, <1>2

\* ReconcileRelease.
LEMMA ReconcileReleaseType ==
    ASSUME TypeInv, ReconcileRelease \/ ReconcileReleaseFails
    PROVE  TypeInv'
<1> USE UnchangedTypes
<1>t. TypeOK /\ pc = "reconcileRelease" /\ rel \in Values
  BY TypeInvImplies DEF ReconcileRelease, ReconcileReleaseFails, TypeInv, LocalsInv
<1>1. CASE ReconcileRelease
  <2>1. live' \in [Resources -> Values \cup {None}]
    BY <1>1, <1>t, ObjectsType DEF ReconcileRelease
  <2>2. LocalsInv'
    BY <1>1, <1>t, GotoType DEF ReconcileRelease, PCs, locals
  <2> QED
    BY <1>1, <2>1, <2>2 DEF ReconcileRelease, ObjectsInv, TypeInv
<1>2. CASE ReconcileReleaseFails
  <2>1. live' \in [Resources -> Values \cup {None}]
    BY <1>2, <1>t, ObjectsType DEF ReconcileReleaseFails
  <2>2. o' \in CRs
    BY <1>2, <1>t, CopyType, StatusType DEF ReconcileReleaseFails, Conditions
  <2>3. LocalsInv'
    BY <1>2, <1>t, <2>2 DEF ReconcileReleaseFails, LocalsInv, TypeInv, Goto, PCs
  <2> QED
    BY <1>2, <2>1, <2>3, FaultType DEF ReconcileReleaseFails, ObjectsInv, TypeInv
<1> QED
  BY <1>1, <1>2

\* UninstallRelease, up to the purge of the history.
LEMMA UninstallType ==
    ASSUME TypeInv, UninstallNotFound \/ UninstallObjects \/ UninstallObjectsFails
    PROVE  TypeInv'
<1> USE UnchangedTypes
<1>t. TypeOK /\ pc \in {"uninstall", "undo"}
  BY TypeInvImplies DEF UninstallNotFound, UninstallObjects, UninstallObjectsFails
<1>d. ASSUME History # {}
      PROVE  Existing(Renders[Listed[Newest(History)].manifest] \ Keep) \subseteq Resources
  <2>1. Listed[Newest(History)].manifest \in Values
    BY <1>d, NewestType
  <2>2. Renders[Listed[Newest(History)].manifest] \subseteq Resources
    BY <2>1, RendersAssumption
  <2> QED
    BY <2>2, <1>t, ObjectsType
<1>1. CASE UninstallNotFound
  <2>1. CASE pc = "undo"
    <3>1. LocalsInv'
      BY <1>1, <2>1, ReportFailureType DEF UninstallNotFound, Conditions
    <3> QED
      BY <1>1, <3>1 DEF UninstallNotFound, TypeInv
  <2>2. CASE pc = "uninstall"
    <3>1. o' \in CRs
      BY <1>1, <2>2, CopyType, StatusType DEF UninstallNotFound, Conditions
    <3>2. LocalsInv'
      BY <1>1, <2>2, <3>1 DEF UninstallNotFound, LocalsInv, TypeInv, Goto, PCs
    <3> QED
      BY <1>1, <3>2 DEF UninstallNotFound, TypeInv
  <2> QED
    BY <1>t, <2>1, <2>2
<1>2. CASE UninstallObjects
  <2>1. StorageInv'
    BY <1>2, <1>t, StorageType DEF UninstallObjects, StorageInv, TypeInv, ReleaseStatus
  <2>2. ObjectsInv'
    BY <1>2, <1>d DEF UninstallObjects, ObjectsInv, TypeInv
  <2>3. History \subseteq Versions
    BY <1>t, ListedType
  <2>4. LocalsInv'
    BY <1>2, <1>t, <2>3 DEF UninstallObjects, LocalsInv, TypeInv, Goto, PCs
  <2> QED
    BY <1>2, <2>1, <2>2, <2>4 DEF UninstallObjects, TypeInv
<1>3. CASE UninstallObjectsFails
  <2>1. StorageInv'
    BY <1>3, <1>t, StorageType DEF UninstallObjectsFails, StorageInv, TypeInv, ReleaseStatus
  <2>2. ObjectsInv'
    BY <1>3, <1>d DEF UninstallObjectsFails, ObjectsInv, TypeInv
  <2>3. LocalsInv'
    BY <1>3, <1>t, ReportFailureType DEF UninstallObjectsFails, Conditions
  <2> QED
    BY <1>3, <2>1, <2>2, <2>3, FaultType DEF UninstallObjectsFails, TypeInv
<1> QED
  BY <1>1, <1>2, <1>3

\* The purge.
LEMMA PurgeType ==
    ASSUME TypeInv, UninstallPurge \/ UninstallPurgeMissing \/ UninstallPurgeFails
    PROVE  TypeInv'
<1> USE UnchangedTypes
<1>t. TypeOK /\ pc \in {"purge", "undoPurge"}
  BY TypeInvImplies DEF UninstallPurge, UninstallPurgeMissing, UninstallPurgeFails
<1>p. ASSUME NEW v, PurgeUpTo(v), BudgetsInv' PROVE TypeInv'
  <2>1. StorageInv'
    BY <1>p, <1>t, StorageType DEF PurgeUpTo, StorageInv, TypeInv
  <2>2. LocalsInv'
    BY <1>p, <1>t, ReportFailureType DEF PurgeUpTo, Conditions
  <2> QED
    BY <1>p, <2>1, <2>2 DEF PurgeUpTo, TypeInv
<1>1. CASE UninstallPurge
  <2>1. StorageInv'
    BY <1>1, <1>t, StorageType DEF UninstallPurge, StorageInv, TypeInv
  <2>2. LocalsInv'
    <3>1. CASE pc = "undoPurge"
      BY <1>1, <3>1, ReportFailureType DEF UninstallPurge, Conditions
    <3>2. CASE pc = "purge"
      <4>1. o' \in CRs
        BY <1>1, <3>2, CopyType, StatusType DEF UninstallPurge, Conditions
      <4> QED
        BY <1>1, <3>2, <4>1 DEF UninstallPurge, LocalsInv, TypeInv, Goto, PCs
    <3> QED
      BY <1>t, <3>1, <3>2
  <2> QED
    BY <1>1, <2>1, <2>2 DEF UninstallPurge, TypeInv
<1>2. CASE UninstallPurgeMissing
  BY <1>2, <1>p DEF UninstallPurgeMissing
<1>3. CASE UninstallPurgeFails
  BY <1>3, <1>p, FaultType DEF UninstallPurgeFails
<1> QED
  BY <1>1, <1>2, <1>3

\* The rest of a deletion.
LEMMA DeletionType ==
    ASSUME TypeInv, DeletionStatus \/ CleanupDone \/ CleanupAgain \/ CleanupFails
                    \/ RemoveFinalizer \/ WaitForDeletion \/ WaitForDeletionTimesOut \/ Crash
    PROVE  TypeInv'
<1> USE UnchangedTypes
<1>1. CASE DeletionStatus
  <2>1. o \in CRs /\ pc = "deletionStatus" /\ o.status.deployed \in Values \cup {None}
    BY <1>1, CopyType DEF DeletionStatus
  <2>2. CRType'
    BY <1>1, <2>1, WriteCRType DEF DeletionStatus, Written
  <2>3. LocalsInv'
    BY <1>1, <2>1 DEF DeletionStatus, Written, Goto, TypeInv, LocalsInv, PCs
  <2> QED
    BY <1>1, <2>2, <2>3 DEF DeletionStatus, TypeInv
<1>2. CASE CleanupDone
  <2>1. LocalsInv'
    BY <1>2, GotoType DEF CleanupDone, PCs, locals
  <2> QED
    BY <1>2, <2>1 DEF CleanupDone, TypeInv
<1>r. ASSUME pc = "cleanup" PROVE Existing(Reported) \subseteq Resources
  <2>1. Reported \subseteq Resources
    BY <1>r, RendersAssumption DEF Reported, TypeInv, LocalsInv
  <2> QED
    BY <2>1, TypeInvImplies, ObjectsType
<1>3. CASE CleanupAgain
  <2>1. ObjectsInv'
    BY <1>3, <1>r DEF CleanupAgain, TypeInv, ObjectsInv
  <2> QED
    BY <1>3, <2>1, ReturnType DEF CleanupAgain, TypeInv
<1>4. CASE CleanupFails
  <2>1. LocalsInv'
    BY <1>4, ReportFailureType DEF CleanupFails, Conditions
  <2>2. ObjectsInv'
    BY <1>4, <1>r DEF CleanupFails, TypeInv, ObjectsInv
  <2> QED
    BY <1>4, <2>1, <2>2, FaultType DEF CleanupFails, TypeInv
<1>5. CASE RemoveFinalizer
  <2>1. CRType'
    BY <1>5, WriteCRType DEF RemoveFinalizer
  <2>2. LocalsInv'
    BY <1>5 DEF RemoveFinalizer, Goto, TypeInv, LocalsInv, PCs
  <2> QED
    BY <1>5, <2>1, <2>2 DEF RemoveFinalizer, TypeInv
<1>6. CASE WaitForDeletion
  BY <1>6, ReturnType DEF WaitForDeletion, TypeInv
<1>7. CASE WaitForDeletionTimesOut
  BY <1>7, ReturnType, FaultType DEF WaitForDeletionTimesOut, TypeInv
<1>8. CASE Crash
  BY <1>8, ReturnType, FaultType DEF Crash, TypeInv
<1> QED
  BY <1>1, <1>2, <1>3, <1>4, <1>5, <1>6, <1>7, <1>8

LEMMA StartType == ASSUME TypeInv, StartReconcile PROVE TypeInv'
<1>1. crCache \in CRs
  BY DEF StartReconcile, TypeInv, CRType
<1>2. LocalsInv'
  BY <1>1 DEF StartReconcile, TypeInv, LocalsInv, CRType, Goto, PCs
<1> QED
  BY <1>2, UnchangedTypes DEF StartReconcile, TypeInv

\* The user and the cluster.
LEMMA EnvironmentType ==
    ASSUME TypeInv, User \/ Cluster
    PROVE  TypeInv'
<1> USE UnchangedTypes
<1>u. ASSUME NEW new \in CRs \cup {NoCR}, UserWrites(new) PROVE TypeInv'
  <2>1. CRType'
    BY <1>u DEF UserWrites, TypeInv, CRType
  <2>2. LocalsInv'
    BY <1>u DEF UserWrites, TypeInv, LocalsInv
  <2>3. BudgetsInv'
    BY <1>u, BoundsAssumption DEF UserWrites, TypeInv, BudgetsInv
  <2> QED
    BY <1>u, <2>1, <2>2, <2>3 DEF UserWrites, TypeInv
<1>1. CASE EditSpec
  <2>1. PICK v \in Values : UserWrites([cr EXCEPT !.spec = v])
    BY <1>1 DEF EditSpec
  <2>2. [cr EXCEPT !.spec = v] \in CRs
    BY <2>1 DEF UserWrites, TypeInv, CRType, CRs
  <2> QED
    BY <1>u, <2>1, <2>2
<1>2. CASE Annotate
  <2>1. PICK w \in BOOLEAN : UserWrites([cr EXCEPT !.wait = w])
    BY <1>2 DEF Annotate
  <2>2. [cr EXCEPT !.wait = w] \in CRs
    BY <2>1 DEF UserWrites, TypeInv, CRType, CRs
  <2> QED
    BY <1>u, <2>1, <2>2
<1>3. CASE DeleteCR
  <2>1. [cr EXCEPT !.deleting = TRUE] \in CRs
    BY <1>3 DEF DeleteCR, TypeInv, CRType, CRs
  <2> QED
    BY <1>u, <1>3, <2>1 DEF DeleteCR
<1>4. ASSUME NEW r \in Resources, DeleteObject(r) PROVE TypeInv'
  <2>1. BudgetsInv'
    BY <1>4, BoundsAssumption DEF DeleteObject, TypeInv, BudgetsInv
  <2> QED
    BY <1>4, <2>1 DEF DeleteObject, TypeInv, ObjectsInv
<1>5. ASSUME NEW r \in Resources, FinishDeletion(r) PROVE TypeInv'
  BY <1>5 DEF FinishDeletion, TypeInv, ObjectsInv
<1>6. CASE CRCacheSync
  BY <1>6 DEF CRCacheSync, TypeInv, CRType
<1>7. CASE ListSync
  BY <1>7 DEF ListSync, TypeInv, StorageInv
<1>8. CASE CollectGarbage
  <2>1. StorageInv'
    BY <1>8, TypeInvImplies, StorageType DEF CollectGarbage, StorageInv, TypeInv
  <2>2. ObjectsInv'
    BY <1>8, PolicyAssumption DEF CollectGarbage, Garbage, Existing, ObjectsInv, TypeInv
  <2> QED
    BY <1>8, <2>1, <2>2 DEF CollectGarbage, TypeInv
<1> QED
  BY <1>1, <1>2, <1>3, <1>4, <1>5, <1>6, <1>7, <1>8 DEF User, Cluster

LEMMA TypeInit == Init => TypeInv
<1> SUFFICES ASSUME Init PROVE TypeInv
  OBVIOUS
<1>1. CRType
  <2>1. PICK v \in Values, w \in BOOLEAN : cr = Fresh(v, w)
    BY DEF Init
  <2>2. [deployed |-> None, conds |-> {}] \in CRStatus
    BY DEF CRStatus
  <2>3. cr \in CRs
    BY <2>1, <2>2 DEF Fresh, CRs
  <2> QED
    BY <2>3 DEF Init, CRType
<1>2. StorageInv /\ ObjectsInv
  BY DEF Init, StorageInv, ObjectsInv
<1>3. LocalsInv
  BY DEF Init, LocalsInv, PCs
<1>4. BudgetsInv
  BY BoundsAssumption DEF Init, BudgetsInv
<1> QED
  BY <1>1, <1>2, <1>3, <1>4 DEF TypeInv

LEMMA TypeStep == TypeInv /\ [Next]_vars => TypeInv'
<1> SUFFICES ASSUME TypeInv, [Next]_vars PROVE TypeInv'
  OBVIOUS
<1>1. CASE Operator
  BY <1>1, StartType, SyncType, InstallType, ApplyType, SupersedeType, RecordType,
     CRStepsType, UpgradeType, RollbackType, ReconcileReleaseType, UninstallType,
     PurgeType, DeletionType
  DEF Operator, HelmSteps, CRSteps
<1>2. CASE Failure
  BY <1>2, SyncType, InstallType, ApplyType, SupersedeType, RecordType, CRStepsType,
     UpgradeType, ReconcileReleaseType, UninstallType, PurgeType, DeletionType
  DEF Failure
<1>3. CASE User \/ Cluster
  BY <1>3, EnvironmentType
<1>4. CASE UNCHANGED vars
  BY <1>4, UnchangedTypes DEF vars, TypeInv
<1> QED
  BY <1>1, <1>2, <1>3, <1>4 DEF Next

\* Every state of every execution has its type, whatever the specs, the chart's
\* objects, the lag of the informers and the number of failures, crashes and
\* user actions (reconcile.go, manager.go).
THEOREM TypeCorrect == Spec => []TypeOK
<1>1. Spec => []TypeInv
  BY TypeInit, TypeStep, PTL DEF Spec
<1> QED
  BY <1>1, TypeInvImplies, PTL

\* Only the deletion branch, and DeleteCR for a CR without the finalizer, let
\* the CR go.
LEMMA CRGoes ==
    ASSUME TypeInv, Next, cr # NoCR, cr' = NoCR
    PROVE  RemoveFinalizer \/ ~cr.finalizer
<1> USE DEF crVars
<1>a. pc # "idle" => o \in CRs /\ o # NoCR
  BY CopyType, NoCRAssumption
<1>c. cr \in CRs
  BY DEF TypeInv, CRType
<1>1. CASE StartReconcile \/ SyncPrune \/ SyncLoad \/ Install
  BY <1>1 DEF StartReconcile, SyncPrune, SyncLoad, Install, InstallCreate,
              InstallNameInUse, InstallAlreadyExists
<1>2. CASE HelmSteps
  BY <1>2 DEF HelmSteps, Apply, Supersede, Record, UpgradeCreate, UpgradeRefused,
              RollbackCreate, RollbackRefused, ReconcileRelease, UninstallNotFound,
              UninstallObjects, UninstallPurge, UninstallPurgeMissing, PurgeUpTo
<1>3. CASE CRSteps
  <2>1. CASE AddFinalizer
    BY <2>1, Protection, NoCRAssumption DEF WriteCR
  <2>2. CASE WriteStatus
    <3>1. WithStatus(rel, {"Deployed"}, {"ReleaseFailed", "Irreconcilable"}) \in CRs
      BY <2>2, <1>a, StatusType DEF WriteStatus, TypeInv, LocalsInv, Conditions
    <3> QED
      BY <2>2, <3>1, NoCRAssumption DEF WriteStatus, WriteCR
  <2>3. CASE ReportedFailure \/ DeletionStatus
    BY <2>3, <1>a DEF ReportedFailure, DeletionStatus, Written, WriteCR
  <2>4. CASE Conflict \/ CleanupDone \/ CleanupAgain \/ WaitForDeletion
    BY <2>4 DEF Conflict, CleanupDone, CleanupAgain, WaitForDeletion
  <2> QED
    BY <1>3, <2>1, <2>2, <2>3, <2>4 DEF CRSteps
<1>4. CASE Failure
  BY <1>4 DEF Failure, SyncPruneFails, CallFails, InstallRenderFails, UpgradeBuildFails, ApplyFails,
              SupersedeFails, RecordFails, WriteFails, ReconcileReleaseFails,
              UninstallObjectsFails, UninstallPurgeFails, PurgeUpTo, CleanupFails,
              WaitForDeletionTimesOut, Crash
<1>5. CASE User
  <2>1. \A v \in Values : [cr EXCEPT !.spec = v] # NoCR
    BY <1>c, NoCRAssumption DEF CRs
  <2>2. \A w \in BOOLEAN : [cr EXCEPT !.wait = w] # NoCR
    BY <1>c, NoCRAssumption DEF CRs
  <2>3. [cr EXCEPT !.deleting = TRUE] # NoCR
    BY <1>c, NoCRAssumption DEF CRs
  <2> QED
    BY <1>5, <2>1, <2>2, <2>3 DEF User, EditSpec, Annotate, DeleteCR, DeleteObject, UserWrites
<1>6. CASE Cluster
  BY <1>6 DEF Cluster, CRCacheSync, ListSync, CollectGarbage, FinishDeletion
<1> QED
  BY <1>1, <1>2, <1>3, <1>4, <1>5, <1>6 DEF Next, Operator

-----------------------------------------------------------------------------
(* The copies of the CR                                                    *)

\* Two copies agree on what the user decides, and on the finalizer.
Agree(a, b) == /\ a.spec = b.spec /\ a.wait = b.wait
               /\ a.deleting = b.deleting /\ a.finalizer = b.finalizer

\* Reconcile's places in a reconciliation of a CR that is not being deleted.
CreationPCs == PCs \ (DeletionPCs \cup {"idle", "reportFailure"})

\* Recording conditions changes only the status.
LEMMA StatusKeepsCopy ==
    ASSUME o \in CRs, NEW d, NEW set, NEW clear
    PROVE  Agree(WithStatus(d, set, clear), o)
  BY DEF WithStatus, CRs, CRStatus, Agree

\* A step of Reconcile that neither reads nor writes the CR.
LEMMA LocalStep ==
    ASSUME TypeInv, CopyInv, pc # "idle", pc' \in PCs \ {"idle"}, UNCHANGED <<crVars, current>>,
           Agree(o', o),
           pc' \in DeletionPCs => pc \in DeletionPCs,
           pc' \in CreationPCs => pc \in CreationPCs
    PROVE  CopyInv'
  BY DEF TypeInv, LocalsInv, CopyInv, crVars, Agree, CreationPCs

LEMMA ReportStep ==
    ASSUME TypeInv, CopyInv, pc # "idle", NEW cond, ReportFailure(cond), UNCHANGED <<crVars, current>>
    PROVE  CopyInv'
<1>1. Agree(o', o)
  BY CopyType, StatusKeepsCopy DEF ReportFailure
<1> QED
  BY <1>1, LocalStep DEF ReportFailure, Goto, PCs, DeletionPCs, CreationPCs

LEMMA ReturnStep ==
    ASSUME TypeInv, CopyInv, Return, UNCHANGED crVars
    PROVE  CopyInv'
  BY DEF CopyInv, Return, crVars, DeletionPCs

\* A successful write of a copy that agrees with Reconcile's.
LEMMA WriteStep ==
    ASSUME TypeInv, CopyInv, current, NEW new \in CRs, WriteCR(new),
           Agree(new, o) \/ (Agree([new EXCEPT !.finalizer = o.finalizer], o) /\ new.finalizer)
    PROVE  /\ cacheCurrent' => crCache' = cr'
           /\ cr' = new /\ cr' # NoCR
           /\ crCache' # NoCR => /\ crCache'.finalizer => cr'.finalizer
                                 /\ crCache'.deleting => cr'.deleting
  BY NoCRAssumption DEF TypeInv, CRType, CopyInv, WriteCR, Agree, CRs

\* The steps of a reconciliation up to the removal of the finalizer.
LEMMA CopyOperator ==
    ASSUME TypeInv, CopyInv, Operator
    PROVE  CopyInv'
<1> USE DEF Goto, PCs, DeletionPCs, CreationPCs
<1>a. pc # "idle" => o \in CRs /\ Agree(o, o)
  BY CopyType DEF Agree
<1>1. CASE StartReconcile
  BY <1>1 DEF StartReconcile, TypeInv, CRType, CRs, CopyInv, crVars
<1>2. CASE SyncPrune
  BY <1>2, <1>a, LocalStep DEF SyncPrune, locals
<1>3. CASE SyncLoad
  <2>0. o \in CRs /\ pc = "load" /\ UNCHANGED <<crVars, current>>
    BY <1>3, <1>a DEF SyncLoad
  <2>1. CASE ReportFailure("Irreconcilable")
    BY <2>0, <2>1, ReportStep
  <2>2. CASE /\ o' = [o EXCEPT !.status.conds = @ \ {"Irreconcilable"}]
             /\ pc' \in {"install", "ensureFinalizer", "upgrade", "reconcileRelease"}
    <3>1. Agree(o', o)
      BY <2>0, <2>2 DEF Agree, CRs, CRStatus
    <3> QED
      BY <2>0, <2>2, <3>1, LocalStep
  <2> QED
    BY <1>3, <2>1, <2>2 DEF SyncLoad
<1>4. CASE Install
  <2>1. CASE InstallCreate
    BY <2>1, <1>a, LocalStep DEF InstallCreate
  <2>2. CASE InstallNameInUse
    BY <2>2, ReportStep DEF InstallNameInUse
  <2>3. CASE InstallAlreadyExists
    BY <2>3, <1>a, LocalStep DEF InstallAlreadyExists, locals
  <2> QED
    BY <1>4, <2>1, <2>2, <2>3 DEF Install
<1>5. CASE Apply
  BY <1>5, <1>a, LocalStep DEF Apply, locals
<1>6. CASE Supersede
  BY <1>6, <1>a, LocalStep DEF Supersede, locals
<1>7. CASE Record
  <2>0. pc = "record" /\ UNCHANGED <<crVars, current>> /\ o \in CRs
    BY <1>7, <1>a DEF Record
  <2>1. CASE ReportFailure("ReleaseFailed")
    BY <2>0, <2>1, ReportStep
  <2>2. CASE UNCHANGED o /\ pc' \in {"addFinalizer", "writeStatus", "rollback"}
    BY <2>0, <2>2, <1>a, LocalStep
  <2> QED
    BY <1>7, <2>0, <2>1, <2>2, TxType DEF Record, AfterRecord
<1>8. CASE UpgradeCreate
  BY <1>8, <1>a, LocalStep DEF UpgradeCreate
<1>9. CASE UpgradeRefused
  BY <1>9, ReportStep DEF UpgradeRefused
<1>10. CASE RollbackCreate
  BY <1>10, <1>a, LocalStep DEF RollbackCreate
<1>11. CASE RollbackRefused
  BY <1>11, ReportStep DEF RollbackRefused
<1>12. CASE ReconcileRelease
  BY <1>12, <1>a, LocalStep DEF ReconcileRelease, locals
<1>13. CASE UninstallNotFound
  <2>0. pc \in {"undo", "uninstall"} /\ UNCHANGED <<crVars, current>> /\ o \in CRs
    BY <1>13, <1>a DEF UninstallNotFound
  <2>1. CASE pc = "undo"
    BY <1>13, <2>1, ReportStep DEF UninstallNotFound
  <2>2. CASE pc = "uninstall"
    <3>1. Agree(o', o)
      BY <1>13, <2>0, <2>2, StatusKeepsCopy DEF UninstallNotFound
    <3> QED
      BY <1>13, <2>0, <2>2, <3>1, LocalStep DEF UninstallNotFound
  <2> QED
    BY <2>0, <2>1, <2>2
<1>14. CASE UninstallObjects
  BY <1>14, <1>a, LocalStep DEF UninstallObjects
<1>15. CASE UninstallPurge
  <2>0. pc \in {"undoPurge", "purge"} /\ UNCHANGED <<crVars, current>> /\ o \in CRs
    BY <1>15, <1>a DEF UninstallPurge
  <2>1. CASE pc = "undoPurge"
    BY <1>15, <2>1, ReportStep DEF UninstallPurge
  <2>2. CASE pc = "purge"
    <3>1. Agree(o', o)
      BY <1>15, <2>0, <2>2, StatusKeepsCopy DEF UninstallPurge
    <3> QED
      BY <1>15, <2>0, <2>2, <3>1, LocalStep DEF UninstallPurge
  <2> QED
    BY <2>0, <2>1, <2>2
<1>16. CASE UninstallPurgeMissing
  BY <1>16, ReportStep DEF UninstallPurgeMissing, PurgeUpTo
<1>17. CASE AddFinalizer
  <2>1. PICK new \in CRs :
            /\ WriteCR(new) /\ current /\ UNCHANGED current /\ o \in CRs
            /\ new.spec = o.spec /\ new.wait = o.wait /\ new.deleting = o.deleting
            /\ new.finalizer /\ o' = [o EXCEPT !.finalizer = TRUE] /\ o' \in CRs
            /\ pc \in {"addFinalizer", "ensureFinalizer"}
            /\ pc' \in {"writeStatus", "upgrade", "reconcileRelease"}
    BY <1>17, Protection
  <2>2. Agree([new EXCEPT !.finalizer = o.finalizer], o) /\ Agree(o', new)
    BY <2>1 DEF Agree, CRs
  <2>3. /\ cacheCurrent' => crCache' = cr'
        /\ cr' = new /\ cr' # NoCR
        /\ crCache' # NoCR => /\ crCache'.finalizer => cr'.finalizer
                              /\ crCache'.deleting => cr'.deleting
    BY <2>1, <2>2, WriteStep
  <2> QED
    BY <2>1, <2>2, <2>3 DEF CopyInv, Agree
<1>18. CASE WriteStatus
  <2> DEFINE new == WithStatus(rel, {"Deployed"}, {"ReleaseFailed", "Irreconcilable"})
  <2>0. pc = "writeStatus" /\ o \in CRs /\ current /\ WriteCR(new) /\ Return
    BY <1>18, <1>a DEF WriteStatus
  <2>1. new \in CRs /\ Agree(new, o)
    BY <2>0, StatusType, StatusKeepsCopy DEF TypeInv, LocalsInv, Conditions
  <2> HIDE DEF new
  <2> QED
    BY <2>0, <2>1, WriteStep DEF CopyInv, Return
<1>19. CASE Conflict
  BY <1>19, ReturnStep DEF Conflict
<1>20. CASE ReportedFailure
  <2>0. o \in CRs /\ Agree(o, o) /\ current /\ WriteCR(o) /\ Return
    BY <1>20, <1>a DEF ReportedFailure
  <2> QED
    BY <2>0, WriteStep DEF CopyInv, Return
<1>21. CASE DeletionStatus
  <2>0. /\ o \in CRs /\ Agree(o, o) /\ current /\ WriteCR(o) /\ o' = o /\ current' = current
        /\ pc = "deletionStatus" /\ pc' \in DeletionPCs \ {"idle"}
    BY <1>21, <1>a DEF DeletionStatus, Written
  <2>1. crCache' = crCache
    BY <2>0 DEF WriteCR
  <2> QED
    BY <2>0, <2>1, WriteStep DEF CopyInv
<1>22. CASE CleanupDone
  BY <1>22, <1>a, LocalStep DEF CleanupDone, locals
<1>23. CASE CleanupAgain
  BY <1>23, ReturnStep DEF CleanupAgain
<1>24. CASE RemoveFinalizer
  <2>0. /\ pc = "removeFinalizer" /\ current /\ o \in CRs
        /\ cr' = NoCR /\ ~current' /\ o' = o /\ pc' = "waitForDeletion"
        /\ cacheCurrent' = (cacheCurrent /\ NoCR = cr) /\ crCache' = crCache
    BY <1>24, <1>a DEF RemoveFinalizer, WriteCR
  <2> QED
    BY <2>0 DEF CopyInv
<1>25. CASE WaitForDeletion
  BY <1>25, ReturnStep DEF WaitForDeletion
<1> QED
  BY <1>1, <1>2, <1>3, <1>4, <1>5, <1>6, <1>7, <1>8, <1>9, <1>10, <1>11, <1>12,
     <1>13, <1>14, <1>15, <1>16, <1>17, <1>18, <1>19, <1>20, <1>21, <1>22, <1>23,
     <1>24, <1>25
  DEF Operator, HelmSteps, CRSteps

\* A failed call or a crash.
LEMMA CopyFailure ==
    ASSUME TypeInv, CopyInv, Failure
    PROVE  CopyInv'
<1> USE DEF Goto, PCs, DeletionPCs, CreationPCs
<1>a. pc # "idle" => o \in CRs /\ Agree(o, o)
  BY CopyType DEF Agree
<1>1. CASE SyncPruneFails
  BY <1>1, ReportStep DEF SyncPruneFails
<1>2. CASE CallFails
  BY <1>2, ReportStep DEF CallFails
<1>3. CASE InstallRenderFails
  BY <1>3, <1>a, LocalStep DEF InstallRenderFails, locals
<1>4. CASE ApplyFails
  <2>0. pc = "apply" /\ UNCHANGED <<crVars, current>>
    BY <1>4 DEF ApplyFails
  <2>1. CASE ReportFailure("ReleaseFailed")
    BY <2>0, <2>1, ReportStep
  <2>2. CASE UNCHANGED o /\ pc' \in {"undo", "rollback"}
    BY <2>0, <2>2, <1>a, LocalStep
  <2> QED
    BY <1>4, <2>0, <2>1, <2>2, TxType DEF ApplyFails
<1>5. CASE SupersedeFails
  BY <1>5, <1>a, LocalStep DEF SupersedeFails, locals
<1>6. CASE RecordFails
  <2>0. pc = "record" /\ UNCHANGED <<crVars, current>>
    BY <1>6 DEF RecordFails
  <2>1. CASE ReportFailure("ReleaseFailed")
    BY <2>0, <2>1, ReportStep
  <2>2. CASE UNCHANGED o /\ pc' \in {"addFinalizer", "writeStatus", "rollback"}
    BY <2>0, <2>2, <1>a, LocalStep
  <2> QED
    BY <1>6, <2>0, <2>1, <2>2, TxType DEF RecordFails, AfterRecord
<1>7. CASE WriteFails
  BY <1>7, ReturnStep DEF WriteFails
<1>8. CASE ReconcileReleaseFails
  <2>1. o \in CRs /\ pc = "reconcileRelease"
    BY <1>8, <1>a DEF ReconcileReleaseFails
  <2>2. Agree(o', o)
    BY <1>8, <2>1, StatusKeepsCopy DEF ReconcileReleaseFails
  <2> QED
    BY <1>8, <2>1, <2>2, LocalStep DEF ReconcileReleaseFails
<1>9. CASE UninstallObjectsFails
  BY <1>9, ReportStep DEF UninstallObjectsFails
<1>10. CASE UninstallPurgeFails
  BY <1>10, ReportStep DEF UninstallPurgeFails, PurgeUpTo
<1>11. CASE CleanupFails
  BY <1>11, ReportStep DEF CleanupFails
<1>12. CASE WaitForDeletionTimesOut
  BY <1>12, ReturnStep DEF WaitForDeletionTimesOut
<1>13. CASE Crash
  BY <1>13, ReturnStep DEF Crash
<1>14. CASE UpgradeBuildFails
  BY <1>14, <1>a, LocalStep DEF UpgradeBuildFails, locals
<1> QED
  BY <1>1, <1>2, <1>3, <1>4, <1>5, <1>6, <1>7, <1>8, <1>9, <1>10, <1>11, <1>12, <1>13, <1>14
  DEF Failure

\* The user and the cluster.
LEMMA CopyEnvironment ==
    ASSUME TypeInv, CopyInv, User \/ Cluster
    PROVE  CopyInv'
<1>a. ASSUME UNCHANGED <<crVars, pc, locals>> PROVE CopyInv'
  BY <1>a DEF CopyInv, crVars, locals
<1>u. ASSUME NEW new \in CRs, UserWrites(new), new.finalizer = cr.finalizer,
             cr.deleting => new.deleting
      PROVE  CopyInv'
  BY <1>u, NoCRAssumption DEF CopyInv, UserWrites
<1>c. cr # NoCR => cr \in CRs
  BY DEF TypeInv, CRType
<1>1. CASE EditSpec
  <2>1. PICK v \in Values : UserWrites([cr EXCEPT !.spec = v])
    BY <1>1 DEF EditSpec
  <2>2. cr # NoCR
    BY <2>1 DEF UserWrites
  <2> QED
    BY <1>c, <1>u, <2>1, <2>2 DEF CRs
<1>2. CASE Annotate
  <2>1. PICK w \in BOOLEAN : UserWrites([cr EXCEPT !.wait = w])
    BY <1>2 DEF Annotate
  <2>2. cr # NoCR
    BY <2>1 DEF UserWrites
  <2> QED
    BY <1>c, <1>u, <2>1, <2>2 DEF CRs
<1>3. CASE DeleteCR
  <2>1. CASE cr.finalizer
    <3>1. cr # NoCR /\ UserWrites([cr EXCEPT !.deleting = TRUE])
      BY <1>3, <2>1 DEF DeleteCR
    <3> QED
      BY <1>c, <1>u, <3>1 DEF CRs
  <2>2. CASE ~cr.finalizer
    <3>1. cr # NoCR /\ UserWrites(NoCR)
      BY <1>3, <2>2 DEF DeleteCR
    <3> QED
      BY <2>2, <3>1 DEF CopyInv, UserWrites
  <2> QED
    BY <2>1, <2>2
<1>4. ASSUME NEW r \in Resources, DeleteObject(r) \/ FinishDeletion(r) PROVE CopyInv'
  BY <1>4, <1>a DEF DeleteObject, FinishDeletion
<1>5. CASE CRCacheSync
  BY <1>5 DEF CRCacheSync, CopyInv, locals
<1>6. CASE ListSync \/ CollectGarbage
  BY <1>6, <1>a DEF ListSync, CollectGarbage
<1> QED
  BY <1>1, <1>2, <1>3, <1>4, <1>5, <1>6 DEF User, Cluster

LEMMA CopyInvariant == Spec => [](TypeInv /\ CopyInv)
<1>1. Init => TypeInv /\ CopyInv
  BY TypeInit DEF Init, CopyInv, DeletionPCs
<1>2. TypeInv /\ CopyInv /\ [Next]_vars => (TypeInv /\ CopyInv)'
  <2> SUFFICES ASSUME TypeInv, CopyInv, [Next]_vars PROVE TypeInv' /\ CopyInv'
    OBVIOUS
  <2>1. CASE UNCHANGED vars
    BY <2>1, TypeStep DEF vars, crVars, locals, CopyInv
  <2> QED
    BY <2>1, TypeStep, CopyOperator, CopyFailure, CopyEnvironment DEF Next
<1> QED
  BY <1>1, <1>2, PTL DEF Spec

\* The invariant of the copies, for any lag of the informers (reconcile.go).
THEOREM CopiesAgree == Spec => []CopyInv
  BY CopyInvariant, PTL

-----------------------------------------------------------------------------
(* The two action properties                                               *)

\* Only the user writes anything but the finalizer and the status.
LEMMA OperatorWrites ==
    ASSUME TypeInv, CopyInv, Operator, cr # NoCR, cr' # NoCR, cr' # cr
    PROVE  cr' \in CRs /\ cr'.spec = cr.spec /\ cr'.wait = cr.wait /\ cr'.deleting = cr.deleting
<1>0. cr \in CRs /\ (pc # "idle" => o \in CRs)
  BY CopyType DEF TypeInv, CRType
<1>w. ASSUME NEW new \in CRs, current, WriteCR(new), Agree(new, o)
      PROVE  cr' \in CRs /\ cr'.spec = cr.spec /\ cr'.wait = cr.wait /\ cr'.deleting = cr.deleting
  BY <1>w DEF WriteCR, CopyInv, Agree
<1>1. CASE AddFinalizer
  BY <1>1, Protection DEF WriteCR, CopyInv
<1>2. CASE WriteStatus
  <2>1. o \in CRs /\ current /\ pc = "writeStatus"
    BY <1>2, <1>0 DEF WriteStatus
  <2>2. WithStatus(rel, {"Deployed"}, {"ReleaseFailed", "Irreconcilable"}) \in CRs
    BY <2>1, StatusType DEF TypeInv, LocalsInv, Conditions
  <2> QED
    BY <1>2, <1>w, <2>1, <2>2, StatusKeepsCopy DEF WriteStatus
<1>3. CASE ReportedFailure \/ DeletionStatus
  <2>1. o \in CRs /\ current /\ WriteCR(o)
    BY <1>3, <1>0 DEF ReportedFailure, DeletionStatus, Written
  <2> QED
    BY <2>1, <1>w DEF Agree
<1>4. CASE RemoveFinalizer
  BY <1>4 DEF RemoveFinalizer, WriteCR
<1>5. UNCHANGED cr \/ AddFinalizer \/ WriteStatus \/ ReportedFailure \/ DeletionStatus
      \/ RemoveFinalizer
  <2> USE DEF crVars
  <2>1. CASE StartReconcile \/ SyncPrune \/ SyncLoad \/ Install
    BY <2>1 DEF StartReconcile, SyncPrune, SyncLoad, Install, InstallCreate,
                InstallNameInUse, InstallAlreadyExists
  <2>2. CASE HelmSteps
    BY <2>2 DEF HelmSteps, Apply, Supersede, Record, UpgradeCreate, UpgradeRefused,
                RollbackCreate, RollbackRefused, ReconcileRelease, UninstallNotFound,
                UninstallObjects, UninstallPurge, UninstallPurgeMissing, PurgeUpTo
  <2>3. CASE CRSteps
    BY <2>3 DEF CRSteps, Conflict, CleanupDone, CleanupAgain, WaitForDeletion
  <2> QED
    BY <2>1, <2>2, <2>3 DEF Operator
<1> QED
  BY <1>1, <1>2, <1>3, <1>4, <1>5

\* The user's spec, annotation and deletion survive every write of the operator
\* (updateResource and updateResourceStatus of reconcile.go), whatever the age
\* of the copy that is written.
THEOREM UserEditsKept == Spec => NoLostUpdate
<1> DEFINE Kept == cr # NoCR /\ cr' # NoCR /\ changes' = changes
                   => [cr' EXCEPT !.finalizer = TRUE, !.status = cr.status]
                      = [cr EXCEPT !.finalizer = TRUE]
<1>1. TypeInv /\ CopyInv /\ [Next]_vars => Kept
  <2> SUFFICES ASSUME TypeInv, CopyInv, [Next]_vars, cr # NoCR, cr' # NoCR, changes' = changes
               PROVE  [cr' EXCEPT !.finalizer = TRUE, !.status = cr.status]
                      = [cr EXCEPT !.finalizer = TRUE]
    OBVIOUS
  <2>0. cr \in CRs
    BY DEF TypeInv, CRType
  <2>1. cr' = cr \/ (cr' \in CRs /\ cr'.spec = cr.spec /\ cr'.wait = cr.wait
                     /\ cr'.deleting = cr.deleting)
    <3>1. CASE Operator
      BY <3>1, OperatorWrites
    <3>2. CASE Failure
      <4> USE DEF crVars
      <4> QED
        BY <3>2 DEF Failure, SyncPruneFails, CallFails, InstallRenderFails, UpgradeBuildFails, ApplyFails,
           SupersedeFails, RecordFails, WriteFails, ReconcileReleaseFails,
           UninstallObjectsFails, UninstallPurgeFails, PurgeUpTo, CleanupFails,
           WaitForDeletionTimesOut, Crash
    <3>3. CASE User
      <4>1. changes \in Nat
        BY BoundsAssumption DEF TypeInv, BudgetsInv
      <4> QED
        BY <3>3, <4>1 DEF User, EditSpec, Annotate, DeleteCR, DeleteObject, UserWrites
    <3>4. CASE Cluster
      BY <3>4 DEF Cluster, CRCacheSync, ListSync, CollectGarbage, FinishDeletion, crVars
    <3>5. CASE UNCHANGED vars
      BY <3>5 DEF vars, crVars
    <3> QED
      BY <3>1, <3>2, <3>3, <3>4, <3>5 DEF Next
  <2> QED
    BY <2>0, <2>1 DEF CRs
<1>2. Spec => [][Kept]_vars
  BY <1>1, CopyInvariant, PTL DEF Spec
<1> QED
  BY <1>2 DEF NoLostUpdate

\* Objects come into being only while a CR is being created or reconciled.
LEMMA LiveChanges ==
    ASSUME Next, UNCHANGED live => FALSE
    PROVE  pc \in {"apply", "reconcileRelease"} \/ \E r \in Resources : FinishDeletion(r)
<1> USE DEF objVars
<1>1. CASE StartReconcile \/ SyncPrune \/ SyncLoad \/ Install
  BY <1>1 DEF StartReconcile, SyncPrune, SyncLoad, Install, InstallCreate,
              InstallNameInUse, InstallAlreadyExists
<1>2. CASE HelmSteps
  BY <1>2 DEF HelmSteps, Apply, Supersede, Record, UpgradeCreate, UpgradeRefused,
              RollbackCreate, RollbackRefused, ReconcileRelease, UninstallNotFound,
              UninstallObjects, UninstallPurge, UninstallPurgeMissing, PurgeUpTo
<1>3. CASE CRSteps
  BY <1>3 DEF CRSteps, AddFinalizer, WriteStatus, Conflict, ReportedFailure, DeletionStatus,
              CleanupDone, CleanupAgain, RemoveFinalizer, WaitForDeletion
<1>4. CASE Failure
  BY <1>4 DEF Failure, SyncPruneFails, CallFails, InstallRenderFails, UpgradeBuildFails, ApplyFails,
              SupersedeFails, RecordFails, WriteFails, ReconcileReleaseFails,
              UninstallObjectsFails, UninstallPurgeFails, PurgeUpTo, CleanupFails,
              WaitForDeletionTimesOut, Crash
<1>5. CASE User \/ Cluster
  BY <1>5 DEF User, Cluster, EditSpec, Annotate, DeleteCR, DeleteObject, UserWrites,
              CRCacheSync, ListSync, CollectGarbage
<1> QED
  BY <1>1, <1>2, <1>3, <1>4, <1>5 DEF Next, Operator

\* No object comes back after a CR that had the finalizer is gone, for any lag
\* of the informers and any timeout of waitForDeletion (reconcile.go).
THEOREM NothingRecreated == Spec => NotRecreated
<1> DEFINE Safe == cr = NoCR /\ (\E r \in Resources : live[r] = None /\ live'[r] # None)
                   => ~o.finalizer
<1>1. TypeInv /\ CopyInv /\ [Next]_vars => Safe
  <2> SUFFICES ASSUME TypeInv, CopyInv, [Next]_vars, cr = NoCR,
                      NEW r \in Resources, live[r] = None, live'[r] # None
               PROVE  ~o.finalizer
    OBVIOUS
  <2>1. live' # live
    OBVIOUS
  <2>2. ~ \E s \in Resources : FinishDeletion(s)
    BY DEF FinishDeletion, TypeInv, ObjectsInv
  <2>3. pc \in {"apply", "reconcileRelease"}
    BY <2>1, <2>2, LiveChanges DEF vars, objVars
  <2> QED
    BY <2>3 DEF CopyInv, DeletionPCs
<1>2. Spec => [][Safe]_vars
  BY <1>1, CopyInvariant, PTL DEF Spec
<1> QED
  BY <1>2 DEF NotRecreated

-----------------------------------------------------------------------------
(* The wait for the deletion of the objects                                *)

\* What a deletion that got past its status update knows: the copy, as long as
\* it is current, is the CR to the letter, and the objects it reports are gone
\* before the finalizer is.
WaitInv ==
    /\ pc \in {"cleanup", "removeFinalizer"} /\ current => cr = o
    /\ pc = "removeFinalizer" /\ o.wait /\ o.status.deployed # None => Existing(Reported) = {}

LEMMA WaitStep ==
    ASSUME TypeInv, WaitInv, [Next]_vars
    PROVE  WaitInv'
<1>1. CASE pc' \notin {"cleanup", "removeFinalizer"}
  BY <1>1 DEF WaitInv
<1>2. CASE DeletionStatus
  <2>1. /\ pc' \in {"cleanup", "removeFinalizer"} /\ cr' = o /\ o' = o
        /\ pc' = "removeFinalizer" => ~(o.wait /\ o.status.deployed # None)
    BY <1>2 DEF DeletionStatus, Written, WriteCR, Goto
  <2> QED
    BY <2>1 DEF WaitInv
<1>3. CASE CleanupDone
  BY <1>3 DEF CleanupDone, Goto, WaitInv, locals, crVars, objVars, Existing, Reported
<1>4. CASE User /\ pc \in {"cleanup", "removeFinalizer"}
  BY <1>4 DEF User, EditSpec, Annotate, DeleteCR, DeleteObject, UserWrites, WaitInv,
              Existing, Reported, locals, crVars, objVars
<1>5. CASE (CRCacheSync \/ ListSync \/ CollectGarbage) /\ pc \in {"cleanup", "removeFinalizer"}
  BY <1>5 DEF CRCacheSync, ListSync, CollectGarbage, WaitInv, Existing, Reported, locals,
              crVars, objVars
<1>6. ASSUME NEW r \in Resources, FinishDeletion(r) PROVE WaitInv'
  <2>1. \A s \in Resources : live'[s] # None => live[s] # None
    BY <1>6 DEF FinishDeletion, TypeInv, ObjectsInv
  <2>2. UNCHANGED <<cr, pc, o, current>>
    BY <1>6 DEF FinishDeletion, crVars, locals
  <2>3. pc = "removeFinalizer" /\ o.status.deployed # None => Reported \subseteq Resources
    <3> SUFFICES ASSUME pc = "removeFinalizer", o.status.deployed # None
                 PROVE  Reported \subseteq Resources
      OBVIOUS
    <3>1. o.status.deployed \in Values
      BY CopyType
    <3> QED
      BY <3>1, RendersAssumption DEF Reported
  <2>4. Reported' = Reported
    BY <2>2 DEF Reported
  <2> QED
    BY <2>1, <2>2, <2>3, <2>4 DEF WaitInv, Existing
<1>7. CASE UNCHANGED vars
  BY <1>7 DEF vars, crVars, objVars, locals, WaitInv, Existing, Reported
<1>8. CASE Operator /\ pc' \in {"cleanup", "removeFinalizer"}
  <2> USE DEF Goto, Return, ReportFailure, crVars, locals
  <2>1. CASE StartReconcile \/ SyncPrune \/ SyncLoad \/ Install
    BY <1>8, <2>1 DEF StartReconcile, SyncPrune, SyncLoad, Install, InstallCreate,
                InstallNameInUse, InstallAlreadyExists
  <2>2. CASE Record
    BY <1>8, <2>2, TxType DEF Record, AfterRecord
  <2>3. CASE HelmSteps /\ ~Record
    BY <1>8, <2>3 DEF HelmSteps, Apply, Supersede, UpgradeCreate, UpgradeRefused,
                RollbackCreate, RollbackRefused, ReconcileRelease, UninstallNotFound,
                UninstallObjects, UninstallPurge, UninstallPurgeMissing, PurgeUpTo
  <2>4. CASE CRSteps
    BY <1>1, <1>2, <1>3, <1>8, <2>4 DEF CRSteps, AddFinalizer, WriteStatus, Conflict,
       ReportedFailure, CleanupAgain, RemoveFinalizer, WaitForDeletion
  <2> QED
    BY <1>8, <2>1, <2>2, <2>3, <2>4 DEF Operator
<1>9. CASE Failure /\ pc' \in {"cleanup", "removeFinalizer"}
  <2> USE DEF Goto, Return, ReportFailure
  <2>1. CASE ApplyFails
    BY <1>9, <2>1, TxType DEF ApplyFails
  <2>2. CASE RecordFails
    BY <1>9, <2>2, TxType DEF RecordFails, AfterRecord
  <2>3. CASE Failure /\ ~ApplyFails /\ ~RecordFails
    BY <1>9, <2>3 DEF Failure, SyncPruneFails, CallFails, InstallRenderFails, UpgradeBuildFails,
                SupersedeFails, WriteFails, ReconcileReleaseFails,
                UninstallObjectsFails, UninstallPurgeFails, PurgeUpTo, CleanupFails,
                WaitForDeletionTimesOut, Crash
  <2> QED
    BY <1>9, <2>1, <2>2, <2>3
<1>10. pc' \in {"cleanup", "removeFinalizer"} /\ (User \/ CRCacheSync \/ ListSync \/ CollectGarbage)
       => pc \in {"cleanup", "removeFinalizer"}
  BY DEF User, EditSpec, Annotate, DeleteCR, DeleteObject, UserWrites, CRCacheSync, ListSync,
         CollectGarbage
<1> QED
  BY <1>1, <1>4, <1>5, <1>6, <1>7, <1>8, <1>9, <1>10 DEF Next, Cluster

\* With the wait annotation, the CR goes only after every object of the release
\* its status reports is gone, whatever the user edits, the cache shows or
\* fails in between (the deletion branch of Reconcile, CleanupRelease).
THEOREM WaitsForObjects == Spec => WaitHonoured
<1> DEFINE Waited == FinalizerRemoved /\ cr.wait /\ cr.status.deployed # None
                     => Existing(Renders[cr.status.deployed] \ Keep) = {}
<1>1. TypeInv /\ WaitInv /\ [Next]_vars => Waited
  <2> SUFFICES ASSUME TypeInv, WaitInv, [Next]_vars, FinalizerRemoved, cr.wait,
                      cr.status.deployed # None
               PROVE  Existing(Renders[cr.status.deployed] \ Keep) = {}
    OBVIOUS
  <2>1. Next
    BY DEF vars, crVars, FinalizerRemoved
  <2>2. RemoveFinalizer
    BY <2>1, CRGoes DEF FinalizerRemoved
  <2>3. pc = "removeFinalizer" /\ current /\ cr = o
    BY <2>2 DEF RemoveFinalizer, WaitInv
  <2>4. Existing(Reported) = {}
    BY <2>3 DEF WaitInv
  <2> QED
    BY <2>3, <2>4 DEF Reported
<1>2. Init => TypeInv /\ WaitInv
  BY TypeInit DEF Init, WaitInv
<1>3. TypeInv /\ WaitInv /\ [Next]_vars => (TypeInv /\ WaitInv)'
  BY TypeStep, WaitStep
<1>4. Spec => [][Waited]_vars
  BY <1>1, <1>2, <1>3, PTL DEF Spec
<1> QED
  BY <1>4 DEF WaitHonoured

-----------------------------------------------------------------------------
(* What a step does to the storage                                         *)

\* The places at which ReleaseInv promises nothing.
QuietPCs == PCs \ {"load", "install", "apply", "undo", "undoPurge", "uninstall", "purge",
                   "deletionStatus", "cleanup", "removeFinalizer"}

LEMMA QuietStep == ASSUME pc' \in QuietPCs PROVE ReleaseInv'
  BY DEF QuietPCs, ReleaseInv

LEMMA UpToDate == ~StorageLag => Listed = records /\ History = Stored
  BY DEF Listed, History, Stored

LEMMA DeletedRevisions ==
    ASSUME NEW S, records' = Without(S)
    PROVE  Stored' = Stored \ S /\ \A v \in Stored' : records'[v] = records[v]
  BY DEF Without, Stored

LEMMA MarkedRevisions ==
    ASSUME TypeInv, NEW S, NEW s \in ReleaseStatus, records' = Marked(S, s)
    PROVE  /\ Stored' = Stored
           /\ \A v \in Stored : records'[v].status = IF v \in S THEN s ELSE records[v].status
<1>1. \A v \in Stored : [records[v] EXCEPT !.status = s] \in Releases
  BY RestatusType
<1>2. \A v \in Versions : records'[v] = IF v \in S \cap Stored
                                        THEN [records[v] EXCEPT !.status = s]
                                        ELSE records[v]
  BY DEF Marked
<1>3. \A v \in Stored : v \in Versions /\ records[v] \in Releases /\ records[v] # None
  BY DEF Stored, TypeInv, StorageInv
<1>4. Stored' = Stored
  BY <1>1, <1>2, <1>3, NoReleaseAssumption DEF Stored
<1>5. \A v \in Stored : [records[v] EXCEPT !.status = s].status = s
  BY <1>3 DEF Releases
<1> QED
  BY <1>2, <1>3, <1>4, <1>5

LEMMA CreatedRevision ==
    ASSUME TypeInv, NEW v \in Versions, records[v] = None, NEW m \in Values,
           records' = [records EXCEPT ![v] = [status |-> "pending", manifest |-> m]]
    PROVE  /\ Stored' = Stored \cup {v} /\ records'[v].status = "pending"
           /\ \A w \in Stored : records'[w] = records[w]
<1>1. [status |-> "pending", manifest |-> m] \in Releases
  BY DEF Releases, ReleaseStatus
<1> QED
  BY <1>1, NoReleaseAssumption DEF TypeInv, StorageInv, Stored

\* The status a deletion writes is that of a CR being deleted.
LEMMA StatusKeepsDeletion ==
    ASSUME o \in CRs, NEW d, NEW set, NEW clear
    PROVE  WithStatus(d, set, clear).deleting = o.deleting
  BY DEF WithStatus, CRs, CRStatus

-----------------------------------------------------------------------------
(* The invariant                                                           *)

LEMMA ReleaseStep ==
    ASSUME ~StorageLag, TypeInv, ReleaseInv, Operator \/ Failure
    PROVE  ReleaseInv'
<1> USE DEF Goto, QuietPCs, PCs
<1>l. Listed = records /\ History = Stored
  BY UpToDate
<1>a. pc # "idle" => o \in CRs
  BY CopyType
<1>1. CASE StartReconcile
  BY <1>1 DEF StartReconcile, ReleaseInv, QuietPCs
<1>2. CASE SyncPrune
  <2>1. Stored' = Stored \ HistoryIn(ReleaseStatus \ {"deployed"})
        /\ \A v \in Stored' : records'[v] = records[v]
    BY <1>2, DeletedRevisions DEF SyncPrune
  <2>2. \A v \in Stored' : records'[v].status = "deployed"
    <3> SUFFICES ASSUME NEW v \in Stored' PROVE records[v].status = "deployed"
      BY <2>1
    <3>1. v \in Stored /\ v \notin HistoryIn(ReleaseStatus \ {"deployed"})
      BY <2>1
    <3>2. records[v] \in Releases
      BY <3>1 DEF Stored, TypeInv, StorageInv
    <3> QED
      BY <3>1, <3>2, <1>l DEF HistoryIn, Releases
  <2>3. pc' = "load"
    BY <1>2 DEF SyncPrune
  <2> QED
    BY <2>2, <2>3 DEF ReleaseInv
<1>3. CASE SyncLoad
  <2>1. CASE pc' = "install"
    <3>1. HistoryIn({"deployed"}) = {} /\ pc = "load" /\ UNCHANGED records
      BY <1>3, <2>1 DEF SyncLoad, ReportFailure, relVars
    <3>2. Stored = {}
      BY <3>1, <1>l DEF ReleaseInv, HistoryIn
    <3> QED
      BY <2>1, <3>1, <3>2 DEF ReleaseInv, Stored
  <2>2. CASE pc' \in QuietPCs
    BY <2>2, QuietStep
  <2> QED
    BY <1>3, <2>1, <2>2 DEF SyncLoad, ReportFailure
<1>4. CASE InstallCreate
  <2>0. pc = "install" /\ Stored = {} /\ records[1] = None /\ o.spec \in Values
    BY <1>4, CopyType DEF InstallCreate, ReleaseInv
  <2>1. Stored' = {1} /\ records'[1].status = "pending"
    BY <1>4, <2>0, FirstVersion, CreatedRevision DEF InstallCreate
  <2> QED
    BY <1>4, <2>1 DEF InstallCreate, ReleaseInv, NoneDeployed
<1>5. CASE InstallAlreadyExists
  BY <1>5, <1>l, FirstVersion DEF InstallAlreadyExists, ReleaseInv, Stored
<1>6. CASE InstallRenderFails
  BY <1>6 DEF InstallRenderFails, ReleaseInv, NoneDeployed, Stored, relVars, locals
<1>7. CASE ApplyFails
  <2>1. CASE tx.op = "install"
    <3>0. /\ pc = "apply" /\ tx \in Transactions /\ tx.was # "deployed" /\ NoneDeployed
          /\ tx.was \in ReleaseStatus
      BY <1>7, <2>1, TxType DEF ApplyFails, ReleaseInv
    <3>1. \A v \in Stored : records[v] \in Releases /\ v \in Versions
      BY DEF Stored, TypeInv, StorageInv
    <3>2. \A v \in Versions : v \in Stored =>
              \/ records'[v] = [records[v] EXCEPT !.status = "failed"]
              \/ records'[v] = [records[v] EXCEPT !.status = tx.was]
              \/ records'[v] = records[v]
      BY <1>7 DEF ApplyFails
    <3>3. \A v \in Versions : v \notin Stored => records'[v] = None
      BY <1>7 DEF ApplyFails
    <3>4. NoneDeployed'
      <4> SUFFICES ASSUME NEW v \in Stored' PROVE records'[v].status # "deployed"
        BY DEF NoneDeployed
      <4>1. v \in Versions /\ v \in Stored
        BY <3>3 DEF Stored
      <4>2. records[v] \in Releases /\ records[v].status # "deployed"
        BY <3>0, <3>1, <4>1 DEF NoneDeployed
      <4> QED
        BY <3>0, <3>2, <4>1, <4>2 DEF Releases
    <3>5. pc' = "undo" /\ tx' = tx /\ tx # NoTx
      <4>1. tx # NoTx
        BY <3>0, <2>1 DEF NoTx
      <4> QED
        BY <1>7, <2>1, <4>1 DEF ApplyFails
    <3> QED
      BY <3>4, <3>5 DEF ReleaseInv
  <2>2. CASE tx.op # "install"
    <3>1. tx.op \in {"upgrade", "rollback"}
      BY <1>7, <2>2, TxType DEF ApplyFails
    <3> QED
      BY <1>7, <3>1, QuietStep DEF ApplyFails, ReportFailure
  <2> QED
    BY <2>1, <2>2
<1>8. CASE UpgradeCreate
  <2>1. tx'.op = "upgrade" /\ tx'.was = Listed[Replaced].status
    BY <1>8 DEF UpgradeCreate
  <2>2. Listed[Replaced].status # "uninstalling"
    <3>1. /\ History # {} /\ HistoryIn({"deployed"}) \subseteq History
          /\ History \subseteq Versions
          /\ Newest(History) \in HistoryIn({"failed", "superseded"}) \/ HistoryIn({"deployed"}) # {}
      BY <1>8, TypeInvImplies, ListedType DEF UpgradeCreate, UpgradePossible, UpgradePrepared
    <3>2. CASE HistoryIn({"deployed"}) # {}
      <4>1. Newest(HistoryIn({"deployed"})) \in HistoryIn({"deployed"})
        BY <3>1, <3>2, NewestIn
      <4> QED
        BY <3>2, <4>1 DEF Replaced, HistoryIn
    <3>3. CASE HistoryIn({"deployed"}) = {}
      BY <3>1, <3>3 DEF Replaced, HistoryIn
    <3> QED
      BY <3>2, <3>3
  <2> QED
    BY <1>8, <2>1, <2>2 DEF UpgradeCreate, ReleaseInv
<1>9. CASE RollbackCreate
  BY <1>9 DEF RollbackCreate, ReleaseInv
<1>10. CASE UninstallNotFound
  <2>1. CASE pc = "undo"
    BY <1>10, <2>1, QuietStep DEF UninstallNotFound, ReportFailure
  <2>2. CASE pc = "uninstall"
    BY <1>10, <2>2, <1>l DEF UninstallNotFound, ReleaseInv, Stored, relVars
  <2> QED
    BY <1>10, <2>1, <2>2 DEF UninstallNotFound
<1>11. CASE UninstallObjects
  <2>1. "uninstalling" \in ReleaseStatus
    BY DEF ReleaseStatus
  <2>2. /\ Stored' = Stored
        /\ \A v \in Stored : records'[v].status = "uninstalling"
                             \/ records'[v].status = records[v].status
    BY <1>11, <2>1, MarkedRevisions DEF UninstallObjects
  <2>3. CASE pc = "undo"
    <3>1. NoneDeployed' /\ pc' = "undoPurge"
      BY <1>11, <2>2, <2>3 DEF UninstallObjects, ReleaseInv, NoneDeployed
    <3> QED
      BY <3>1 DEF ReleaseInv
  <2>4. CASE pc = "uninstall"
    <3>1. pc' = "purge" /\ purge' = Stored /\ o' = o /\ o.deleting
      BY <1>11, <2>4, <1>l DEF UninstallObjects, ReleaseInv
    <3> QED
      BY <2>2, <3>1 DEF ReleaseInv
  <2> QED
    BY <1>11, <2>3, <2>4 DEF UninstallObjects
<1>12. CASE UninstallPurge
  <2>1. CASE pc = "undoPurge"
    BY <1>12, <2>1, QuietStep DEF UninstallPurge, ReportFailure
  <2>2. CASE pc = "purge"
    <3>1. Stored' = Stored \ purge /\ pc' = "deletionStatus"
      BY <1>12, <2>2, DeletedRevisions DEF UninstallPurge
    <3>2. Stored \subseteq purge
      BY <2>2 DEF ReleaseInv
    <3> QED
      BY <3>1, <3>2 DEF ReleaseInv
  <2> QED
    BY <1>12, <2>1, <2>2 DEF UninstallPurge
<1>13. CASE DeletionStatus \/ CleanupDone
  <2>1. Stored = {} /\ records' = records /\ pc' \in {"cleanup", "removeFinalizer"}
    BY <1>13 DEF DeletionStatus, CleanupDone, ReleaseInv, relVars
  <2> QED
    BY <2>1 DEF ReleaseInv, Stored
<1>14. CASE AddFinalizer \/ WriteStatus \/ Conflict \/ ReportedFailure \/ CleanupAgain
            \/ RemoveFinalizer \/ WaitForDeletion
  BY <1>14, QuietStep DEF AddFinalizer, WriteStatus, Conflict, ReportedFailure, CleanupAgain,
     RemoveFinalizer, WaitForDeletion, Return
<1>15. CASE InstallNameInUse \/ Apply \/ Supersede \/ UpgradeRefused \/ RollbackRefused
            \/ ReconcileRelease \/ UninstallPurgeMissing
  BY <1>15, QuietStep DEF InstallNameInUse, Apply, Supersede, UpgradeRefused,
     RollbackRefused, ReconcileRelease, UninstallPurgeMissing, PurgeUpTo, ReportFailure
<1>16. CASE Record \/ RecordFails
  <2>1. tx.op \in {"install", "upgrade", "rollback"}
    BY <1>16, TxType DEF Record, RecordFails
  <2> QED
    BY <1>16, <2>1, QuietStep DEF Record, RecordFails, AfterRecord, ReportFailure
<1>17. CASE SyncPruneFails \/ CallFails \/ UpgradeBuildFails \/ SupersedeFails \/ WriteFails
            \/ ReconcileReleaseFails \/ UninstallObjectsFails \/ UninstallPurgeFails
            \/ CleanupFails \/ WaitForDeletionTimesOut \/ Crash
  BY <1>17, QuietStep DEF SyncPruneFails, CallFails, UpgradeBuildFails, SupersedeFails, WriteFails,
     ReconcileReleaseFails, UninstallObjectsFails, UninstallPurgeFails, PurgeUpTo,
     CleanupFails, WaitForDeletionTimesOut, Crash, Return, ReportFailure
<1> QED
  BY <1>1, <1>2, <1>3, <1>4, <1>5, <1>6, <1>7, <1>8, <1>9, <1>10, <1>11, <1>12, <1>13,
     <1>14, <1>15, <1>16, <1>17
  DEF Operator, HelmSteps, CRSteps, Install, Failure

LEMMA ReleaseEnvironment ==
    ASSUME TypeInv, ReleaseInv, User \/ Cluster
    PROVE  ReleaseInv'
<1>a. ASSUME UNCHANGED <<records, pc, o, tx, purge>> PROVE ReleaseInv'
  BY <1>a DEF ReleaseInv, NoneDeployed, Stored
<1>1. CASE User
  BY <1>1, <1>a DEF User, EditSpec, Annotate, DeleteCR, DeleteObject, UserWrites, relVars, locals
<1>2. CASE CRCacheSync \/ ListSync \/ \E r \in Resources : FinishDeletion(r)
  BY <1>2, <1>a DEF CRCacheSync, ListSync, FinishDeletion, relVars, locals
<1>3. CASE CollectGarbage
  <2>1. Stored' = {} /\ UNCHANGED <<pc, o, tx, purge>>
    BY <1>3, DeletedRevisions DEF CollectGarbage, locals, Stored
  <2> QED
    BY <2>1 DEF ReleaseInv, NoneDeployed
<1> QED
  BY <1>1, <1>2, <1>3 DEF Cluster

LEMMA ReleaseInvariant == ASSUME ~StorageLag PROVE Spec => [](TypeInv /\ ReleaseInv)
<1>1. Init => TypeInv /\ ReleaseInv
  BY TypeInit DEF Init, ReleaseInv
<1>2. TypeInv /\ ReleaseInv /\ [Next]_vars => (TypeInv /\ ReleaseInv)'
  <2> SUFFICES ASSUME TypeInv, ReleaseInv, [Next]_vars PROVE TypeInv' /\ ReleaseInv'
    OBVIOUS
  <2>1. CASE UNCHANGED vars
    <3>1. UNCHANGED <<records, pc, o, tx, purge>>
      BY <2>1 DEF vars, relVars, locals
    <3>2. ReleaseInv'
      BY <3>1 DEF ReleaseInv, NoneDeployed, Stored
    <3> QED
      BY <3>2, TypeStep
  <2> QED
    BY <2>1, TypeStep, ReleaseStep, ReleaseEnvironment DEF Next
<1> QED
  BY <1>1, <1>2, PTL DEF Spec

\* What each step of Reconcile knows of the storage, when it lists what is there
\* (Sync, InstallRelease and the deletion branch of Reconcile).
THEOREM StorageKnown == ASSUME ~StorageLag PROVE Spec => []ReleaseInv
  BY ReleaseInvariant, PTL

\* With an up-to-date list, the finalizer comes off when no revision is left in
\* storage, through failed uninstalls, half purged histories and crashes (the
\* deletion branch of Reconcile).
THEOREM ReleaseGoesFirst == ASSUME ~StorageLag PROVE Spec => FinalizerOutlastsRelease
<1>1. TypeInv /\ ReleaseInv /\ [Next]_vars => (FinalizerRemoved => Stored = {})
  <2> SUFFICES ASSUME TypeInv, ReleaseInv, [Next]_vars, FinalizerRemoved PROVE Stored = {}
    OBVIOUS
  <2>1. Next
    BY DEF vars, crVars, FinalizerRemoved
  <2>2. RemoveFinalizer
    BY <2>1, CRGoes DEF FinalizerRemoved
  <2> QED
    BY <2>2 DEF RemoveFinalizer, ReleaseInv
<1>2. Spec => [][FinalizerRemoved => Stored = {}]_vars
  BY <1>1, ReleaseInvariant, PTL DEF Spec
<1> QED
  BY <1>2 DEF FinalizerOutlastsRelease

\* What a step does to the revision of a running release.
LEMMA RunningRevision ==
    ASSUME ~StorageLag, TypeInv, ReleaseInv, Next, NEW v \in Stored,
           records[v].status = "deployed",
           IF records'[v] = None THEN TRUE ELSE records'[v].status = "uninstalling"
    PROVE  cr = NoCR \/ o.deleting
<1> USE DEF relVars
<1>0. /\ v \in Versions /\ records[v] # None /\ records[v] \in Releases
      /\ records[v].status # "uninstalling"
  BY DEF Stored, TypeInv, StorageInv
<1>l. Listed = records /\ History = Stored
  BY UpToDate
<1>u. ~ UNCHANGED records
  BY <1>0
<1>m. \A S : \A s \in ReleaseStatus \ {"uninstalling"} : records' # Marked(S, s)
  <2> SUFFICES ASSUME NEW S, NEW s \in ReleaseStatus \ {"uninstalling"}, records' = Marked(S, s)
               PROVE  FALSE
    OBVIOUS
  <2>1. Stored' = Stored /\ records'[v].status # "uninstalling"
    BY <1>0, MarkedRevisions
  <2> QED
    BY <2>1, <1>0 DEF Stored
<1>1. CASE SyncPrune \/ SyncPruneFails
  <2>1. PICK S \in SUBSET HistoryIn(ReleaseStatus \ {"deployed"}) : records' = Without(S)
    BY <1>1 DEF SyncPrune, SyncPruneFails
  <2>2. v \notin S
    BY <2>1, <1>l DEF HistoryIn
  <2> QED
    BY <2>1, <2>2, <1>0 DEF Without
<1>2. CASE InstallCreate \/ UpgradeCreate \/ RollbackCreate
  <2>1. PICK w \in Versions :
            /\ records[w] = None
            /\ \E m : records' = [records EXCEPT ![w] = [status |-> "pending", manifest |-> m]]
    <3>1. CASE InstallCreate
      BY <3>1, FirstVersion DEF InstallCreate
    <3>2. CASE UpgradeCreate
      BY <3>2 DEF UpgradeCreate, UpgradePossible, UpgradePrepared
    <3>3. CASE RollbackCreate
      BY <3>3 DEF RollbackCreate, RollbackPossible
    <3> QED
      BY <1>2, <3>1, <3>2, <3>3
  <2> QED
    BY <2>1, <1>0 DEF TypeInv, StorageInv
<1>3. CASE ApplyFails
  <2>1. tx.was # "uninstalling"
    BY <1>3 DEF ApplyFails, ReleaseInv
  <2>2. \/ records'[v] = [records[v] EXCEPT !.status = "failed"]
        \/ records'[v] = [records[v] EXCEPT !.status = tx.was]
        \/ records'[v] = records[v]
    BY <1>3, <1>0 DEF ApplyFails
  <2>3. tx.was \in ReleaseStatus
    BY <1>3, TxType DEF ApplyFails
  <2>4. [records[v] EXCEPT !.status = "failed"] \in Releases
        /\ [records[v] EXCEPT !.status = tx.was] \in Releases
    BY <2>3, RestatusType DEF ReleaseStatus
  <2> QED
    BY <1>0, <2>1, <2>2, <2>4, NoReleaseAssumption DEF Releases
<1>4. CASE Supersede \/ Record
  BY <1>4, <1>m DEF Supersede, Record, ReleaseStatus
<1>5. CASE UninstallObjects \/ UninstallObjectsFails \/ UninstallPurge \/ UninstallPurgeMissing
           \/ UninstallPurgeFails
  <2>1. pc \in {"uninstall", "undo", "purge", "undoPurge"}
    BY <1>5 DEF UninstallObjects, UninstallObjectsFails, UninstallPurge,
                UninstallPurgeMissing, UninstallPurgeFails
  <2> QED
    BY <2>1 DEF ReleaseInv, NoneDeployed
<1>6. CASE CollectGarbage
  BY <1>6 DEF CollectGarbage
<1>7. ~ (StartReconcile \/ SyncLoad \/ InstallNameInUse \/ InstallAlreadyExists \/ Apply
         \/ UpgradeRefused \/ RollbackRefused \/ ReconcileRelease \/ UninstallNotFound)
  BY <1>u DEF StartReconcile, SyncLoad, InstallNameInUse, InstallAlreadyExists, Apply,
     UpgradeRefused, RollbackRefused, ReconcileRelease, UninstallNotFound
<1>8. ~CRSteps
  BY <1>u DEF CRSteps, AddFinalizer, WriteStatus, Conflict, ReportedFailure, DeletionStatus,
              CleanupDone, CleanupAgain, RemoveFinalizer, WaitForDeletion
<1>9. ~ (CallFails \/ InstallRenderFails \/ UpgradeBuildFails \/ SupersedeFails \/ RecordFails
         \/ WriteFails \/ ReconcileReleaseFails \/ CleanupFails \/ WaitForDeletionTimesOut \/ Crash)
  BY <1>u DEF CallFails, InstallRenderFails, UpgradeBuildFails, SupersedeFails, RecordFails, WriteFails,
     ReconcileReleaseFails, CleanupFails, WaitForDeletionTimesOut, Crash
<1>10. ~User /\ ~CRCacheSync /\ ~ListSync /\ ~ \E r \in Resources : FinishDeletion(r)
  BY <1>u DEF User, EditSpec, Annotate, DeleteCR, DeleteObject, UserWrites, CRCacheSync,
              ListSync, FinishDeletion
<1> QED
  BY <1>1, <1>2, <1>3, <1>4, <1>5, <1>6, <1>7, <1>8, <1>9, <1>10
  DEF Next, Operator, HelmSteps, Install, Failure, Cluster

\* With an up-to-date list, only a reconciliation that saw the CR being deleted
\* deletes a deployed revision or marks it for uninstallation (Sync,
\* InstallRelease and UninstallRelease).
THEOREM RunningReleaseSafe == ASSUME ~StorageLag PROVE Spec => RunningReleaseKept
<1> DEFINE Kept == \A v \in Stored :
                     /\ records[v].status = "deployed"
                     /\ IF records'[v] = None THEN TRUE ELSE records'[v].status = "uninstalling"
                     => cr = NoCR \/ o.deleting
<1>1. TypeInv /\ ReleaseInv /\ [Next]_vars => Kept
  <2> SUFFICES ASSUME TypeInv, ReleaseInv, [Next]_vars, NEW v \in Stored,
                      records[v].status = "deployed",
                      IF records'[v] = None THEN TRUE ELSE records'[v].status = "uninstalling"
               PROVE  cr = NoCR \/ o.deleting
    OBVIOUS
  <2>1. CASE UNCHANGED vars
    BY <2>1 DEF vars, relVars, Stored
  <2> QED
    BY <2>1, RunningRevision
<1>2. Spec => [][Kept]_vars
  BY <1>1, ReleaseInvariant, PTL DEF Spec
<1> QED
  BY <1>2 DEF RunningReleaseKept

-----------------------------------------------------------------------------
(* Objects to be kept                                                      *)

LEMMA KeptStep ==
    ASSUME TypeInv, Next, changes' = changes
    PROVE  Keep \cap terminating' \subseteq terminating
<1> USE DEF objVars
<1>1. CASE UNCHANGED terminating
  BY <1>1
<1>2. CASE Apply
  BY <1>2 DEF Apply, Existing
<1>3. CASE UninstallObjects \/ UninstallObjectsFails
  BY <1>3 DEF UninstallObjects, UninstallObjectsFails, Existing
<1>4. CASE CleanupAgain \/ CleanupFails
  BY <1>4 DEF CleanupAgain, CleanupFails, Existing, Reported
<1>5. CASE CollectGarbage
  BY <1>5, PolicyAssumption DEF CollectGarbage, Garbage, Existing
<1>6. ASSUME NEW r \in Resources, FinishDeletion(r) PROVE Keep \cap terminating' \subseteq terminating
  BY <1>6 DEF FinishDeletion
<1>7. ~User \/ UNCHANGED terminating
  <2>1. changes \in Nat
    BY BoundsAssumption DEF TypeInv, BudgetsInv
  <2> QED
    BY <2>1 DEF User, EditSpec, Annotate, DeleteCR, DeleteObject, UserWrites
<1>8. CASE StartReconcile \/ SyncPrune \/ SyncLoad \/ Install
  BY <1>1, <1>8 DEF StartReconcile, SyncPrune, SyncLoad, Install, InstallCreate,
              InstallNameInUse, InstallAlreadyExists
<1>9. CASE Supersede \/ Record \/ UpgradeCreate \/ UpgradeRefused \/ RollbackCreate
           \/ RollbackRefused \/ ReconcileRelease \/ UninstallNotFound \/ UninstallPurge
           \/ UninstallPurgeMissing
  BY <1>1, <1>9 DEF Supersede, Record, UpgradeCreate, UpgradeRefused,
              RollbackCreate, RollbackRefused, ReconcileRelease, UninstallNotFound,
              UninstallPurge, UninstallPurgeMissing, PurgeUpTo
<1>10. CASE AddFinalizer \/ WriteStatus \/ Conflict \/ ReportedFailure \/ DeletionStatus
            \/ CleanupDone \/ RemoveFinalizer \/ WaitForDeletion
  BY <1>1, <1>10 DEF AddFinalizer, WriteStatus, Conflict, ReportedFailure, DeletionStatus,
              CleanupDone, RemoveFinalizer, WaitForDeletion
<1>11. CASE SyncPruneFails \/ CallFails \/ InstallRenderFails \/ UpgradeBuildFails
            \/ ApplyFails \/ SupersedeFails \/ RecordFails \/ WriteFails \/ ReconcileReleaseFails \/ UninstallPurgeFails
            \/ WaitForDeletionTimesOut \/ Crash
  BY <1>1, <1>11 DEF SyncPruneFails, CallFails, InstallRenderFails, UpgradeBuildFails, ApplyFails,
              SupersedeFails, RecordFails, WriteFails, ReconcileReleaseFails,
              UninstallPurgeFails, PurgeUpTo, WaitForDeletionTimesOut, Crash
<1>12. CASE CRCacheSync \/ ListSync
  BY <1>1, <1>12 DEF CRCacheSync, ListSync
<1> QED
  BY <1>1, <1>2, <1>3, <1>4, <1>5, <1>6, <1>7, <1>8, <1>9, <1>10, <1>11, <1>12
  DEF Next, Operator, HelmSteps, CRSteps, Failure, Cluster

\* No path of the operator, the garbage collector included, deletes an object
\* with the resource policy "keep" (manifestutil.HasResourcePolicyKeep and its
\* callers), for any lag of the informers.
THEOREM KeepHonoured == Spec => KeptObjectsSurvive
<1>1. TypeInv /\ [Next]_vars => (changes' = changes => Keep \cap terminating' \subseteq terminating)
  BY KeptStep DEF vars, objVars
<1>2. Spec => []TypeInv
  BY TypeInit, TypeStep, PTL DEF Spec
<1>3. Spec => [][changes' = changes => Keep \cap terminating' \subseteq terminating]_vars
  BY <1>1, <1>2, PTL DEF Spec
<1> QED
  BY <1>3 DEF KeptObjectsSurvive

-----------------------------------------------------------------------------
(* The abstract specification                                              *)

\* What the mapping needs beyond the invariants of the copies and the storage:
\* a CR that is being deleted has the finalizer; the revision of the Helm action
\* in progress is the newest one and does not run yet, unless everything was
\* collected with the CR; and Reconcile protects a CR only with a revision there.
Begun(v) == v \in Stored /\ records[v].status # "deployed" /\ \A w \in Stored : w <= v
Collected == cr = NoCR /\ Stored = {}
LifecycleInv ==
    /\ cr # NoCR /\ cr.deleting => cr.finalizer
    /\ pc \in {"apply", "supersede", "record"} => Collected \/ Begun(tx.version)
    /\ pc = "apply" /\ tx.was = "deployed" /\ tx.from \in Stored
           => records[tx.from].status = "deployed"
    /\ pc \in {"addFinalizer", "ensureFinalizer"} => cr = NoCR \/ Stored # {}

AllInv == TypeInv /\ CopyInv /\ ReleaseInv /\ LifecycleInv

\* The places at which LifecycleInv promises nothing of the storage.
IdlePCs == PCs \ {"apply", "supersede", "record", "addFinalizer", "ensureFinalizer"}

-----------------------------------------------------------------------------
(* Who writes what                                                         *)

CRWriter == AddFinalizer \/ WriteStatus \/ ReportedFailure \/ DeletionStatus
            \/ RemoveFinalizer \/ EditSpec \/ Annotate \/ DeleteCR

StorageWriter == SyncPrune \/ SyncPruneFails \/ InstallCreate \/ UpgradeCreate
                 \/ RollbackCreate \/ ApplyFails \/ Supersede \/ Record
                 \/ UninstallObjects \/ UninstallObjectsFails \/ UninstallPurge
                 \/ UninstallPurgeMissing \/ UninstallPurgeFails \/ CollectGarbage

\* The CR and the storage are never written in one step.
LEMMA Writers ==
    ASSUME [Next]_vars
    PROVE  \/ CRWriter /\ UNCHANGED records
           \/ StorageWriter /\ UNCHANGED cr
           \/ UNCHANGED <<cr, records>>
<1> USE DEF crVars, relVars, CRWriter, StorageWriter
<1>1. CASE StartReconcile \/ SyncPrune \/ SyncLoad \/ Install
  BY <1>1 DEF StartReconcile, SyncPrune, SyncLoad, Install, InstallCreate,
              InstallNameInUse, InstallAlreadyExists
<1>2. CASE HelmSteps
  BY <1>2 DEF HelmSteps, Apply, Supersede, Record, UpgradeCreate, UpgradeRefused,
              RollbackCreate, RollbackRefused, ReconcileRelease, UninstallNotFound,
              UninstallObjects, UninstallPurge, UninstallPurgeMissing, PurgeUpTo
<1>3. CASE CRSteps
  BY <1>3 DEF CRSteps, AddFinalizer, WriteStatus, ReportedFailure, DeletionStatus,
              RemoveFinalizer, Conflict, CleanupDone, CleanupAgain, WaitForDeletion
<1>4. CASE Failure
  BY <1>4 DEF Failure, SyncPruneFails, CallFails, InstallRenderFails, UpgradeBuildFails, ApplyFails,
              SupersedeFails, RecordFails, WriteFails, ReconcileReleaseFails,
              UninstallObjectsFails, UninstallPurgeFails, PurgeUpTo, CleanupFails,
              WaitForDeletionTimesOut, Crash
<1>5. CASE User
  BY <1>5 DEF User, EditSpec, Annotate, DeleteCR, DeleteObject, UserWrites
<1>6. CASE Cluster
  BY <1>6 DEF Cluster, CRCacheSync, ListSync, CollectGarbage, FinishDeletion
<1>7. CASE UNCHANGED vars
  BY <1>7 DEF vars
<1> QED
  BY <1>1, <1>2, <1>3, <1>4, <1>5, <1>6, <1>7 DEF Next, Operator

-----------------------------------------------------------------------------
(* The CR                                                                  *)

\* A CR that is gone stays gone, and one that stays keeps the finalizer while
\* it is being deleted.
LEMMA DeletionProtected ==
    ASSUME AllInv, [Next]_vars
    PROVE  /\ cr = NoCR => cr' = NoCR
           /\ cr' # NoCR /\ cr'.deleting => cr'.finalizer
<1> USE DEF AllInv
<1>0. /\ cr \in CRs \cup {NoCR} /\ (pc # "idle" => o \in CRs)
      /\ cr # NoCR /\ cr.deleting => cr.finalizer
  BY CopyType DEF TypeInv, CRType, LifecycleInv
<1>w. ASSUME NEW new \in CRs, current, WriteCR(new), new.deleting => new.finalizer
      PROVE  /\ cr = NoCR => cr' = NoCR
             /\ cr' # NoCR /\ cr'.deleting => cr'.finalizer
  BY <1>w DEF WriteCR, CopyInv
<1>c. current => cr # NoCR /\ (o.deleting => o.finalizer)
  BY <1>0 DEF CopyInv
<1>1. CASE UNCHANGED cr
  BY <1>1, <1>0
<1>2. CASE AddFinalizer
  BY <1>2, <1>w, Protection
<1>3. CASE WriteStatus
  <2> DEFINE new == WithStatus(rel, {"Deployed"}, {"ReleaseFailed", "Irreconcilable"})
  <2>1. o \in CRs /\ current /\ WriteCR(new)
    BY <1>3, <1>0 DEF WriteStatus
  <2>2. new \in CRs
    BY <2>1, StatusType DEF TypeInv, LocalsInv, Conditions
  <2>3. new.deleting = o.deleting /\ new.finalizer = o.finalizer
    BY <2>1 DEF WithStatus, CRs
  <2> HIDE DEF new
  <2> QED
    BY <2>1, <2>2, <2>3, <1>w, <1>c
<1>4. CASE ReportedFailure \/ DeletionStatus
  <2>1. o \in CRs /\ current /\ WriteCR(o)
    BY <1>4, <1>0 DEF ReportedFailure, DeletionStatus, Written
  <2> QED
    BY <2>1, <1>w, <1>c
<1>5. CASE RemoveFinalizer
  BY <1>5 DEF RemoveFinalizer, WriteCR
<1>6. CASE EditSpec \/ Annotate \/ DeleteCR
  <2>1. cr \in CRs /\ cr # NoCR
    BY <1>6, <1>0 DEF EditSpec, Annotate, DeleteCR, UserWrites
  <2>2. CASE EditSpec
    <3>1. PICK v \in Values : cr' = [cr EXCEPT !.spec = v]
      BY <2>2 DEF EditSpec, UserWrites
    <3> QED
      BY <3>1, <2>1, <1>0 DEF CRs
  <2>3. CASE Annotate
    <3>1. PICK w \in BOOLEAN : cr' = [cr EXCEPT !.wait = w]
      BY <2>3 DEF Annotate, UserWrites
    <3> QED
      BY <3>1, <2>1, <1>0 DEF CRs
  <2>4. CASE DeleteCR
    BY <2>4, <2>1 DEF DeleteCR, UserWrites, CRs
  <2> QED
    BY <1>6, <2>2, <2>3, <2>4
<1> QED
  BY <1>1, <1>2, <1>3, <1>4, <1>5, <1>6, Writers DEF CRWriter

-----------------------------------------------------------------------------
(* The storage                                                             *)

LEMMA QuietLifecycle ==
    ASSUME AllInv, [Next]_vars, pc' \in IdlePCs
    PROVE  LifecycleInv'
  BY DeletionProtected DEF LifecycleInv, IdlePCs

\* A revision that is begun goes after all those recorded.
LEMMA BeginsRevision ==
    ASSUME AllInv, NEW v \in Versions, records[v] = None, NEW m \in Values,
           records' = [records EXCEPT ![v] = [status |-> "pending", manifest |-> m]],
           \A w \in Stored : w < v
    PROVE  /\ Stored' = Stored \cup {v} /\ v \notin Stored
           /\ records'[v].status = "pending"
           /\ \A w \in Stored : records'[w] = records[w]
           /\ \A w \in Stored' : w <= v
<1>1. /\ Stored' = Stored \cup {v} /\ records'[v].status = "pending"
      /\ \A w \in Stored : records'[w] = records[w]
  BY CreatedRevision DEF AllInv
<1>2. v \in Nat /\ \A w \in Stored : w \in Nat
  BY DEF Versions, Stored
<1> QED
  BY <1>1, <1>2 DEF Stored

\* The revisions that InstallRelease, UpgradeRelease and RollBack begin.
LEMMA ActionBegins ==
    ASSUME ~StorageLag, AllInv, InstallCreate \/ UpgradeCreate \/ RollbackCreate
    PROVE  \E v \in Versions, m \in Values :
              /\ tx'.version = v /\ records[v] = None
              /\ records' = [records EXCEPT ![v] = [status |-> "pending", manifest |-> m]]
              /\ \A w \in Stored : w < v
              /\ tx'.was = "deployed" => /\ tx'.from \in Stored
                                         /\ records[tx'.from].status = "deployed"
<1> USE DEF AllInv
<1>l. Listed = records /\ History = Stored /\ Stored \subseteq Versions
  BY UpToDate DEF Stored
<1>n. Stored # {} => \A w \in Stored : w < Newest(Stored) + 1
  <2> SUFFICES ASSUME NEW w \in Stored PROVE w < Newest(Stored) + 1
    OBVIOUS
  <2>1. Newest(Stored) \in Stored /\ w <= Newest(Stored)
    BY <1>l, NewestIn
  <2>2. \A v \in Versions : v \in Int
    BY DEF Versions
  <2>3. w \in Int /\ Newest(Stored) \in Int
    BY <2>1, <2>2, <1>l
  <2> QED
    BY <2>1, <2>3
<1>1. CASE InstallCreate
  <2>1. pc = "install" /\ Stored = {} /\ o.spec \in Values
    BY <1>1, CopyType DEF InstallCreate, ReleaseInv
  <2> QED
    BY <1>1, <2>1, FirstVersion DEF InstallCreate
<1>2. CASE UpgradeCreate
  <2>1. /\ o.spec \in Values /\ Stored # {} /\ Newest(Stored) + 1 \in Versions
        /\ records[Newest(Stored) + 1] = None
    BY <1>2, <1>l, CopyType DEF UpgradeCreate, UpgradePossible, UpgradePrepared
  <2>2. Replaced \in Stored
    <3>1. HistoryIn({"deployed"}) \subseteq History /\ History # {}
      BY <2>1, <1>l DEF HistoryIn
    <3> QED
      BY <3>1, <1>l, NewestType DEF Replaced
  <2>3. tx'.version = Newest(Stored) + 1 /\ tx'.from = Replaced
        /\ tx'.was = records[Replaced].status
    BY <1>2, <1>l DEF UpgradeCreate
  <2> QED
    BY <1>2, <1>l, <1>n, <2>1, <2>2, <2>3 DEF UpgradeCreate
<1>3. CASE RollbackCreate
  <2> DEFINE last == Newest(Stored)
  <2>1. /\ Stored # {} /\ last + 1 \in Versions /\ records[last + 1] = None
        /\ last - 1 \in Stored
    BY <1>3, <1>l DEF RollbackCreate, RollbackPossible
  <2>2. records[last - 1].manifest \in Values
    BY <2>1 DEF Stored, TypeInv, StorageInv, Releases
  <2>3. tx'.version = last + 1 /\ tx'.was = "superseded"
        /\ records' = [records EXCEPT ![last + 1] =
                           [status |-> "pending", manifest |-> records[last - 1].manifest]]
    BY <1>3, <1>l DEF RollbackCreate
  <2> QED
    BY <1>n, <2>1, <2>2, <2>3
<1> QED
  BY <1>1, <1>2, <1>3

\* The revision of the action in progress outlives a mark on others.
LEMMA StillBegun ==
    ASSUME TypeInv, NEW v, Begun(v), NEW S, records' = Marked(S, "superseded")
    PROVE  /\ Stored' = Stored /\ v \in Stored' /\ records'[v].status # "deployed"
           /\ \A w \in Stored' : w <= v
<1>1. /\ Stored' = Stored
      /\ \A w \in Stored : records'[w].status = IF w \in S THEN "superseded"
                                                ELSE records[w].status
  BY MarkedRevisions DEF ReleaseStatus
<1> QED
  BY <1>1 DEF Begun

-----------------------------------------------------------------------------
(* The invariant                                                           *)

LEMMA LifecycleStep ==
    ASSUME ~StorageLag, AllInv, [Next]_vars
    PROVE  LifecycleInv'
<1> USE DEF AllInv
<1>d. cr' # NoCR /\ cr'.deleting => cr'.finalizer
  BY DeletionProtected
<1>g. cr = NoCR => cr' = NoCR
  BY DeletionProtected
<1>t. pc \in PCs /\ Stored \subseteq Versions
  BY DEF TypeInv, LocalsInv, Stored
\* nothing of the storage or the action in progress changes
<1>s. ASSUME UNCHANGED records, UNCHANGED tx \/ pc' \notin {"apply", "supersede", "record"},
             \/ pc' = pc
             \/ pc = "apply" /\ pc' \in {"supersede", "record"}
             \/ pc = "supersede" /\ pc' = "record"
             \/ pc = "record" /\ pc' = "addFinalizer"
      PROVE  LifecycleInv'
  <2>1. Stored' = Stored
    BY <1>s DEF Stored
  <2>2. Collected => Collected'
    BY <2>1, <1>g DEF Collected
  <2>3. \A v : Begun(v) => Begun(v)' /\ Stored' # {}
    BY <2>1, <1>s DEF Begun
  <2>4. pc' \in {"apply", "supersede", "record"} => (Collected \/ Begun(tx.version))'
    <3> SUFFICES ASSUME pc' \in {"apply", "supersede", "record"}
                 PROVE  (Collected \/ Begun(tx.version))'
      OBVIOUS
    <3>1. pc \in {"apply", "supersede", "record"} /\ tx' = tx
      BY <1>s
    <3>2. Collected \/ Begun(tx.version)
      BY <3>1 DEF LifecycleInv
    <3>3. Begun(tx.version) => Begun(tx.version)'
      BY <3>1, <2>1, <1>s DEF Begun
    <3> QED
      BY <3>2, <3>3, <2>2
  <2>5. pc' = "apply" => pc = "apply" /\ tx' = tx
    BY <1>s
  <2>6. pc' \in {"addFinalizer", "ensureFinalizer"} => cr' = NoCR \/ Stored' # {}
    <3>1. pc = "record" => cr = NoCR \/ Stored # {}
      BY DEF LifecycleInv, Collected, Begun
    <3> QED
      BY <1>s, <1>g, <2>1, <3>1 DEF LifecycleInv
  <2> QED
    BY <1>d, <1>s, <2>1, <2>4, <2>5, <2>6 DEF LifecycleInv
<1>1. CASE InstallCreate \/ UpgradeCreate \/ RollbackCreate
  <2>1. pc' = "apply"
    BY <1>1 DEF InstallCreate, UpgradeCreate, RollbackCreate, Goto
  <2>2. PICK v \in Versions, m \in Values :
              /\ tx'.version = v /\ records[v] = None
              /\ records' = [records EXCEPT ![v] = [status |-> "pending", manifest |-> m]]
              /\ \A w \in Stored : w < v
              /\ tx'.was = "deployed" => /\ tx'.from \in Stored
                                         /\ records[tx'.from].status = "deployed"
    BY <1>1, ActionBegins
  <2>3. /\ Stored' = Stored \cup {v} /\ records'[v].status = "pending"
        /\ \A w \in Stored : records'[w] = records[w]
        /\ \A w \in Stored' : w <= v
    BY <2>2, BeginsRevision
  <2> QED
    BY <1>d, <2>1, <2>2, <2>3 DEF LifecycleInv, Begun
<1>2. CASE Supersede
  <2>1. /\ pc = "supersede" /\ pc' = "record" /\ tx' = tx /\ cr' = cr
        /\ \E S : records' = Marked(S, "superseded")
    BY <1>2 DEF Supersede, Goto, locals, crVars
  <2>2. CASE Collected
    <3>1. Stored' = {}
      BY <2>1, <2>2, MarkedRevisions DEF Collected, ReleaseStatus
    <3> QED
      BY <1>d, <2>1, <2>2, <3>1 DEF LifecycleInv, Collected
  <2>3. CASE Begun(tx.version)
    BY <1>d, <2>1, <2>3, StillBegun DEF LifecycleInv, Begun
  <2> QED
    BY <2>1, <2>2, <2>3 DEF LifecycleInv
<1>3. CASE Record
  <2>1. Stored' = Stored /\ cr' = cr /\ pc = "record"
    BY <1>3, MarkedRevisions DEF Record, ReleaseStatus, crVars
  <2>2. CASE pc' = "addFinalizer"
    BY <1>d, <2>1, <2>2 DEF LifecycleInv, Collected, Begun
  <2>3. CASE pc' \in IdlePCs
    BY <2>3, QuietLifecycle
  <2>4. tx.op \in {"install", "upgrade", "rollback"}
    BY <2>1, TxType
  <2> QED
    BY <1>3, <2>2, <2>3, <2>4 DEF Record, AfterRecord, ReportFailure, Goto, IdlePCs, PCs
<1>4. CASE SyncLoad
  <2>1. CASE pc' = "ensureFinalizer"
    <3>1. HistoryIn({"deployed"}) # {} /\ Stored' = Stored
      BY <1>4, <2>1 DEF SyncLoad, ReportFailure, Goto, relVars, Stored
    <3>2. Stored # {}
      BY <3>1, UpToDate DEF HistoryIn
    <3> QED
      BY <1>d, <2>1, <3>1, <3>2 DEF LifecycleInv
  <2>2. CASE pc' \in IdlePCs
    BY <2>2, QuietLifecycle
  <2> QED
    BY <1>4, <2>1, <2>2 DEF SyncLoad, ReportFailure, Goto, IdlePCs, PCs
<1>5. CASE CollectGarbage
  <2>1. Stored' = {} /\ cr' = NoCR /\ UNCHANGED <<pc, tx>>
    BY <1>5, DeletedRevisions DEF CollectGarbage, crVars, locals, Stored
  <2> QED
    BY <1>d, <2>1 DEF LifecycleInv, Collected
<1>6. CASE Apply \/ SupersedeFails
  BY <1>6, <1>s DEF Apply, SupersedeFails, Goto, relVars, locals
<1>7. CASE RecordFails
  <2>1. CASE pc' = "addFinalizer"
    BY <1>7, <2>1, <1>s DEF RecordFails, relVars
  <2>2. CASE pc' \in IdlePCs
    BY <2>2, QuietLifecycle
  <2>3. tx.op \in {"install", "upgrade", "rollback"}
    BY <1>7, TxType DEF RecordFails
  <2> QED
    BY <1>7, <2>1, <2>2, <2>3 DEF RecordFails, AfterRecord, ReportFailure, Goto, IdlePCs, PCs
<1>8. CASE User \/ CRCacheSync \/ ListSync \/ \E r \in Resources : FinishDeletion(r)
  <2>1. UNCHANGED <<records, pc, tx>>
    BY <1>8, UpToDate DEF User, EditSpec, Annotate, DeleteCR, DeleteObject, UserWrites,
       CRCacheSync, ListSync, FinishDeletion, relVars, locals
  <2> QED
    BY <2>1, <1>s
<1>9. CASE UNCHANGED vars
  BY <1>9, <1>s DEF vars, relVars, locals
<1>10. CASE StartReconcile \/ SyncPrune \/ InstallNameInUse \/ InstallAlreadyExists
            \/ UpgradeRefused \/ RollbackRefused \/ ReconcileRelease \/ UninstallNotFound
            \/ UninstallObjects \/ UninstallPurge \/ UninstallPurgeMissing
  <2>1. pc' \in IdlePCs
    BY <1>10 DEF StartReconcile, SyncPrune, InstallNameInUse, InstallAlreadyExists,
       UpgradeRefused, RollbackRefused, ReconcileRelease, UninstallNotFound,
       UninstallObjects, UninstallPurge, UninstallPurgeMissing, PurgeUpTo, ReportFailure,
       Goto, IdlePCs, PCs
  <2> QED
    BY <2>1, QuietLifecycle
<1>11. CASE CRSteps
  <2>1. pc' \in IdlePCs
    BY <1>11 DEF CRSteps, AddFinalizer, WriteStatus, Conflict, ReportedFailure,
       DeletionStatus, CleanupDone, CleanupAgain, RemoveFinalizer, WaitForDeletion, Return,
       Goto, IdlePCs, PCs
  <2> QED
    BY <2>1, QuietLifecycle
<1>12. CASE SyncPruneFails \/ CallFails \/ InstallRenderFails \/ UpgradeBuildFails
            \/ ApplyFails \/ WriteFails \/ ReconcileReleaseFails \/ UninstallObjectsFails \/ UninstallPurgeFails
            \/ CleanupFails \/ WaitForDeletionTimesOut \/ Crash
  <2>1. pc' \in IdlePCs
    <3>1. CASE ApplyFails
      <4>1. tx.op \in {"install", "upgrade", "rollback"}
        BY <3>1, TxType DEF ApplyFails
      <4> QED
        BY <3>1, <4>1 DEF ApplyFails, ReportFailure, Goto, IdlePCs, PCs
    <3> QED
      BY <1>12, <3>1 DEF SyncPruneFails, CallFails, InstallRenderFails, UpgradeBuildFails, WriteFails,
         ReconcileReleaseFails, UninstallObjectsFails, UninstallPurgeFails, PurgeUpTo,
         CleanupFails, WaitForDeletionTimesOut, Crash, ReportFailure, Return, Goto, IdlePCs,
         PCs
  <2> QED
    BY <2>1, QuietLifecycle
<1> QED
  BY <1>1, <1>2, <1>3, <1>4, <1>5, <1>6, <1>7, <1>8, <1>9, <1>10, <1>11, <1>12
  DEF Next, Operator, HelmSteps, Install, Failure, Cluster
-----------------------------------------------------------------------------
(* The mapping                                                             *)

LEMMA AllInvariant == ASSUME ~StorageLag PROVE Spec => []AllInv
<1>1. Init => LifecycleInv
  <2> SUFFICES ASSUME Init PROVE LifecycleInv
    OBVIOUS
  <2>1. PICK v \in Values, w \in BOOLEAN : cr = Fresh(v, w)
    BY DEF Init
  <2>2. ~cr.deleting /\ pc = "idle"
    BY <2>1 DEF Fresh, Init
  <2> QED
    BY <2>2 DEF LifecycleInv
<1>2. AllInv /\ [Next]_vars => LifecycleInv'
  BY LifecycleStep
<1> QED
  BY <1>1, <1>2, CopyInvariant, ReleaseInvariant, PTL DEF Spec, AllInv

-----------------------------------------------------------------------------
(* What the status reports                                                 *)

\* What Reconcile knows of the release it is about to report, as long as the CR
\* is there: a Helm action's revision is pending with the manifest it applies,
\* which is what the CR's copy asks for unless it rolls back; once applied, the
\* objects have that content; and no failure is reported without its condition.
HasContent(v) == \A r \in Renders[v] : live[r] \in {v, None}
ActionPCs == {"apply", "supersede", "record"}
ReportPCs == ActionPCs \cup {"addFinalizer", "writeStatus", "ensureFinalizer",
                             "reconcileRelease", "reportFailure"}
ReportInv ==
    /\ pc \in ActionPCs /\ cr # NoCR =>
          /\ records[tx.version] = [status |-> "pending", manifest |-> tx.target]
          /\ tx.op \in {"install", "upgrade"} => tx.target = o.spec
          /\ tx.op = "install" => Stored = {1}
          /\ tx.op = "upgrade" => tx.from < tx.version
    /\ pc \in ActionPCs \ {"apply"} /\ cr # NoCR => HasContent(tx.target)
    /\ pc \in {"addFinalizer", "writeStatus"} /\ cr # NoCR => rel = o.spec /\ ReleaseRuns(rel)
    /\ pc \in {"ensureFinalizer", "reconcileRelease"} /\ cr # NoCR =>
          /\ Stored # {} /\ records[Newest(Stored)].manifest = rel
          /\ records[Newest(Stored)].status = "deployed"
    /\ pc = "reconcileRelease" => rel = o.spec
    /\ pc = "reportFailure" =>
          o.status.conds \cap {"ReleaseFailed", "Irreconcilable"} # {}

LEMMA NoReport == ASSUME pc' \notin ReportPCs PROVE ReportInv'
  BY DEF ReportInv, ReportPCs, ActionPCs

\* The only newest revision.
LEMMA NewestIs ==
    ASSUME NEW S, S \subseteq Versions, NEW v \in S, \A w \in S : w <= v
    PROVE  Newest(S) = v
<1>1. Newest(S) \in S /\ v <= Newest(S) /\ Newest(S) <= v
  BY NewestIn
<1>2. \A w \in S : w \in Nat
  BY BoundsAssumption DEF Versions
<1> HIDE DEF Newest
<1> QED
  BY <1>1, <1>2

\* Reconcile goes to report a failure only with the condition set.
LEMMA FailureHasCondition ==
    ASSUME TypeInv, pc # "idle", pc' = "reportFailure",
           (\E cond \in {"ReleaseFailed", "Irreconcilable"} : ReportFailure(cond))
           \/ ReconcileReleaseFails
    PROVE  ReportInv'
<1>1. o \in CRs
  BY CopyType
<1>2. o'.status.conds \cap {"ReleaseFailed", "Irreconcilable"} # {}
  BY <1>1 DEF ReportFailure, ReconcileReleaseFails, WithStatus, CRs
<1> QED
  BY <1>2 DEF ReportInv, ActionPCs

\* What everyone but Reconcile may do to what ReportInv speaks of.
LEMMA ReportEnvironment ==
    ASSUME AllInv, ReportInv, [Next]_vars, UNCHANGED <<pc, o, rel, tx>>,
           cr' = NoCR \/ UNCHANGED records,
           \A r \in Resources : live'[r] \in {live[r], None}
    PROVE  ReportInv'
<1>1. cr = NoCR => cr' = NoCR
  BY DeletionProtected
<1>2. UNCHANGED records => Stored' = Stored
  BY DEF Stored
<1>3. \A v \in Values : Renders[v] \subseteq Resources /\ (HasContent(v) => HasContent(v)')
  <2>1. \A v \in Values : Renders[v] \subseteq Resources
    BY RendersAssumption
  <2> QED
    BY <2>1 DEF HasContent
<1>4. pc \in ActionPCs => tx.target \in Values
  BY TxType DEF ActionPCs, AllInv
<1>5. rel = o.spec /\ pc # "idle" => rel \in Values
  BY CopyType DEF AllInv
<1>6. ASSUME UNCHANGED records, rel \in Values, ReleaseRuns(rel) PROVE ReleaseRuns(rel)'
  BY <1>2, <1>3, <1>6 DEF ReleaseRuns, HasContent
<1> QED
  BY <1>1, <1>2, <1>3, <1>4, <1>5, <1>6 DEF ReportInv, ActionPCs

\* A Helm action begins with a pending revision of what is asked for.
LEMMA ReportBegin ==
    ASSUME ~StorageLag, AllInv, InstallCreate \/ UpgradeCreate \/ RollbackCreate
    PROVE  ReportInv'
<1> USE DEF AllInv
<1>0. pc' = "apply" /\ UNCHANGED o
  BY DEF InstallCreate, UpgradeCreate, RollbackCreate, Goto
<1>1. records'[tx'.version] = [status |-> "pending", manifest |-> tx'.target]
  <2>1. tx'.version \in Versions
        /\ records' = [records EXCEPT ![tx'.version] =
                          [status |-> "pending", manifest |-> tx'.target]]
    BY FirstVersion DEF InstallCreate, UpgradeCreate, RollbackCreate
  <2> QED
    BY <2>1 DEF TypeInv, StorageInv
<1>2. tx'.op \in {"install", "upgrade"} => tx'.target = o.spec
  BY DEF InstallCreate, UpgradeCreate, RollbackCreate
<1>3. tx'.op = "install" => Stored' = {1}
  <2> SUFFICES ASSUME tx'.op = "install" PROVE Stored' = {1}
    OBVIOUS
  <2>1. InstallCreate
    BY DEF UpgradeCreate, RollbackCreate
  <2>2. Stored = {} /\ records[1] = None /\ o.spec \in Values
    BY <2>1, CopyType DEF InstallCreate, ReleaseInv
  <2> QED
    BY <2>1, <2>2, FirstVersion, CreatedRevision DEF InstallCreate
<1>4. tx'.op = "upgrade" => tx'.from < tx'.version
  <2> SUFFICES ASSUME tx'.op = "upgrade" PROVE tx'.from < tx'.version
    OBVIOUS
  <2>1. UpgradeCreate
    BY DEF InstallCreate, RollbackCreate
  <2>2. /\ History # {} /\ HistoryIn({"deployed"}) \subseteq History
        /\ History \subseteq Versions
    BY <2>1, TypeInvImplies, ListedType DEF UpgradeCreate, UpgradePossible, UpgradePrepared
  <2>3. Replaced \in History /\ Replaced <= Newest(History) /\ Newest(History) \in History
    BY <2>2, NewestIn DEF Replaced
  <2>4. tx'.from = Replaced /\ tx'.version = Newest(History) + 1
    BY <2>1 DEF UpgradeCreate
  <2>5. \A v \in History : v \in Nat
    BY <2>2, BoundsAssumption DEF Versions
  <2> QED
    BY <2>3, <2>4, <2>5
<1> QED
  BY <1>0, <1>1, <1>2, <1>3, <1>4 DEF ReportInv, ActionPCs

\* Its revision stays pending while it is the newest.
LEMMA PendingNewest ==
    ASSUME AllInv, ReportInv, pc \in ActionPCs, cr # NoCR
    PROVE  /\ tx.version \in Stored /\ tx.target \in Values /\ Stored \subseteq Versions
           /\ Newest(Stored) = tx.version
           /\ records[tx.version] = [status |-> "pending", manifest |-> tx.target]
           /\ tx.op \in {"install", "upgrade", "rollback"}
<1>1. Begun(tx.version)
  BY DEF AllInv, LifecycleInv, ActionPCs, Collected
<1>2. Stored \subseteq Versions /\ tx.target \in Values
      /\ tx.op \in {"install", "upgrade", "rollback"}
  BY TxType DEF AllInv, ActionPCs, Stored
<1> QED
  BY <1>1, <1>2, NewestIs DEF Begun, ReportInv

LEMMA ReportApply == ASSUME AllInv, ReportInv, Apply PROVE ReportInv'
<1> SUFFICES ASSUME cr # NoCR PROVE ReportInv'
  BY DEF Apply, ReportInv, ActionPCs, Goto, crVars, AllInv
<1>1. pc = "apply" /\ pc' \in {"supersede", "record"} /\ UNCHANGED <<records, tx, o>>
  BY DEF Apply, Goto, relVars, locals
<1>2. tx.target \in Values /\ Stored' = Stored
  BY <1>1, PendingNewest DEF ActionPCs, Stored
<1>3. HasContent(tx.target)'
  <2>1. Renders[tx.target] \subseteq Resources
    BY <1>2, RendersAssumption
  <2> QED
    BY <1>1, <2>1 DEF Apply, AppliedTo, HasContent
<1> QED
  BY <1>1, <1>2, <1>3 DEF ReportInv, ActionPCs

LEMMA ReportSupersede ==
    ASSUME ~StorageLag, AllInv, ReportInv, Supersede \/ SupersedeFails
    PROVE  ReportInv'
<1>0. /\ pc = "supersede" /\ pc' = "record" /\ UNCHANGED <<tx, o, live, cr>>
  BY DEF Supersede, SupersedeFails, Goto, locals, objVars, crVars
<1> SUFFICES ASSUME cr # NoCR PROVE ReportInv'
  BY <1>0 DEF ReportInv, ActionPCs
<1>1. records' = records \/ \E S : records' = Marked(S, "superseded") /\ tx.version \notin S
  <2>1. CASE SupersedeFails
    BY <2>1 DEF SupersedeFails, relVars
  <2>2. CASE Supersede
    <3>1. tx.version \notin HistoryIn({"deployed"})
      BY <1>0, UpToDate, PendingNewest DEF HistoryIn, ActionPCs
    <3>2. tx.op = "upgrade" => tx.version # tx.from
      BY <1>0, PendingNewest DEF ReportInv, ActionPCs, Versions
    <3> QED
      BY <2>2, <3>1, <3>2 DEF Supersede
  <2> QED
    BY <2>1, <2>2
<1>2. records'[tx.version] = records[tx.version] /\ Stored' = Stored
  <2>1. CASE records' = records
    BY <2>1 DEF Stored
  <2>2. CASE records' # records
    <3>1. PICK S : records' = Marked(S, "superseded") /\ tx.version \notin S
      BY <1>1, <2>2
    <3>2. tx.version \in Versions
      BY <1>0, PendingNewest DEF ActionPCs
    <3> QED
      BY <3>1, <3>2, MarkedRevisions DEF Marked, ReleaseStatus, AllInv
  <2> QED
    BY <2>1, <2>2
<1>3. HasContent(tx.target)'
  BY <1>0 DEF ReportInv, HasContent, ActionPCs
<1> QED
  BY <1>0, <1>2, <1>3 DEF ReportInv, ActionPCs

\* A recorded release runs: what is reported is what the copy asks for.
LEMMA ReportRecord ==
    ASSUME AllInv, ReportInv, Record \/ RecordFails
    PROVE  ReportInv'
<1>0. pc = "record" /\ UNCHANGED <<live, cr, tx>>
  BY DEF Record, RecordFails, crVars, objVars
<1>t. tx.op \in {"install", "upgrade", "rollback"}
  BY <1>0, TxType DEF AllInv
<1>f. CASE pc' = "reportFailure"
  BY <1>0, <1>f, <1>t, FailureHasCondition DEF Record, RecordFails, AfterRecord, Goto, AllInv
<1>g. CASE cr = NoCR /\ pc' # "reportFailure"
  <2>1. cr' = NoCR /\ pc' \in {"addFinalizer", "writeStatus", "rollback"}
    BY <1>0, <1>g, <1>t DEF Record, RecordFails, AfterRecord, ReportFailure, Goto
  <2> QED
    BY <2>1 DEF ReportInv, ActionPCs
<1>c. CASE cr # NoCR /\ pc' \in {"addFinalizer", "writeStatus"}
  <2>1. /\ tx.version \in Stored /\ tx.target \in Values /\ Stored \subseteq Versions
        /\ Newest(Stored) = tx.version /\ HasContent(tx.target)
        /\ records[tx.version] = [status |-> "pending", manifest |-> tx.target]
    BY <1>0, <1>c, PendingNewest DEF ReportInv, ActionPCs
  <2>2. /\ tx.op \in {"install", "upgrade"} /\ rel' = tx.target /\ UNCHANGED o
        /\ tx.target = o.spec
    BY <1>0, <1>c, <1>t DEF Record, RecordFails, AfterRecord, ReportFailure, Goto, ReportInv,
       ActionPCs
  <2>3. HasContent(tx.target)'
    BY <1>0, <2>1 DEF HasContent
  <2>4. CASE Record
    <3>1. /\ Stored' = Stored
          /\ records'[tx.version] = [records[tx.version] EXCEPT !.status = "deployed"]
      BY <2>1, <2>4, MarkedRevisions DEF Record, Marked, ReleaseStatus, AllInv
    <3>2. records'[tx.version] = [status |-> "deployed", manifest |-> tx.target]
      BY <2>1, <3>1
    <3> QED
      BY <1>c, <2>1, <2>2, <2>3, <3>1, <3>2, <1>0 DEF ReportInv, ReleaseRuns, HasContent, ActionPCs
  <2>5. CASE RecordFails
    <3>1. UNCHANGED records /\ tx.op = "install" /\ Stored = {1}
      BY <1>0, <1>c, <2>2, <2>5 DEF RecordFails, AfterRecord, Goto, relVars, ReportInv, ActionPCs
    <3>2. Stored' = Stored
      BY <3>1 DEF Stored
    <3> QED
      BY <1>c, <2>1, <2>2, <2>3, <3>1, <3>2, <1>0 DEF ReportInv, ReleaseRuns, HasContent, ActionPCs
  <2> QED
    BY <2>4, <2>5
<1>r. CASE pc' = "rollback"
  BY <1>r DEF ReportInv, ActionPCs
<1>d. pc' \in {"addFinalizer", "writeStatus", "rollback", "reportFailure"}
  BY <1>0, <1>t DEF Record, RecordFails, AfterRecord, ReportFailure, Goto
<1> QED
  BY <1>f, <1>g, <1>c, <1>r, <1>d

\* Sync finds the newest deployed revision, and there is no other.
LEMMA ReportLoad == ASSUME ~StorageLag, AllInv, ReportInv, SyncLoad PROVE ReportInv'
<1> USE DEF AllInv
<1>l. /\ Listed = records /\ History = Stored /\ pc = "load" /\ UNCHANGED records
      /\ o \in CRs
  BY UpToDate, CopyType DEF SyncLoad, relVars
<1>s. Stored \subseteq Versions /\ Stored' = Stored
  BY <1>l DEF Stored
<1>1. CASE pc' = "reportFailure"
  BY <1>l, <1>1, FailureHasCondition DEF SyncLoad, Goto
<1>2. CASE pc' \in {"ensureFinalizer", "reconcileRelease"}
  <2>1. HistoryIn({"deployed"}) = Stored
    BY <1>l DEF ReleaseInv, HistoryIn
  <2>2. Stored # {} /\ rel' = records[Newest(Stored)].manifest /\ pc' # "reportFailure"
    BY <1>l, <1>2, <2>1 DEF SyncLoad, ReportFailure, Goto
  <2>3. records[Newest(Stored)].status = "deployed"
    BY <1>l, <1>s, <2>2, NewestIn DEF ReleaseInv
  <2>4. pc' = "reconcileRelease" => rel' = o.spec
    BY <1>l, <2>2 DEF SyncLoad, ReportFailure, Goto
  <2>5. o'.spec = o.spec
    BY <1>l, <2>2 DEF SyncLoad, ReportFailure, Goto, CRs
  <2> QED
    BY <1>l, <1>s, <1>2, <2>2, <2>3, <2>4, <2>5 DEF ReportInv, ActionPCs
<1>3. CASE pc' \in {"install", "upgrade"}
  BY <1>3 DEF ReportInv, ActionPCs
<1> QED
  BY <1>l, <1>1, <1>2, <1>3 DEF SyncLoad, ReportFailure, Goto

LEMMA ReportProtect == ASSUME AllInv, ReportInv, AddFinalizer PROVE ReportInv'
<1>0. /\ pc \in {"addFinalizer", "ensureFinalizer"} /\ o'.spec = o.spec
      /\ pc' \in {"writeStatus", "upgrade", "reconcileRelease"}
      /\ UNCHANGED <<records, rel, live>> /\ cr # NoCR
      /\ pc = "addFinalizer" => pc' = "writeStatus"
      /\ pc = "ensureFinalizer" => pc' \in {"upgrade", "reconcileRelease"}
      /\ pc' = "reconcileRelease" => rel = o.spec
  BY Protection, NoCRAssumption DEF AddFinalizer, Goto, relVars, objVars, CRs, AllInv
<1>1. Stored' = Stored
  BY <1>0 DEF Stored
<1>2. \A v : ReleaseRuns(v) => ReleaseRuns(v)'
  BY <1>0, <1>1 DEF ReleaseRuns
<1> QED
  BY <1>0, <1>1, <1>2 DEF ReportInv, ActionPCs

LEMMA ReportReconcile == ASSUME AllInv, ReportInv, ReconcileRelease PROVE ReportInv'
<1>0. /\ pc = "reconcileRelease" /\ pc' = "writeStatus" /\ UNCHANGED <<records, rel, o, cr>>
      /\ live' = AppliedTo(Renders[rel], rel) /\ rel \in Values
  BY DEF ReconcileRelease, Goto, relVars, locals, crVars, AllInv, TypeInv, LocalsInv
<1>1. Stored' = Stored /\ HasContent(rel)'
  <2>1. Renders[rel] \subseteq Resources
    BY <1>0, RendersAssumption
  <2> QED
    BY <1>0, <2>1 DEF Stored, HasContent, AppliedTo
<1> QED
  BY <1>0, <1>1 DEF ReportInv, ReleaseRuns, HasContent, ActionPCs

\* The steps that end somewhere else, and those that report a failure.
LEMMA ReportOther ==
    ASSUME AllInv, ReportInv, Operator \/ Failure,
           ~(InstallCreate \/ UpgradeCreate \/ RollbackCreate \/ Apply \/ Supersede
             \/ SupersedeFails \/ Record \/ RecordFails \/ SyncLoad \/ AddFinalizer
             \/ ReconcileRelease)
    PROVE  ReportInv'
<1> USE DEF Goto, ReportPCs, ActionPCs, PCs
<1>1. CASE StartReconcile \/ SyncPrune \/ InstallAlreadyExists \/ InstallRenderFails
           \/ UpgradeBuildFails \/ UninstallObjects
  BY <1>1, NoReport DEF StartReconcile, SyncPrune, InstallAlreadyExists, InstallRenderFails,
     UpgradeBuildFails, UninstallObjects
<1>2. CASE WriteStatus \/ Conflict \/ WriteFails \/ ReportedFailure \/ CleanupAgain
           \/ WaitForDeletion \/ WaitForDeletionTimesOut \/ Crash
  BY <1>2, NoReport DEF WriteStatus, Conflict, WriteFails, ReportedFailure, CleanupAgain,
     WaitForDeletion, WaitForDeletionTimesOut, Crash, Return
<1>3. CASE DeletionStatus \/ CleanupDone \/ RemoveFinalizer
  BY <1>3, NoReport DEF DeletionStatus, CleanupDone, RemoveFinalizer
<1>4. CASE SyncPruneFails \/ CallFails \/ InstallNameInUse \/ UpgradeRefused \/ RollbackRefused
           \/ UninstallObjectsFails \/ UninstallPurgeMissing \/ UninstallPurgeFails
           \/ CleanupFails \/ ReconcileReleaseFails
  <2>1. (\E cond \in {"ReleaseFailed", "Irreconcilable"} : ReportFailure(cond))
        \/ ReconcileReleaseFails
    BY <1>4 DEF SyncPruneFails, CallFails, InstallNameInUse, UpgradeRefused, RollbackRefused,
       UninstallObjectsFails, UninstallPurgeMissing, UninstallPurgeFails, PurgeUpTo,
       CleanupFails
  <2>2. pc # "idle" /\ pc' = "reportFailure"
    BY <1>4, <2>1 DEF SyncPruneFails, CallFails, InstallNameInUse, UpgradeRefused, RollbackRefused,
       UninstallObjectsFails, UninstallPurgeMissing, UninstallPurgeFails,
       CleanupFails, ReconcileReleaseFails, ReportFailure
  <2> QED
    BY <2>1, <2>2, FailureHasCondition DEF AllInv
<1>5. CASE ApplyFails
  <2>1. pc = "apply" /\ tx.op \in {"install", "upgrade", "rollback"}
    BY <1>5, TxType DEF ApplyFails, AllInv
  <2>2. CASE ReportFailure("ReleaseFailed")
    BY <2>1, <2>2, FailureHasCondition DEF AllInv, ReportFailure
  <2>3. CASE pc' \in {"undo", "rollback"}
    BY <2>3, NoReport
  <2> QED
    BY <1>5, <2>1, <2>2, <2>3 DEF ApplyFails
<1>6. CASE UninstallNotFound \/ UninstallPurge
  <2>1. CASE ReportFailure("ReleaseFailed") /\ pc # "idle"
    BY <2>1, FailureHasCondition DEF AllInv, ReportFailure
  <2>2. CASE pc' = "deletionStatus"
    BY <2>2, NoReport
  <2> QED
    BY <1>6, <2>1, <2>2 DEF UninstallNotFound, UninstallPurge
<1> QED
  BY <1>1, <1>2, <1>3, <1>4, <1>5, <1>6
  DEF Operator, Install, HelmSteps, CRSteps, Failure

LEMMA ReportStepKept ==
    ASSUME ~StorageLag, AllInv, ReportInv, [Next]_vars
    PROVE  ReportInv'
<1>1. CASE Operator \/ Failure
  BY <1>1, ReportBegin, ReportApply, ReportSupersede, ReportRecord, ReportLoad, ReportProtect,
     ReportReconcile, ReportOther
<1>2. CASE User
  <2>1. UNCHANGED <<pc, o, rel, tx, records, live>>
    BY <1>2 DEF User, EditSpec, Annotate, DeleteCR, DeleteObject, UserWrites, relVars, objVars,
       locals
  <2> QED
    BY <2>1, ReportEnvironment
<1>3. CASE CRCacheSync \/ ListSync
  <2>1. UNCHANGED <<pc, o, rel, tx, records, live>>
    BY <1>3 DEF CRCacheSync, ListSync, relVars, objVars, locals
  <2> QED
    BY <2>1, ReportEnvironment
<1>4. CASE CollectGarbage
  <2>1. UNCHANGED <<pc, o, rel, tx, live>> /\ cr' = NoCR
    BY <1>4 DEF CollectGarbage, crVars, locals
  <2> QED
    BY <2>1, ReportEnvironment
<1>5. CASE \E r \in Resources : FinishDeletion(r)
  <2>1. UNCHANGED <<pc, o, rel, tx, records>> /\ \A r \in Resources : live'[r] \in {live[r], None}
    BY <1>5 DEF FinishDeletion, relVars, locals, AllInv, TypeInv, ObjectsInv
  <2> QED
    BY <2>1, ReportEnvironment
<1>6. CASE UNCHANGED vars
  <2>1. UNCHANGED <<pc, o, rel, tx, records, live>>
    BY <1>6 DEF vars, relVars, objVars, locals
  <2> QED
    BY <2>1, ReportEnvironment
<1> QED
  BY <1>1, <1>2, <1>3, <1>4, <1>5, <1>6 DEF Next, Cluster

LEMMA ReportInvariant == ASSUME ~StorageLag PROVE Spec => [](AllInv /\ ReportInv)
<1>1. Init => ReportInv
  BY DEF Init, ReportInv, ActionPCs
<1>2. AllInv /\ ReportInv /\ [Next]_vars => ReportInv'
  BY ReportStepKept
<1> QED
  BY <1>1, <1>2, AllInvariant, PTL DEF Spec

\* With an up-to-date list, a status that newly reports the CR as deployed tells
\* the truth: the newest revision runs what the CR asks for, and the objects have
\* its content (Reconcile, InstallRelease, UpgradeRelease, ReconcileRelease).
THEOREM StatusTellsTruth == ASSUME ~StorageLag PROVE Spec => StatusTruthful
<1> DEFINE Truth == SaysDeployed(cr') /\ cr # NoCR /\ cr'.status # cr.status
                    => cr'.status.deployed = cr'.spec /\ ReleaseRuns(cr'.spec)
<1>1. AllInv /\ ReportInv /\ [Next]_vars => Truth
  <2> SUFFICES ASSUME AllInv, ReportInv, [Next]_vars,
                      SaysDeployed(cr'), cr # NoCR, cr'.status # cr.status
               PROVE  cr'.status.deployed = cr'.spec /\ ReleaseRuns(cr'.spec)
    OBVIOUS
  <2>0. CRWriter /\ cr \in CRs /\ (pc # "idle" => o \in CRs)
    BY Writers, CopyType DEF AllInv, TypeInv, CRType
  <2>1. CASE WriteStatus
    <3>1. /\ pc = "writeStatus" /\ o \in CRs
          /\ cr' = WithStatus(rel, {"Deployed"}, {"ReleaseFailed", "Irreconcilable"})
      BY <2>0, <2>1 DEF WriteStatus, WriteCR
    <3>2. rel = o.spec /\ ReleaseRuns(rel)
      BY <3>1 DEF ReportInv
    <3>3. cr'.spec = o.spec /\ cr'.status.deployed = rel
      BY <3>1 DEF WithStatus, CRs, CRStatus
    <3> QED
      BY <3>2, <3>3
  <2>2. CASE ReportedFailure
    <3>1. cr' = o /\ pc = "reportFailure"
      BY <2>2 DEF ReportedFailure, WriteCR
    <3> QED
      BY <3>1 DEF SaysDeployed, ReportInv
  <2>3. CASE AddFinalizer
    BY <2>3, Protection DEF AllInv, WriteCR
  <2>4. CASE DeletionStatus
    <3>1. cr' = o /\ pc = "deletionStatus"
      BY <2>4 DEF DeletionStatus, Written, WriteCR
    <3> QED
      BY <3>1 DEF AllInv, CopyInv, DeletionPCs, SaysDeployed
  <2>5. CASE RemoveFinalizer \/ EditSpec \/ Annotate \/ DeleteCR
    BY <2>0, <2>5 DEF RemoveFinalizer, WriteCR, EditSpec, Annotate, DeleteCR, UserWrites,
       SaysDeployed, CRs
  <2> QED
    BY <2>0, <2>1, <2>2, <2>3, <2>4, <2>5 DEF CRWriter
<1>2. Spec => [][Truth]_vars
  BY <1>1, ReportInvariant, PTL DEF Spec
<1> QED
  BY <1>2 DEF StatusTruthful

-----------------------------------------------------------------------------
(* The steps of the abstract specification                                 *)

\* The part of the state the abstract specification sees.
LEMMA SameStorage ==
    ASSUME UNCHANGED records PROVE Stored' = Stored /\ Running' = Running
  BY DEF Stored, Running

LEMMA RunningStored == Running \subseteq Stored /\ Stored \subseteq Versions
  BY DEF Running, Stored

\* A write of the CR protects it, deletes it or lets it go, or the user sees no
\* difference.
LEMMA CRWriterMaps ==
    ASSUME AllInv, [Next]_vars, CRWriter, UNCHANGED records
    PROVE  Lifecycle!Next \/ UNCHANGED <<Phase, Stored, Running>>
<1> USE DEF AllInv
<1>s. Stored' = Stored /\ Running' = Running
  BY SameStorage
<1>0. /\ cr \in CRs \cup {NoCR} /\ (pc # "idle" => o \in CRs)
      /\ cr # NoCR /\ cr.deleting => cr.finalizer
  BY CopyType DEF TypeInv, CRType, LifecycleInv
<1>c. current => cr # NoCR /\ o.deleting = cr.deleting /\ o.finalizer = cr.finalizer
  BY DEF CopyInv
<1>w. ASSUME NEW new \in CRs, current, WriteCR(new),
             new.deleting = o.deleting, new.finalizer = o.finalizer
      PROVE  UNCHANGED Phase
  BY <1>w, <1>c, NoCRAssumption DEF WriteCR, Phase
<1>1. CASE AddFinalizer
  <2>1. cr # NoCR /\ Stored # {}
    BY <1>1, <1>c, Protection DEF LifecycleInv
  <2>3. cr' # NoCR /\ cr'.finalizer /\ cr'.deleting = cr.deleting
    BY <1>1, <1>c, Protection, NoCRAssumption DEF WriteCR
  <2>4. CASE cr.finalizer
    BY <2>1, <2>3, <2>4, <1>s DEF Phase
  <2>5. CASE ~cr.finalizer
    <3>1. Phase = "free" /\ Phase' = "protected"
      BY <2>1, <2>3, <2>5, <1>0 DEF Phase
    <3> QED
      BY <3>1, <2>1, <1>s DEF Lifecycle!Next, Lifecycle!Protect
  <2> QED
    BY <2>4, <2>5
<1>2. CASE WriteStatus
  <2> DEFINE new == WithStatus(rel, {"Deployed"}, {"ReleaseFailed", "Irreconcilable"})
  <2>1. o \in CRs /\ current /\ WriteCR(new)
    BY <1>2, <1>0 DEF WriteStatus
  <2>2. new \in CRs
    BY <2>1, StatusType DEF TypeInv, LocalsInv, Conditions
  <2>3. new.deleting = o.deleting /\ new.finalizer = o.finalizer
    BY <2>1 DEF WithStatus, CRs
  <2> HIDE DEF new
  <2> QED
    BY <2>1, <2>2, <2>3, <1>w, <1>s
<1>3. CASE ReportedFailure \/ DeletionStatus
  <2>1. o \in CRs /\ current /\ WriteCR(o)
    BY <1>3, <1>0 DEF ReportedFailure, DeletionStatus, Written
  <2> QED
    BY <2>1, <1>w, <1>s
<1>4. CASE RemoveFinalizer
  <2>1. /\ cr # NoCR /\ cr' = NoCR /\ Stored = {}
        /\ cr.deleting
    BY <1>4, <1>c DEF RemoveFinalizer, WriteCR, ReleaseInv, CopyInv, DeletionPCs
  <2>2. Phase = "deleting" /\ Phase' = "gone"
    BY <2>1, <1>0 DEF Phase
  <2> QED
    BY <2>1, <2>2, <1>s DEF Lifecycle!Next, Lifecycle!LetGo
<1>5. CASE EditSpec \/ Annotate
  <2>1. cr \in CRs /\ cr # NoCR
    BY <1>5, <1>0 DEF EditSpec, Annotate, UserWrites
  <2>2. cr' \in CRs /\ cr'.finalizer = cr.finalizer /\ cr'.deleting = cr.deleting
    <3>1. CASE EditSpec
      <4>1. PICK v \in Values : cr' = [cr EXCEPT !.spec = v]
        BY <3>1 DEF EditSpec, UserWrites
      <4> QED
        BY <4>1, <2>1 DEF CRs
    <3>2. CASE Annotate
      <4>1. PICK w \in BOOLEAN : cr' = [cr EXCEPT !.wait = w]
        BY <3>2 DEF Annotate, UserWrites
      <4> QED
        BY <4>1, <2>1 DEF CRs
    <3> QED
      BY <1>5, <3>1, <3>2
  <2> QED
    BY <2>1, <2>2, <1>s, NoCRAssumption DEF Phase
<1>6. CASE DeleteCR
  <2>1. cr \in CRs /\ cr # NoCR
    BY <1>6, <1>0 DEF DeleteCR, UserWrites
  <2>2. CASE ~cr.finalizer
    <3>1. Phase = "free" /\ Phase' = "gone"
      BY <1>6, <2>1, <2>2 DEF DeleteCR, UserWrites, Phase
    <3> QED
      BY <3>1, <1>s DEF Lifecycle!Next, Lifecycle!Delete
  <2>3. CASE cr.finalizer
    <3>1. cr' = [cr EXCEPT !.deleting = TRUE] /\ cr' # cr
      BY <1>6, <2>3 DEF DeleteCR, UserWrites
    <3>2. cr' \in CRs /\ cr'.deleting /\ cr'.finalizer /\ cr' # NoCR
      BY <3>1, <2>1, <2>3, NoCRAssumption DEF CRs
    <3>3. ~cr.deleting
      BY <3>1, <2>1 DEF CRs
    <3>4. Phase = "protected" /\ Phase' = "deleting"
      BY <2>1, <2>3, <3>2, <3>3 DEF Phase
    <3> QED
      BY <3>4, <1>s DEF Lifecycle!Next, Lifecycle!Delete
  <2> QED
    BY <2>2, <2>3
<1> QED
  BY <1>1, <1>2, <1>3, <1>4, <1>5, <1>6 DEF CRWriter

\* Dropping revisions that do not run, or any once the CR is being deleted.
LEMMA DropMaps ==
    ASSUME TypeInv, NEW S, records' = Without(S), UNCHANGED cr,
           S \cap Running = {} \/ Phase \in {"deleting", "gone"}
    PROVE  Lifecycle!Next
<1>1. Stored' = Stored \ S /\ \A v \in Stored' : records'[v] = records[v]
  BY DeletedRevisions
<1>2. Running' = Running \ S
  BY <1>1 DEF Running
<1>3. Phase' = Phase
  BY DEF Phase
<1>4. Running \subseteq Stored
  BY RunningStored
<1> QED
  BY <1>1, <1>2, <1>3, <1>4 DEF Lifecycle!Next, Lifecycle!Prune, Lifecycle!Uninstall

\* A deletion that is under way is seen by the user.
LEMMA DeletionSeen ==
    ASSUME AllInv, pc \in DeletionPCs
    PROVE  Phase \in {"deleting", "gone"}
  BY DEF AllInv, CopyInv, LifecycleInv, Phase

\* Revisions stop running once a newer one was begun.
LEMMA BegunSupersedes ==
    ASSUME NEW v, Collected \/ Begun(v), UNCHANGED <<Phase, Stored>>,
           Running' \in SUBSET Running
    PROVE  Lifecycle!Next \/ UNCHANGED <<Phase, Stored, Running>>
<1>1. Running \subseteq Stored /\ \A w \in Stored : w \in Int
  BY RunningStored DEF Versions
<1>2. CASE Collected
  BY <1>1, <1>2 DEF Collected
<1>3. CASE Begun(v)
  <2>1. v \in Stored \ Running /\ \A w \in Running : w < v
    BY <1>1, <1>3 DEF Begun, Running
  <2> QED
    BY <2>1 DEF Lifecycle!Next, Lifecycle!Supersede
<1> QED
  BY <1>2, <1>3

\* A write of the storage begins, deploys, supersedes or drops revisions, or
\* the user sees no difference.
LEMMA StorageWriterMaps ==
    ASSUME ~StorageLag, AllInv, StorageWriter, UNCHANGED cr
    PROVE  Lifecycle!Next \/ UNCHANGED <<Phase, Stored, Running>>
<1> USE DEF AllInv
<1>p. Phase' = Phase
  BY DEF Phase
<1>r. Running \subseteq Stored /\ Stored \subseteq Versions /\ Versions \subseteq Nat
  BY RunningStored DEF Versions
<1>l. Listed = records /\ History = Stored
  BY UpToDate
<1>1. CASE SyncPrune \/ SyncPruneFails
  <2>1. PICK S \in SUBSET HistoryIn(ReleaseStatus \ {"deployed"}) : records' = Without(S)
    BY <1>1 DEF SyncPrune, SyncPruneFails
  <2>2. S \cap Running = {}
    BY <1>l DEF HistoryIn, Running
  <2> QED
    BY <2>1, <2>2, DropMaps
<1>2. CASE InstallCreate \/ UpgradeCreate \/ RollbackCreate
  <2>2. PICK v \in Versions, m \in Values :
              /\ records[v] = None
              /\ records' = [records EXCEPT ![v] = [status |-> "pending", manifest |-> m]]
              /\ \A w \in Stored : w < v
    BY <1>2, ActionBegins
  <2>3. /\ Stored' = Stored \cup {v} /\ records'[v].status = "pending" /\ v \notin Stored
        /\ \A w \in Stored : records'[w] = records[w]
    BY <2>2, BeginsRevision
  <2>4. Running' = Running
    BY <2>3 DEF Running
  <2> QED
    BY <1>p, <2>2, <2>3, <2>4 DEF Lifecycle!Next, Lifecycle!Begin
<1>3. CASE ApplyFails
  <2>1. /\ pc = "apply" /\ (Collected \/ Begun(tx.version))
        /\ (tx.was = "deployed" /\ tx.from \in Stored => records[tx.from].status = "deployed")
    BY <1>3 DEF ApplyFails, LifecycleInv
  <2>2. \A v \in Versions : v \notin Stored => records'[v] = None
    BY <1>3 DEF ApplyFails
  <2>3. \A v \in Stored : \/ records'[v] = [records[v] EXCEPT !.status = "failed"]
                          \/ v = tx.from /\ records'[v] = [records[v] EXCEPT !.status = tx.was]
                          \/ records'[v] = records[v]
    BY <1>3, <1>r DEF ApplyFails
  <2>4. tx.was \in ReleaseStatus
    BY <2>1, TxType
  <2>5. \A v \in Stored : /\ records[v] \in Releases
                          /\ [records[v] EXCEPT !.status = "failed"] \in Releases
                          /\ [records[v] EXCEPT !.status = tx.was] \in Releases
    BY <2>4, RestatusType DEF ReleaseStatus, TypeInv, StorageInv, Stored
  <2>6. Stored' = Stored
    <3>1. \A v \in Stored : records'[v] # None
      BY <2>3, <2>5, NoReleaseAssumption
    <3>2. QED
      BY <1>r, <2>2, <3>1 DEF Stored
  <2>7. Running' \in SUBSET Running
    <3> SUFFICES ASSUME NEW v \in Stored, records'[v].status = "deployed"
                 PROVE  records[v].status = "deployed"
      BY <2>6 DEF Running
    <3> QED
      BY <2>1, <2>3, <2>5 DEF Releases
  <2> QED
    BY <1>p, <1>r, <2>1, <2>6, <2>7, BegunSupersedes
<1>4. CASE Supersede
  <2>1. PICK S : records' = Marked(S, "superseded")
    BY <1>4 DEF Supersede
  <2>2. /\ Stored' = Stored
        /\ \A v \in Stored : records'[v].status = IF v \in S THEN "superseded"
                                                  ELSE records[v].status
    BY <2>1, MarkedRevisions DEF ReleaseStatus
  <2>3. Running' \in SUBSET Running
    BY <2>2 DEF Running
  <2>4. Collected \/ Begun(tx.version)
    BY <1>4 DEF Supersede, LifecycleInv
  <2> QED
    BY <1>p, <2>2, <2>3, <2>4, BegunSupersedes
<1>5. CASE Record
  <2>1. /\ Stored' = Stored
        /\ \A v \in Stored : records'[v].status = IF v \in {tx.version} THEN "deployed"
                                                  ELSE records[v].status
    BY <1>5, MarkedRevisions DEF Record, ReleaseStatus
  <2>2. Collected \/ Begun(tx.version)
    BY <1>5 DEF Record, LifecycleInv
  <2>3. CASE Collected
    <3>1. Running' = {} /\ Running = {}
      BY <2>1, <2>3 DEF Running, Collected
    <3> QED
      BY <1>p, <2>1, <3>1
  <2>4. CASE Begun(tx.version)
    <3>1. Running' = Running \cup {tx.version}
      BY <2>1, <2>4 DEF Running, Begun
    <3> QED
      BY <1>p, <1>r, <2>1, <2>4, <3>1 DEF Begun, Lifecycle!Next, Lifecycle!Deploy
  <2> QED
    BY <2>2, <2>3, <2>4
<1>6. CASE UninstallObjects \/ UninstallObjectsFails
  <2>1. /\ pc \in {"uninstall", "undo"}
        /\ \E S : records' = Marked(S, "uninstalling")
    BY <1>6 DEF UninstallObjects, UninstallObjectsFails
  <2>2. Stored' = Stored /\ Running' \in SUBSET Running
    <3>1. PICK S : records' = Marked(S, "uninstalling")
      BY <2>1
    <3>2. /\ Stored' = Stored
          /\ \A v \in Stored : records'[v].status = IF v \in S THEN "uninstalling"
                                                    ELSE records[v].status
      BY <3>1, MarkedRevisions DEF ReleaseStatus
    <3> QED
      BY <3>2 DEF Running
  <2>3. CASE pc = "undo"
    <3>1. Running = {}
      BY <2>3 DEF ReleaseInv, NoneDeployed, Running
    <3> QED
      BY <1>p, <2>2, <3>1
  <2>4. CASE pc = "uninstall"
    <3>1. Phase \in {"deleting", "gone"}
      BY <2>4, DeletionSeen DEF DeletionPCs
    <3> QED
      BY <1>p, <1>r, <2>2, <3>1 DEF Lifecycle!Next, Lifecycle!Uninstall
  <2> QED
    BY <2>1, <2>3, <2>4
<1>7. CASE UninstallPurge \/ UninstallPurgeMissing \/ UninstallPurgeFails
  <2>1. PICK S : records' = Without(S)
    BY <1>7 DEF UninstallPurge, UninstallPurgeMissing, UninstallPurgeFails, PurgeUpTo
  <2>2. pc \in {"purge", "undoPurge"}
    BY <1>7 DEF UninstallPurge, UninstallPurgeMissing, UninstallPurgeFails
  <2>3. pc = "undoPurge" => Running = {}
    BY DEF ReleaseInv, NoneDeployed, Running
  <2>4. pc = "purge" => Phase \in {"deleting", "gone"}
    BY DeletionSeen DEF DeletionPCs
  <2> QED
    BY <2>1, <2>2, <2>3, <2>4, DropMaps
<1>8. CASE CollectGarbage
  <2>1. Phase = "gone"
    BY <1>8 DEF CollectGarbage, Phase
  <2> QED
    BY <1>8, <2>1, DropMaps DEF CollectGarbage
<1> QED
  BY <1>1, <1>2, <1>3, <1>4, <1>5, <1>6, <1>7, <1>8 DEF StorageWriter

\* With an up-to-date list, the reconcile loop and the release manager implement
\* ReleaseLifecycle: through failures, crashes, conflicts and the user's edits, a
\* CR is protected only with a release recorded and let go only with none, each
\* revision is begun after the last, stops running only for a newer one, and
\* only a deletion takes down what runs (reconcile.go, manager.go).
THEOREM ImplementsLifecycle == ASSUME ~StorageLag PROVE Spec => LifecycleKept
<1>1. Init => Lifecycle!Init
  <2> SUFFICES ASSUME Init PROVE Lifecycle!Init
    OBVIOUS
  <2>1. PICK v \in Values, w \in BOOLEAN : cr = Fresh(v, w)
    BY DEF Init
  <2>2. v \in Values /\ Fresh(v, w) \in CRs
    BY DEF Fresh, CRs, CRStatus, Conditions
  <2>3. Phase = "free"
    BY <2>1, <2>2, NoCRAssumption DEF Phase, Fresh
  <2>4. Stored = {} /\ Running = {}
    BY DEF Init, Stored, Running
  <2> QED
    BY <2>3, <2>4 DEF Lifecycle!Init
<1>2. AllInv /\ [Next]_vars => [Lifecycle!Next]_(Lifecycle!vars)
  <2> SUFFICES ASSUME AllInv, [Next]_vars
               PROVE  Lifecycle!Next \/ UNCHANGED <<Phase, Stored, Running>>
    BY DEF Lifecycle!vars
  <2>1. CASE CRWriter /\ UNCHANGED records
    BY <2>1, CRWriterMaps
  <2>2. CASE StorageWriter /\ UNCHANGED cr
    BY <2>2, StorageWriterMaps
  <2>3. CASE UNCHANGED <<cr, records>>
    BY <2>3, SameStorage DEF Phase
  <2> QED
    BY <2>1, <2>2, <2>3, Writers
<1> QED
  BY <1>1, <1>2, AllInvariant, PTL DEF Spec, LifecycleKept, Lifecycle!Spec
=============================================================================
