-------------------------- MODULE OperatorUninstall -------------------------
(***************************************************************************)
(* `operator-sdk cleanup': internal/olm/operator/uninstall.go's Run, of a  *)
(* package that `run bundle' installed, or began to install, in this       *)
(* namespace.  The command may fail at any call or time out, and may then  *)
(* be run again.  Meanwhile OLM resolves the subscription and executes an  *)
(* approved install plan, the operator handles the finalizers of custom    *)
(* resources while its CSV is there, and another package may be installed  *)
(* in the namespace.                                                       *)
(***************************************************************************)
EXTENDS Naturals, FiniteSets

CONSTANTS
    CRDs,           \* the CRDs in the CSV's requirement status
    Owned,          \* those that belong to the package's operator
    DeleteAll,      \* the flag --delete-all
    OtherInstalls,  \* may another package be installed meanwhile?
    Timeouts,       \* may the command's timeout expire?
    MaxFaults,      \* bound: failed calls
    MaxRuns,        \* bound: runs of the command
    None            \* no object

ASSUME CRDsAssumption == Owned \subseteq CRDs
ASSUME FlagsAssumption ==
    DeleteAll \in BOOLEAN /\ OtherInstalls \in BOOLEAN /\ Timeouts \in BOOLEAN
ASSUME BoundsAssumption == MaxFaults \in Nat /\ MaxRuns \in Nat \ {0}
ASSUME NamesAssumption ==
    /\ CRDs \cap {"sub", "csv", "catalog", None} = {}
    /\ None \notin {"sub", "csv", "catalog", "ok", "notFound", "error"}

VARIABLES
    pc,          \* where Run stands
    subFound,    \* was the package's subscription listed?
    csvObj,      \* csvObj: nil, the CSV found, or the empty one
    csFound,     \* was the catalog source found?
    objs,        \* the objects to be deleted and awaited
    deleted,     \* those that are done
    waiting,     \* the one it waits for
    result,      \* what the command says
    runs,        \* runs of the command so far
    expired,     \* is this run's timeout over?
    faults,      \* failed calls so far
    state,       \* each object: present, terminating or absent
    status,      \* how far the subscription's status has come
    plan,        \* the install plan
    checked,     \* has OLM filled in the CSV's requirement status?
    finalizers,  \* the CRDs with custom resources that have finalizers
    group,       \* does the operator group of operator-sdk exist?
    other        \* how far another package's installation has come

found == <<subFound, csvObj, csFound>>
command == <<pc, found, objs, deleted, waiting, result, runs>>
world == <<state, status, plan, checked, finalizers, group, other>>
vars == <<command, expired, faults, world>>

Objects == {"sub", "csv", "catalog"} \cup CRDs

CommandOK ==
    /\ pc \in {"list", "csv", "catalog", "unsubscribe", "delete", "await",
               "groups", "deleteGroup", "done"}
    /\ subFound \in BOOLEAN /\ csvObj \in {"nil", "found", "empty"} /\ csFound \in BOOLEAN
    /\ objs \subseteq Objects \ {"sub"} /\ deleted \subseteq objs
    /\ waiting \in (objs \ deleted) \cup {None} /\ (waiting # None <=> pc = "await")
    /\ result \in {None, "ok", "notFound", "error"}
    /\ runs \in 1 .. MaxRuns /\ expired \in BOOLEAN /\ faults \in 0 .. MaxFaults

WorldOK ==
    /\ state \in [Objects -> {"present", "terminating", "absent"}]
    /\ status \in {"new", "pending", "installed"}
    /\ plan \in {"none", "approved", "executed"}
    /\ checked \in BOOLEAN /\ finalizers \subseteq CRDs /\ group \in BOOLEAN
    /\ other \in {"none", "ensured", "subscribed"}

TypeOK == CommandOK /\ WorldOK

\* How far an earlier `run bundle' came: the catalog source, the operator group
\* and the subscription, OLM's resolution, the approval, the installation.
Init ==
    /\ pc = "list" /\ subFound = FALSE /\ csvObj = "nil" /\ csFound = FALSE
    /\ objs = {} /\ deleted = {} /\ waiting = None /\ result = None
    /\ runs = 1 /\ expired = FALSE /\ faults = 0
    /\ other \in {"none", "subscribed"}
    /\ \E n \in 0 .. 5 :
          /\ state = [o \in Objects |->
                IF \/ o = "catalog" /\ n >= 1
                   \/ o = "sub" /\ n >= 2
                   \/ o \in Owned \cup {"csv"} /\ n = 5
                   \/ o \in CRDs \ Owned
                THEN "present" ELSE "absent"]
          /\ status = IF n <= 2 THEN "new" ELSE IF n <= 4 THEN "pending" ELSE "installed"
          /\ plan = IF n <= 3 THEN "none" ELSE IF n = 4 THEN "approved" ELSE "executed"
          /\ checked = (n = 5)
          /\ finalizers \in SUBSET {c \in CRDs : n = 5 \/ c \notin Owned}
          /\ group = (n >= 2 \/ other = "subscribed")

----------------------------------------------------------------------------
(* Run                                                                     *)

ListSubscriptions ==
    /\ pc = "list" /\ ~expired
    /\ subFound' = (state["sub"] # "absent")
    /\ pc' = IF subFound' /\ status # "new" THEN "csv" ELSE "catalog"
    /\ UNCHANGED <<csvObj, csFound, objs, deleted, waiting, result, runs, expired, faults, world>>

\* The CSV named by the subscription's status, and the CRDs in its own.
GetCSV ==
    /\ pc = "csv" /\ ~expired
    /\ csvObj' = IF state["csv"] = "absent" THEN "empty" ELSE "found"
    /\ objs' = IF csvObj' = "found" /\ checked /\ DeleteAll THEN CRDs ELSE {}
    /\ pc' = "catalog"
    /\ UNCHANGED <<subFound, csFound, deleted, waiting, result, runs, expired, faults, world>>

GetCatalogSource ==
    /\ pc = "catalog" /\ ~expired
    /\ csFound' = (state["catalog"] # "absent")
    /\ objs' = objs \cup (IF csvObj # "nil" THEN {"csv"} ELSE {})
                    \cup (IF csFound' THEN {"catalog"} ELSE {})
    /\ pc' = "unsubscribe"
    /\ UNCHANGED <<subFound, csvObj, deleted, waiting, result, runs, expired, faults, world>>

Deleted(o) == [state EXCEPT ![o] = IF @ = "absent" THEN @ ELSE "terminating"]

DeleteSubscription ==
    /\ pc = "unsubscribe" /\ (subFound => ~expired)
    /\ state' = IF subFound THEN Deleted("sub") ELSE state
    /\ pc' = "delete"
    /\ UNCHANGED <<found, objs, deleted, waiting, result, runs, expired, faults, status,
                   plan, checked, finalizers, group, other>>

\* Mutant of Rank: the CSV goes first.
RankCSVFirst(o) == CASE o \in CRDs -> 2 [] o = "csv" -> 1 [] o = "catalog" -> 3

\* The order of the deletions.
Rank(o) == CASE o \in CRDs -> 1 [] o = "csv" -> 2 [] o = "catalog" -> 3

Todo == objs \ deleted
IsNext(o) == o \in Todo /\ \A p \in Todo : Rank(o) <= Rank(p)

Delete ==
    /\ pc = "delete" /\ ~expired
    /\ \E o \in Todo :
          /\ IsNext(o) /\ ~(o = "csv" /\ csvObj = "empty")
          /\ state' = Deleted(o)
          /\ waiting' = o
    /\ pc' = "await"
    /\ UNCHANGED <<found, objs, deleted, result, runs, expired, faults, status, plan,
                   checked, finalizers, group, other>>

\* The empty CSV has no name, which its deletion needs.
DeleteUnnamed ==
    /\ pc = "delete" /\ csvObj = "empty" /\ IsNext("csv")
    /\ result' = "error" /\ pc' = "done"
    /\ UNCHANGED <<found, objs, deleted, waiting, runs, expired, faults, world>>

\* Mutant of AwaitGone: it does not wait.
AwaitNothing ==
    /\ pc = "await" /\ ~expired
    /\ deleted' = deleted \cup {waiting} /\ waiting' = None
    /\ pc' = "delete"
    /\ UNCHANGED <<found, objs, result, runs, expired, faults, world>>

AwaitGone ==
    /\ pc = "await" /\ ~expired /\ state[waiting] = "absent"
    /\ deleted' = deleted \cup {waiting} /\ waiting' = None
    /\ pc' = "delete"
    /\ UNCHANGED <<found, objs, result, runs, expired, faults, world>>

AllDeleted ==
    /\ pc = "delete" /\ Todo = {}
    /\ pc' = "groups"
    /\ UNCHANGED <<found, objs, deleted, waiting, result, runs, expired, faults, world>>

Finish ==
    /\ result' = IF ~subFound /\ ~csFound /\ csvObj = "nil" THEN "notFound" ELSE "ok"
    /\ pc' = "done"

\* Mutant of LastSubscription: it is not looked for other subscriptions.
LastSubscriptionAssumed ==
    /\ pc = "groups" /\ ~expired /\ DeleteAll
    /\ pc' = "deleteGroup"
    /\ UNCHANGED <<found, objs, deleted, waiting, result, runs, expired, faults, world>>

\* deleteOperatorGroup first lists the subscriptions of the namespace.
LastSubscription ==
    /\ pc = "groups" /\ ~expired /\ DeleteAll
    /\ state["sub"] = "absent" /\ other # "subscribed"
    /\ pc' = "deleteGroup"
    /\ UNCHANGED <<found, objs, deleted, waiting, result, runs, expired, faults, world>>

KeepGroup ==
    /\ pc = "groups"
    /\ DeleteAll => ~expired /\ (state["sub"] # "absent" \/ other = "subscribed")
    /\ Finish
    /\ UNCHANGED <<found, objs, deleted, waiting, runs, expired, faults, world>>

DeleteGroup ==
    /\ pc = "deleteGroup" /\ ~expired
    /\ group' = FALSE
    /\ Finish
    /\ UNCHANGED <<found, objs, deleted, waiting, runs, expired, faults, state, status, plan,
                   checked, finalizers, other>>

\* Run makes a call or waits, but where it has nothing to delete.
Calls ==
    /\ pc # "done"
    /\ pc = "unsubscribe" => subFound
    /\ pc = "delete" => Todo # {}
    /\ pc = "groups" => DeleteAll

\* A call fails, or the timeout is over.
Fails ==
    /\ Calls
    /\ \/ expired /\ UNCHANGED faults
       \/ faults < MaxFaults /\ faults' = faults + 1
    /\ result' = "error" /\ pc' = "done" /\ waiting' = None
    /\ UNCHANGED <<found, objs, deleted, runs, expired, world>>

\* The command is run again after an error.
RunAgain ==
    /\ pc = "done" /\ result = "error" /\ runs < MaxRuns
    /\ runs' = runs + 1
    /\ pc' = "list" /\ result' = None /\ expired' = FALSE
    /\ subFound' = FALSE /\ csvObj' = "nil" /\ csFound' = FALSE
    /\ objs' = {} /\ deleted' = {}
    /\ UNCHANGED <<waiting, faults, world>>

----------------------------------------------------------------------------
(* The cluster                                                             *)

Gone(o) ==
    /\ state[o] = "terminating" /\ o \notin finalizers
    /\ state' = [state EXCEPT ![o] = "absent"]
    /\ UNCHANGED <<command, expired, faults, status, plan, checked, finalizers, group, other>>

CreateCR(c) ==
    /\ state[c] = "present" /\ c \notin finalizers
    /\ finalizers' = finalizers \cup {c}
    /\ UNCHANGED <<command, expired, faults, state, status, plan, checked, group, other>>

\* The operator runs while its CSV exists; a required CRD has one of its own.
HandleFinalizer(c) ==
    /\ state[c] = "terminating" /\ c \in finalizers
    /\ c \in Owned => state["csv"] # "absent"
    /\ finalizers' = finalizers \ {c}
    /\ UNCHANGED <<command, expired, faults, state, status, plan, checked, group, other>>

\* OLM resolves the subscription from its catalog: a plan that needs approval.
Resolve ==
    /\ state["sub"] = "present" /\ state["catalog"] = "present" /\ status = "new"
    /\ status' = "pending"
    /\ UNCHANGED <<command, expired, faults, state, plan, checked, finalizers, group, other>>

ExecutePlan ==
    /\ plan = "approved" /\ plan' = "executed"
    /\ state' = [o \in Objects |-> IF o \in Owned \cup {"csv"} THEN "present" ELSE state[o]]
    /\ UNCHANGED <<command, expired, faults, status, checked, finalizers, group, other>>

CheckRequirements ==
    /\ state["csv"] = "present" /\ ~checked
    /\ checked' = TRUE
    /\ UNCHANGED <<command, expired, faults, state, status, plan, finalizers, group, other>>

ReportInstalled ==
    /\ state["sub"] = "present" /\ state["csv"] = "present" /\ status = "pending"
    /\ status' = "installed"
    /\ UNCHANGED <<command, expired, faults, state, plan, checked, finalizers, group, other>>

\* ensureOperatorGroup of another package's `run bundle'.
OtherEnsuresGroup ==
    /\ OtherInstalls /\ other = "none"
    /\ group' = TRUE /\ other' = "ensured"
    /\ UNCHANGED <<command, expired, faults, state, status, plan, checked, finalizers>>

OtherSubscribes ==
    /\ other = "ensured" /\ other' = "subscribed"
    /\ UNCHANGED <<command, expired, faults, state, status, plan, checked, finalizers, group>>

OtherUnsubscribes ==
    /\ other = "subscribed" /\ other' = "none"
    /\ UNCHANGED <<command, expired, faults, state, status, plan, checked, finalizers, group>>

Expire ==
    /\ Timeouts /\ ~expired /\ pc # "done"
    /\ expired' = TRUE
    /\ UNCHANGED <<command, faults, world>>

Proceed ==
    \/ ListSubscriptions \/ GetCSV \/ GetCatalogSource \/ DeleteSubscription
    \/ Delete \/ DeleteUnnamed \/ AwaitGone \/ AllDeleted
    \/ LastSubscription \/ KeepGroup \/ DeleteGroup
OLM == Resolve \/ ExecutePlan \/ CheckRequirements \/ ReportInstalled
Other == OtherEnsuresGroup \/ OtherSubscribes \/ OtherUnsubscribes

Next ==
    \/ Proceed \/ Fails \/ RunAgain \/ Expire \/ OLM \/ Other
    \/ \E o \in Objects : Gone(o)
    \/ \E c \in CRDs : CreateCR(c) \/ HandleFinalizer(c)

Spec == Init /\ [][Next]_vars

\* The command runs, and fails when its timeout is over; the garbage collector
\* and the operators run too.
FairSpec ==
    /\ Spec
    /\ WF_vars(Proceed) /\ WF_vars(expired /\ Fails)
    /\ \A o \in Objects : WF_vars(Gone(o))
    /\ \A c \in CRDs : WF_vars(HandleFinalizer(c))

----------------------------------------------------------------------------
(* Properties                                                              *)

\* A run that reports success has removed what it took to delete and, if it found
\* the subscription, left no CSV, no catalog source, no subscription that is not
\* going and no plan that could still install the CSV, whatever OLM did meanwhile
\* and earlier runs left undone. (CRDs whose requirements OLM had not yet checked
\* are not among what it deletes, and stay.)
CleanedUp ==
    result = "ok" =>
        /\ \A o \in objs : state[o] = "absent"
        /\ subFound =>
              /\ state["csv"] = "absent" /\ state["catalog"] = "absent"
              /\ state["sub"] # "present" /\ plan # "approved"

\* How Run's variables and the cluster hang together, step by step.
AfterCSV == pc \notin {"list", "csv"}
AfterCatalog == pc \notin {"list", "csv", "catalog"}
Through == pc \in {"groups", "deleteGroup"} \/ result = "ok"
OLMInv ==
    /\ state["csv"] # "absent" => plan = "executed"
    /\ status = "new" => plan = "none"
    /\ csvObj = "found" => plan = "executed"
    /\ subFound /\ csvObj = "nil" /\ AfterCSV /\ result # "error" => plan = "none"
ObjsInv ==
    /\ result # None => pc = "done"
    /\ pc \in {"list", "csv"} => csvObj = "nil" /\ objs = {}
    /\ pc = "csv" => subFound
    /\ objs \cap CRDs # {} => csvObj = "found"
    /\ "csv" \in objs => csvObj # "nil"
    /\ csFound /\ result # "error" => "catalog" \in objs
    /\ AfterCatalog /\ csvObj # "nil" /\ result # "error" => "csv" \in objs
DeletedInv ==
    /\ csvObj = "empty" => "csv" \notin deleted \cup {waiting}
    /\ \A o \in deleted : state[o] = "absent"
    /\ AfterCatalog /\ ~csFound /\ result # "error" => state["catalog"] = "absent"
    /\ AfterCatalog /\ pc # "unsubscribe" /\ subFound /\ result # "error" => state["sub"] # "present"
    /\ Through => deleted = objs
CleanupInv == TypeOK /\ OLMInv /\ ObjsInv /\ DeletedInv

\* What the order of the deletions rests on: a CRD only goes in a run that found
\* the CSV with its requirements checked, and every later run that finds the CSV
\* takes all the CRDs again.
Going == \E c \in CRDs : state[c] = "terminating"
OrderInv ==
    /\ pc = "deleteGroup" => state["sub"] = "absent"
    /\ Going => checked /\ DeleteAll
    /\ objs \cap CRDs # {} => checked /\ DeleteAll /\ CRDs \subseteq objs
    /\ Going /\ csvObj = "found" => CRDs \subseteq objs

\* A CRD that is going waits for finalizers only the operator handles.
Unserved(c) == c \in Owned /\ state[c] = "terminating" /\ c \in finalizers

\* The CSV, and the operator with it, is not deleted under custom resources
\* that wait for it, by any run.
OperatorOutlivesCRs ==
    [][state["csv"] = "present" /\ state'["csv"] # "present" => ~\E c \in CRDs : Unserved(c)]_vars

\* The operator group goes last, when the package's own subscription, whose
\* deletion Run does not await, is gone and so is all else that was found.
GroupGoesLast == [][group /\ ~group' => state["sub"] = "absent" /\ deleted = objs]_vars

\* Not satisfied: no package that is subscribed to in the namespace loses its
\* operator group. One may subscribe after the check (uninstall.go:187).
GroupServes == other = "subscribed" => group

\* The first cleanup of an installed package ends, without the help of a
\* timeout, and in success unless a call failed: what it waits for never waits
\* for what it deletes later.  (A later one may find CRDs whose finalizers the
\* operator, deleted by the first, can no longer handle.)
Succeeds ==
    (pc = "list" /\ runs = 1 /\ status = "installed")
    ~> (pc = "done" /\ (result = "ok" \/ expired \/ faults > 0))

\* Not satisfied: a package whose cleanup succeeds, perhaps not at the first
\* attempt, is uninstalled. A second attempt no longer finds the CSV of a
\* subscription that the first deleted (uninstall.go:150).
Uninstalled == result = "ok" => state["csv"] = "absent"

\* Not satisfied: csvObj is not nil only if the CSV was found (the comment at
\* uninstall.go:83-84).
NilUnlessFound == csvObj # "nil" => csvObj = "found"

\* Not satisfied: only CRDs that the package's operator owns are deleted
\* (uninstall.go:241 takes those it requires as well).
OnlyOwnedDeleted == \A c \in CRDs : state[c] = "terminating" => c \in Owned
=============================================================================
