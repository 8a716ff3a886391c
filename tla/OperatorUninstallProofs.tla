----------------------- MODULE OperatorUninstallProofs ----------------------
(***************************************************************************)
(* Proofs about OperatorUninstall, for any CRDs, any number of faults and  *)
(* of runs: CleanupInv is inductive, and a cleanup that reports success    *)
(* has removed what it found.  OrderInv is inductive next to it: the CSV   *)
(* is not deleted under the finalizers of its custom resources, and the    *)
(* operator group goes last.                                               *)
(***************************************************************************)
EXTENDS OperatorUninstall, TLAPS

USE CRDsAssumption, FlagsAssumption, BoundsAssumption, NamesAssumption

LEMMA InitCleanupInv == Init => CleanupInv
<1> SUFFICES ASSUME Init PROVE CleanupInv
  OBVIOUS
<1>1. TypeOK
  <2>1. PICK n \in 0 .. 5 :
          /\ state = [o \in Objects |->
                IF \/ o = "catalog" /\ n >= 1
                   \/ o = "sub" /\ n >= 2
                   \/ o \in Owned \cup {"csv"} /\ n = 5
                   \/ o \in CRDs \ Owned
                THEN "present" ELSE "absent"]
          /\ status = IF n <= 2 THEN "new" ELSE IF n <= 4 THEN "pending" ELSE "installed"
          /\ plan = IF n <= 3 THEN "none" ELSE IF n = 4 THEN "approved" ELSE "executed"
          /\ checked = (n = 5)
          /\ finalizers \in SUBSET {c \in CRDs : n = 5 \/ c \notin Owned}
          /\ group = (n >= 2 \/ other = "subscribed")
    BY DEF Init
  <2>2. state \in [Objects -> {"present", "terminating", "absent"}]
    BY <2>1
  <2>3. checked \in BOOLEAN /\ group \in BOOLEAN
    BY <2>1
  <2>4. finalizers \subseteq CRDs
    BY <2>1
  <2>5. status \in {"new", "pending", "installed"} /\ plan \in {"none", "approved", "executed"}
    BY <2>1
  <2>6. other \in {"none", "ensured", "subscribed"}
    BY DEF Init
  <2>7. CommandOK
    <3>1. objs = {} /\ deleted = {} /\ waiting = None /\ pc = "list" /\ result = None
      BY DEF Init
    <3>2. objs \subseteq Objects \ {"sub"} /\ deleted \subseteq objs
      BY <3>1
    <3>3. waiting \in (objs \ deleted) \cup {None} /\ (waiting # None <=> pc = "await")
      BY <3>1
    <3>4. runs \in 1 .. MaxRuns /\ expired \in BOOLEAN /\ faults \in 0 .. MaxFaults
      <4>1. runs = 1 /\ faults = 0
        BY DEF Init
      <4>2. expired = FALSE
        BY DEF Init
      <4>3. runs \in 1 .. MaxRuns /\ faults \in 0 .. MaxFaults
        BY <4>1
      <4>4. expired \in BOOLEAN
        BY <4>2
      <4>5. QED
        BY <4>3, <4>4
    <3>5. subFound \in BOOLEAN /\ csvObj \in {"nil", "found", "empty"} /\ csFound \in BOOLEAN
      BY DEF Init
    <3>6. QED
      BY <3>1, <3>2, <3>3, <3>4, <3>5 DEF CommandOK
  <2>8. QED
    BY <2>2, <2>3, <2>4, <2>5, <2>6, <2>7 DEF TypeOK, WorldOK
<1>2. OLMInv /\ ObjsInv
  BY DEF Init, Objects, OLMInv, ObjsInv, AfterCSV, AfterCatalog
<1>3. DeletedInv
  BY DEF Init, DeletedInv, AfterCatalog, Through
<1>4. QED
  BY <1>1, <1>2, <1>3 DEF CleanupInv

\* A deletion never brings an object back.
LEMMA DeletedOnly ==
    ASSUME TypeOK, NEW o \in Objects
    PROVE  /\ Deleted(o) \in [Objects -> {"present", "terminating", "absent"}]
           /\ Deleted(o)[o] # "present"
           /\ \A p \in Objects : state[p] = "absent" => Deleted(o)[p] = "absent"
           /\ \A p \in Objects : state[p] # "present" => Deleted(o)[p] # "present"
           /\ \A p \in Objects : Deleted(o)[p] # "absent" => state[p] # "absent"
BY DEF TypeOK, WorldOK, Deleted

\* Every step keeps CleanupInv.
LEMMA ListSubscriptionsStep == CleanupInv /\ ListSubscriptions => CleanupInv'
<1> SUFFICES ASSUME CleanupInv, ListSubscriptions PROVE CleanupInv'
  OBVIOUS
<1>1. CommandOK'
  BY DEF ListSubscriptions, CleanupInv, TypeOK, CommandOK, WorldOK, Objects, world
<1>2. WorldOK'
  BY DEF ListSubscriptions, CleanupInv, TypeOK, CommandOK, WorldOK, Objects, world
<1>3. OLMInv'
  BY DEF ListSubscriptions, CleanupInv, TypeOK, CommandOK, WorldOK, OLMInv, ObjsInv, Objects, AfterCSV, world
<1>4. ObjsInv'
  BY DEF ListSubscriptions, CleanupInv, TypeOK, CommandOK, WorldOK, ObjsInv, Objects, AfterCSV, AfterCatalog, world
<1>5. DeletedInv'
  BY DEF ListSubscriptions, CleanupInv, TypeOK, CommandOK, WorldOK, OLMInv, ObjsInv, DeletedInv, Objects,
         AfterCSV, AfterCatalog, Through, world
<1>6. QED
  BY <1>1, <1>2, <1>3, <1>4, <1>5 DEF CleanupInv, TypeOK

LEMMA GetCSVStep == CleanupInv /\ GetCSV => CleanupInv'
<1> SUFFICES ASSUME CleanupInv, GetCSV PROVE CleanupInv'
  OBVIOUS
<1>1. CommandOK'
  <2>1. objs' \subseteq Objects \ {"sub"}
    BY DEF GetCSV, Objects
  <2>2. deleted' \subseteq objs'
    <3>1. deleted = {}
      BY DEF GetCSV, CleanupInv, TypeOK, CommandOK, ObjsInv
    <3>2. QED
      BY <3>1 DEF GetCSV
  <2>3. waiting' = None /\ pc' = "catalog" /\ result' = result /\ csvObj' \in {"found", "empty"}
    BY DEF GetCSV, CleanupInv, TypeOK, CommandOK
  <2>4. QED
    BY <2>1, <2>2, <2>3 DEF GetCSV, CleanupInv, TypeOK, CommandOK
<1>2. WorldOK'
  BY DEF GetCSV, CleanupInv, TypeOK, CommandOK, WorldOK, Objects, world
<1>3. OLMInv'
  BY DEF GetCSV, CleanupInv, TypeOK, CommandOK, WorldOK, OLMInv, ObjsInv, Objects, AfterCSV, world
<1>4. ObjsInv'
  BY DEF GetCSV, CleanupInv, TypeOK, CommandOK, WorldOK, ObjsInv, Objects, AfterCSV, AfterCatalog, world
<1>5. DeletedInv'
  BY DEF GetCSV, CleanupInv, TypeOK, CommandOK, WorldOK, OLMInv, ObjsInv, DeletedInv, Objects,
         AfterCSV, AfterCatalog, Through, world
<1>6. QED
  BY <1>1, <1>2, <1>3, <1>4, <1>5 DEF CleanupInv, TypeOK

LEMMA GetCatalogSourceStep == CleanupInv /\ GetCatalogSource => CleanupInv'
<1> SUFFICES ASSUME CleanupInv, GetCatalogSource PROVE CleanupInv'
  OBVIOUS
<1>1. CommandOK'
  BY DEF GetCatalogSource, CleanupInv, TypeOK, CommandOK, WorldOK, Objects, world
<1>2. WorldOK'
  BY DEF GetCatalogSource, CleanupInv, TypeOK, CommandOK, WorldOK, Objects, world
<1>3. OLMInv'
  BY DEF GetCatalogSource, CleanupInv, TypeOK, CommandOK, WorldOK, OLMInv, ObjsInv, Objects, AfterCSV, world
<1>4. ObjsInv'
  BY DEF GetCatalogSource, CleanupInv, TypeOK, CommandOK, WorldOK, ObjsInv, Objects, AfterCSV, AfterCatalog, world
<1>5. DeletedInv'
  BY DEF GetCatalogSource, CleanupInv, TypeOK, CommandOK, WorldOK, OLMInv, ObjsInv, DeletedInv, Objects,
         AfterCSV, AfterCatalog, Through, world
<1>6. QED
  BY <1>1, <1>2, <1>3, <1>4, <1>5 DEF CleanupInv, TypeOK

LEMMA DeleteSubscriptionStep == CleanupInv /\ DeleteSubscription => CleanupInv'
<1> SUFFICES ASSUME CleanupInv, DeleteSubscription PROVE CleanupInv'
  OBVIOUS
<1>1. CommandOK'
  BY DeletedOnly DEF DeleteSubscription, CleanupInv, TypeOK, CommandOK, WorldOK, Objects, found
<1>2. WorldOK'
  BY DeletedOnly DEF DeleteSubscription, CleanupInv, TypeOK, CommandOK, WorldOK, Objects, found
<1>3. OLMInv'
  BY DeletedOnly DEF DeleteSubscription, CleanupInv, TypeOK, CommandOK, WorldOK, OLMInv, ObjsInv, Objects, AfterCSV, found
<1>4. ObjsInv'
  BY DeletedOnly DEF DeleteSubscription, CleanupInv, TypeOK, CommandOK, WorldOK, ObjsInv, Objects, AfterCSV, AfterCatalog, found
<1>5. DeletedInv'
  BY DeletedOnly DEF DeleteSubscription, CleanupInv, TypeOK, CommandOK, WorldOK, OLMInv, ObjsInv, DeletedInv, Objects,
         AfterCSV, AfterCatalog, Through, found
<1>6. QED
  BY <1>1, <1>2, <1>3, <1>4, <1>5 DEF CleanupInv, TypeOK

LEMMA DeleteStep == CleanupInv /\ Delete => CleanupInv'
<1> SUFFICES ASSUME CleanupInv, Delete PROVE CleanupInv'
  OBVIOUS
<1>1. PICK o \in objs \ deleted :
        state' = Deleted(o) /\ waiting' = o /\ ~(o = "csv" /\ csvObj = "empty")
  BY DEF Delete, Todo, IsNext
<1>2. o \in Objects
  BY <1>1 DEF CleanupInv, TypeOK, CommandOK
<1>3. CommandOK'
  BY <1>1, <1>2 DEF Delete, CleanupInv, TypeOK, CommandOK, Objects, found
<1>4. WorldOK'
  BY <1>1, <1>2, DeletedOnly DEF Delete, CleanupInv, TypeOK, WorldOK
<1>5. OLMInv'
  BY <1>1, <1>2, DeletedOnly DEF Delete, CleanupInv, OLMInv, Objects, AfterCSV, found
<1>6. ObjsInv'
  BY DEF Delete, CleanupInv, ObjsInv, AfterCSV, AfterCatalog, found
<1>7. DeletedInv'
  BY <1>1, <1>2, DeletedOnly
     DEF Delete, CleanupInv, TypeOK, CommandOK, ObjsInv, DeletedInv, Objects,
         AfterCSV, AfterCatalog, Through, found
<1>8. QED
  BY <1>3, <1>4, <1>5, <1>6, <1>7 DEF CleanupInv, TypeOK

LEMMA AwaitGoneStep == CleanupInv /\ AwaitGone => CleanupInv'
<1> SUFFICES ASSUME CleanupInv, AwaitGone PROVE CleanupInv'
  OBVIOUS
<1>1. CommandOK'
  BY DEF AwaitGone, CleanupInv, TypeOK, CommandOK, WorldOK, Objects, found, world
<1>2. WorldOK'
  BY DEF AwaitGone, CleanupInv, TypeOK, CommandOK, WorldOK, Objects, found, world
<1>3. OLMInv'
  BY DEF AwaitGone, CleanupInv, TypeOK, CommandOK, WorldOK, OLMInv, ObjsInv, Objects, AfterCSV, found, world
<1>4. ObjsInv'
  BY DEF AwaitGone, CleanupInv, TypeOK, CommandOK, WorldOK, ObjsInv, Objects, AfterCSV, AfterCatalog, found, world
<1>5. DeletedInv'
  <2>1. waiting \in objs \ deleted /\ state[waiting] = "absent"
    BY DEF AwaitGone, CleanupInv, TypeOK, CommandOK
  <2>2. csvObj' = "empty" => "csv" \notin deleted' \cup {waiting'}
    BY <2>1 DEF AwaitGone, CleanupInv, OLMInv, ObjsInv, DeletedInv, found
  <2>3. QED
    BY <2>1, <2>2 DEF AwaitGone, CleanupInv, DeletedInv, AfterCatalog, Through, found, world
<1>6. QED
  BY <1>1, <1>2, <1>3, <1>4, <1>5 DEF CleanupInv, TypeOK

LEMMA DeleteUnnamedStep == CleanupInv /\ DeleteUnnamed => CleanupInv'
<1> SUFFICES ASSUME CleanupInv, DeleteUnnamed PROVE CleanupInv'
  OBVIOUS
<1>1. CommandOK'
  BY DEF DeleteUnnamed, CleanupInv, TypeOK, CommandOK, WorldOK, Objects, found, world
<1>2. WorldOK'
  BY DEF DeleteUnnamed, CleanupInv, TypeOK, CommandOK, WorldOK, Objects, found, world
<1>3. OLMInv'
  BY DEF DeleteUnnamed, CleanupInv, TypeOK, CommandOK, WorldOK, OLMInv, ObjsInv, Objects, AfterCSV, found, world
<1>4. ObjsInv'
  BY DEF DeleteUnnamed, CleanupInv, TypeOK, CommandOK, WorldOK, ObjsInv, Objects, AfterCSV, AfterCatalog, found, world
<1>5. DeletedInv'
  BY DEF DeleteUnnamed, CleanupInv, TypeOK, CommandOK, WorldOK, OLMInv, ObjsInv, DeletedInv, Objects,
         AfterCSV, AfterCatalog, Through, found, world
<1>6. QED
  BY <1>1, <1>2, <1>3, <1>4, <1>5 DEF CleanupInv, TypeOK

LEMMA AllDeletedStep == CleanupInv /\ AllDeleted => CleanupInv'
<1> SUFFICES ASSUME CleanupInv, AllDeleted PROVE CleanupInv'
  OBVIOUS
<1>1. CommandOK'
  BY DEF AllDeleted, CleanupInv, TypeOK, CommandOK, WorldOK, Objects, Todo, found, world
<1>2. WorldOK'
  BY DEF AllDeleted, CleanupInv, TypeOK, CommandOK, WorldOK, Objects, Todo, found, world
<1>3. OLMInv'
  BY DEF AllDeleted, CleanupInv, TypeOK, CommandOK, WorldOK, OLMInv, ObjsInv, Objects, AfterCSV, Todo, found, world
<1>4. ObjsInv'
  BY DEF AllDeleted, CleanupInv, TypeOK, CommandOK, WorldOK, ObjsInv, Objects, AfterCSV, AfterCatalog, Todo, found, world
<1>5. DeletedInv'
  BY DEF AllDeleted, CleanupInv, TypeOK, CommandOK, WorldOK, OLMInv, ObjsInv, DeletedInv, Objects,
         AfterCSV, AfterCatalog, Through, Todo, found, world
<1>6. QED
  BY <1>1, <1>2, <1>3, <1>4, <1>5 DEF CleanupInv, TypeOK

LEMMA LastSubscriptionStep == CleanupInv /\ LastSubscription => CleanupInv'
<1> SUFFICES ASSUME CleanupInv, LastSubscription PROVE CleanupInv'
  OBVIOUS
<1>1. CommandOK'
  BY DEF LastSubscription, CleanupInv, TypeOK, CommandOK, WorldOK, Objects, found, world
<1>2. WorldOK'
  BY DEF LastSubscription, CleanupInv, TypeOK, CommandOK, WorldOK, Objects, found, world
<1>3. OLMInv'
  BY DEF LastSubscription, CleanupInv, TypeOK, CommandOK, WorldOK, OLMInv, ObjsInv, Objects, AfterCSV, found, world
<1>4. ObjsInv'
  BY DEF LastSubscription, CleanupInv, TypeOK, CommandOK, WorldOK, ObjsInv, Objects, AfterCSV, AfterCatalog, found, world
<1>5. DeletedInv'
  BY DEF LastSubscription, CleanupInv, TypeOK, CommandOK, WorldOK, OLMInv, ObjsInv, DeletedInv, Objects,
         AfterCSV, AfterCatalog, Through, found, world
<1>6. QED
  BY <1>1, <1>2, <1>3, <1>4, <1>5 DEF CleanupInv, TypeOK

LEMMA KeepGroupStep == CleanupInv /\ KeepGroup => CleanupInv'
<1> SUFFICES ASSUME CleanupInv, KeepGroup PROVE CleanupInv'
  OBVIOUS
<1>1. CommandOK'
  BY DEF KeepGroup, CleanupInv, TypeOK, CommandOK, WorldOK, Objects, Finish, found, world
<1>2. WorldOK'
  BY DEF KeepGroup, CleanupInv, TypeOK, CommandOK, WorldOK, Objects, Finish, found, world
<1>3. OLMInv'
  BY DEF KeepGroup, CleanupInv, TypeOK, CommandOK, WorldOK, OLMInv, ObjsInv, Objects, AfterCSV, Finish, found, world
<1>4. ObjsInv'
  BY DEF KeepGroup, CleanupInv, TypeOK, CommandOK, WorldOK, ObjsInv, Objects, AfterCSV, AfterCatalog, Finish, found, world
<1>5. DeletedInv'
  BY DEF KeepGroup, CleanupInv, TypeOK, CommandOK, WorldOK, OLMInv, ObjsInv, DeletedInv, Objects,
         AfterCSV, AfterCatalog, Through, Finish, found, world
<1>6. QED
  BY <1>1, <1>2, <1>3, <1>4, <1>5 DEF CleanupInv, TypeOK

LEMMA DeleteGroupStep == CleanupInv /\ DeleteGroup => CleanupInv'
<1> SUFFICES ASSUME CleanupInv, DeleteGroup PROVE CleanupInv'
  OBVIOUS
<1>1. CommandOK'
  BY DEF DeleteGroup, CleanupInv, TypeOK, CommandOK, WorldOK, Objects, Finish, found
<1>2. WorldOK'
  BY DEF DeleteGroup, CleanupInv, TypeOK, CommandOK, WorldOK, Objects, Finish, found
<1>3. OLMInv'
  BY DEF DeleteGroup, CleanupInv, TypeOK, CommandOK, WorldOK, OLMInv, ObjsInv, Objects, AfterCSV, Finish, found
<1>4. ObjsInv'
  BY DEF DeleteGroup, CleanupInv, TypeOK, CommandOK, WorldOK, ObjsInv, Objects, AfterCSV, AfterCatalog, Finish, found
<1>5. DeletedInv'
  BY DEF DeleteGroup, CleanupInv, TypeOK, CommandOK, WorldOK, OLMInv, ObjsInv, DeletedInv, Objects,
         AfterCSV, AfterCatalog, Through, Finish, found
<1>6. QED
  BY <1>1, <1>2, <1>3, <1>4, <1>5 DEF CleanupInv, TypeOK

LEMMA FailsStep == CleanupInv /\ Fails => CleanupInv'
<1> SUFFICES ASSUME CleanupInv, Fails PROVE CleanupInv'
  OBVIOUS
<1>1. CommandOK'
  BY DEF Fails, CleanupInv, TypeOK, CommandOK, WorldOK, Objects, found, world
<1>2. WorldOK'
  BY DEF Fails, CleanupInv, TypeOK, CommandOK, WorldOK, Objects, found, world
<1>3. OLMInv'
  BY DEF Fails, CleanupInv, TypeOK, CommandOK, WorldOK, OLMInv, ObjsInv, Objects, AfterCSV, found, world
<1>4. ObjsInv'
  BY DEF Fails, CleanupInv, TypeOK, CommandOK, WorldOK, ObjsInv, Objects, AfterCSV, AfterCatalog, found, world
<1>5. DeletedInv'
  BY DEF Fails, CleanupInv, TypeOK, CommandOK, WorldOK, OLMInv, ObjsInv, DeletedInv, Objects,
         AfterCSV, AfterCatalog, Through, found, world
<1>6. QED
  BY <1>1, <1>2, <1>3, <1>4, <1>5 DEF CleanupInv, TypeOK

LEMMA RunAgainStep == CleanupInv /\ RunAgain => CleanupInv'
<1> SUFFICES ASSUME CleanupInv, RunAgain PROVE CleanupInv'
  OBVIOUS
<1>1. CommandOK'
  <2>1. objs' = {} /\ deleted' = {} /\ waiting' = None /\ pc' = "list" /\ result' = None
    BY DEF RunAgain, CleanupInv, TypeOK, CommandOK
  <2>2. objs' \subseteq Objects \ {"sub"} /\ deleted' \subseteq objs'
    BY <2>1
  <2>3. waiting' \in (objs' \ deleted') \cup {None} /\ (waiting' # None <=> pc' = "await")
    BY <2>1
  <2>4. runs' \in 1 .. MaxRuns /\ expired' \in BOOLEAN /\ faults' \in 0 .. MaxFaults
    <3>1. runs < MaxRuns /\ runs' = runs + 1 /\ faults' = faults /\ expired' = FALSE
      BY DEF RunAgain
    <3>2. runs \in 1 .. MaxRuns /\ faults \in 0 .. MaxFaults
      BY DEF CleanupInv, TypeOK, CommandOK
    <3>3. runs' \in 1 .. MaxRuns /\ faults' \in 0 .. MaxFaults
      BY <3>1, <3>2
    <3>4. QED
      BY <3>1, <3>3
  <2>5. subFound' \in BOOLEAN /\ csvObj' \in {"nil", "found", "empty"} /\ csFound' \in BOOLEAN
    BY DEF RunAgain
  <2>6. QED
    BY <2>1, <2>2, <2>3, <2>4, <2>5 DEF CommandOK
<1>2. WorldOK'
  BY DEF RunAgain, CleanupInv, TypeOK, CommandOK, WorldOK, Objects, world
<1>3. OLMInv'
  BY DEF RunAgain, CleanupInv, TypeOK, CommandOK, WorldOK, OLMInv, ObjsInv, Objects, AfterCSV, world
<1>4. ObjsInv'
  BY DEF RunAgain, CleanupInv, TypeOK, CommandOK, WorldOK, ObjsInv, Objects, AfterCSV, AfterCatalog, world
<1>5. DeletedInv'
  BY DEF RunAgain, CleanupInv, TypeOK, CommandOK, WorldOK, OLMInv, ObjsInv, DeletedInv, Objects,
         AfterCSV, AfterCatalog, Through, world
<1>6. QED
  BY <1>1, <1>2, <1>3, <1>4, <1>5 DEF CleanupInv, TypeOK

LEMMA ExpireStep == CleanupInv /\ Expire => CleanupInv'
<1> SUFFICES ASSUME CleanupInv, Expire PROVE CleanupInv'
  OBVIOUS
<1>1. CommandOK'
  BY DEF Expire, CleanupInv, TypeOK, CommandOK, WorldOK, Objects, command, found, world
<1>2. WorldOK'
  BY DEF Expire, CleanupInv, TypeOK, CommandOK, WorldOK, Objects, command, found, world
<1>3. OLMInv'
  BY DEF Expire, CleanupInv, TypeOK, CommandOK, WorldOK, OLMInv, ObjsInv, Objects, AfterCSV, command, found, world
<1>4. ObjsInv'
  BY DEF Expire, CleanupInv, TypeOK, CommandOK, WorldOK, ObjsInv, Objects, AfterCSV, AfterCatalog, command, found, world
<1>5. DeletedInv'
  BY DEF Expire, CleanupInv, TypeOK, CommandOK, WorldOK, OLMInv, ObjsInv, DeletedInv, Objects,
         AfterCSV, AfterCatalog, Through, command, found, world
<1>6. QED
  BY <1>1, <1>2, <1>3, <1>4, <1>5 DEF CleanupInv, TypeOK

LEMMA ResolveStep == CleanupInv /\ Resolve => CleanupInv'
<1> SUFFICES ASSUME CleanupInv, Resolve PROVE CleanupInv'
  OBVIOUS
<1>1. CommandOK'
  BY DEF Resolve, CleanupInv, TypeOK, CommandOK, WorldOK, Objects, command, found
<1>2. WorldOK'
  BY DEF Resolve, CleanupInv, TypeOK, CommandOK, WorldOK, Objects, command, found
<1>3. OLMInv'
  BY DEF Resolve, CleanupInv, TypeOK, CommandOK, WorldOK, OLMInv, ObjsInv, Objects, AfterCSV, command, found
<1>4. ObjsInv'
  BY DEF Resolve, CleanupInv, TypeOK, CommandOK, WorldOK, ObjsInv, Objects, AfterCSV, AfterCatalog, command, found
<1>5. DeletedInv'
  BY DEF Resolve, CleanupInv, TypeOK, CommandOK, WorldOK, OLMInv, ObjsInv, DeletedInv, Objects,
         AfterCSV, AfterCatalog, Through, command, found
<1>6. QED
  BY <1>1, <1>2, <1>3, <1>4, <1>5 DEF CleanupInv, TypeOK

LEMMA ExecutePlanStep == CleanupInv /\ ExecutePlan => CleanupInv'
<1> SUFFICES ASSUME CleanupInv, ExecutePlan PROVE CleanupInv'
  OBVIOUS
<1>1. CommandOK'
  BY DEF ExecutePlan, CleanupInv, TypeOK, CommandOK, WorldOK, Objects, command, found
<1>2. WorldOK'
  BY DEF ExecutePlan, CleanupInv, TypeOK, CommandOK, WorldOK, Objects, command, found
<1>3. OLMInv'
  BY DEF ExecutePlan, CleanupInv, TypeOK, CommandOK, WorldOK, OLMInv, ObjsInv, Objects, AfterCSV, command, found
<1>4. ObjsInv'
  BY DEF ExecutePlan, CleanupInv, TypeOK, CommandOK, WorldOK, ObjsInv, Objects, AfterCSV, AfterCatalog, command, found
<1>5. DeletedInv'
  BY DEF ExecutePlan, CleanupInv, TypeOK, CommandOK, WorldOK, OLMInv, ObjsInv, DeletedInv, Objects,
         AfterCSV, AfterCatalog, Through, command, found
<1>6. QED
  BY <1>1, <1>2, <1>3, <1>4, <1>5 DEF CleanupInv, TypeOK

LEMMA CheckRequirementsStep == CleanupInv /\ CheckRequirements => CleanupInv'
<1> SUFFICES ASSUME CleanupInv, CheckRequirements PROVE CleanupInv'
  OBVIOUS
<1>1. CommandOK'
  BY DEF CheckRequirements, CleanupInv, TypeOK, CommandOK, WorldOK, Objects, command, found
<1>2. WorldOK'
  BY DEF CheckRequirements, CleanupInv, TypeOK, CommandOK, WorldOK, Objects, command, found
<1>3. OLMInv'
  BY DEF CheckRequirements, CleanupInv, TypeOK, CommandOK, WorldOK, OLMInv, ObjsInv, Objects, AfterCSV, command, found
<1>4. ObjsInv'
  BY DEF CheckRequirements, CleanupInv, TypeOK, CommandOK, WorldOK, ObjsInv, Objects, AfterCSV, AfterCatalog, command, found
<1>5. DeletedInv'
  BY DEF CheckRequirements, CleanupInv, TypeOK, CommandOK, WorldOK, OLMInv, ObjsInv, DeletedInv, Objects,
         AfterCSV, AfterCatalog, Through, command, found
<1>6. QED
  BY <1>1, <1>2, <1>3, <1>4, <1>5 DEF CleanupInv, TypeOK

LEMMA ReportInstalledStep == CleanupInv /\ ReportInstalled => CleanupInv'
<1> SUFFICES ASSUME CleanupInv, ReportInstalled PROVE CleanupInv'
  OBVIOUS
<1>1. CommandOK'
  BY DEF ReportInstalled, CleanupInv, TypeOK, CommandOK, WorldOK, Objects, command, found
<1>2. WorldOK'
  BY DEF ReportInstalled, CleanupInv, TypeOK, CommandOK, WorldOK, Objects, command, found
<1>3. OLMInv'
  BY DEF ReportInstalled, CleanupInv, TypeOK, CommandOK, WorldOK, OLMInv, ObjsInv, Objects, AfterCSV, command, found
<1>4. ObjsInv'
  BY DEF ReportInstalled, CleanupInv, TypeOK, CommandOK, WorldOK, ObjsInv, Objects, AfterCSV, AfterCatalog, command, found
<1>5. DeletedInv'
  BY DEF ReportInstalled, CleanupInv, TypeOK, CommandOK, WorldOK, OLMInv, ObjsInv, DeletedInv, Objects,
         AfterCSV, AfterCatalog, Through, command, found
<1>6. QED
  BY <1>1, <1>2, <1>3, <1>4, <1>5 DEF CleanupInv, TypeOK

LEMMA OtherEnsuresGroupStep == CleanupInv /\ OtherEnsuresGroup => CleanupInv'
<1> SUFFICES ASSUME CleanupInv, OtherEnsuresGroup PROVE CleanupInv'
  OBVIOUS
<1>1. CommandOK'
  BY DEF OtherEnsuresGroup, CleanupInv, TypeOK, CommandOK, WorldOK, Objects, command, found
<1>2. WorldOK'
  BY DEF OtherEnsuresGroup, CleanupInv, TypeOK, CommandOK, WorldOK, Objects, command, found
<1>3. OLMInv'
  BY DEF OtherEnsuresGroup, CleanupInv, TypeOK, CommandOK, WorldOK, OLMInv, ObjsInv, Objects, AfterCSV, command, found
<1>4. ObjsInv'
  BY DEF OtherEnsuresGroup, CleanupInv, TypeOK, CommandOK, WorldOK, ObjsInv, Objects, AfterCSV, AfterCatalog, command, found
<1>5. DeletedInv'
  BY DEF OtherEnsuresGroup, CleanupInv, TypeOK, CommandOK, WorldOK, OLMInv, ObjsInv, DeletedInv, Objects,
         AfterCSV, AfterCatalog, Through, command, found
<1>6. QED
  BY <1>1, <1>2, <1>3, <1>4, <1>5 DEF CleanupInv, TypeOK

LEMMA OtherSubscribesStep == CleanupInv /\ OtherSubscribes => CleanupInv'
<1> SUFFICES ASSUME CleanupInv, OtherSubscribes PROVE CleanupInv'
  OBVIOUS
<1>1. CommandOK'
  BY DEF OtherSubscribes, CleanupInv, TypeOK, CommandOK, WorldOK, Objects, command, found
<1>2. WorldOK'
  BY DEF OtherSubscribes, CleanupInv, TypeOK, CommandOK, WorldOK, Objects, command, found
<1>3. OLMInv'
  BY DEF OtherSubscribes, CleanupInv, TypeOK, CommandOK, WorldOK, OLMInv, ObjsInv, Objects, AfterCSV, command, found
<1>4. ObjsInv'
  BY DEF OtherSubscribes, CleanupInv, TypeOK, CommandOK, WorldOK, ObjsInv, Objects, AfterCSV, AfterCatalog, command, found
<1>5. DeletedInv'
  BY DEF OtherSubscribes, CleanupInv, TypeOK, CommandOK, WorldOK, OLMInv, ObjsInv, DeletedInv, Objects,
         AfterCSV, AfterCatalog, Through, command, found
<1>6. QED
  BY <1>1, <1>2, <1>3, <1>4, <1>5 DEF CleanupInv, TypeOK

LEMMA OtherUnsubscribesStep == CleanupInv /\ OtherUnsubscribes => CleanupInv'
<1> SUFFICES ASSUME CleanupInv, OtherUnsubscribes PROVE CleanupInv'
  OBVIOUS
<1>1. CommandOK'
  BY DEF OtherUnsubscribes, CleanupInv, TypeOK, CommandOK, WorldOK, Objects, command, found
<1>2. WorldOK'
  BY DEF OtherUnsubscribes, CleanupInv, TypeOK, CommandOK, WorldOK, Objects, command, found
<1>3. OLMInv'
  BY DEF OtherUnsubscribes, CleanupInv, TypeOK, CommandOK, WorldOK, OLMInv, ObjsInv, Objects, AfterCSV, command, found
<1>4. ObjsInv'
  BY DEF OtherUnsubscribes, CleanupInv, TypeOK, CommandOK, WorldOK, ObjsInv, Objects, AfterCSV, AfterCatalog, command, found
<1>5. DeletedInv'
  BY DEF OtherUnsubscribes, CleanupInv, TypeOK, CommandOK, WorldOK, OLMInv, ObjsInv, DeletedInv, Objects,
         AfterCSV, AfterCatalog, Through, command, found
<1>6. QED
  BY <1>1, <1>2, <1>3, <1>4, <1>5 DEF CleanupInv, TypeOK

LEMMA GoneStep ==
    ASSUME CleanupInv, NEW o \in Objects, Gone(o)
    PROVE  CleanupInv'
<1>1. CommandOK'
  BY DEF Gone, CleanupInv, TypeOK, CommandOK, command, found
<1>2. WorldOK'
  BY DEF Gone, CleanupInv, TypeOK, WorldOK, command, found
<1>3. OLMInv'
  BY DEF Gone, CleanupInv, TypeOK, WorldOK, OLMInv, Objects, AfterCSV, command, found
<1>4. ObjsInv'
  BY DEF Gone, CleanupInv, ObjsInv, AfterCSV, AfterCatalog, command, found
<1>5. DeletedInv'
  BY DEF Gone, CleanupInv, TypeOK, CommandOK, WorldOK, DeletedInv, Objects,
         AfterCSV, AfterCatalog, Through, command, found
<1>6. QED
  BY <1>1, <1>2, <1>3, <1>4, <1>5 DEF CleanupInv, TypeOK

LEMMA CreateCRStep ==
    ASSUME CleanupInv, NEW c \in CRDs, CreateCR(c)
    PROVE  CleanupInv'
<1>1. CommandOK'
  BY DEF CreateCR, CleanupInv, TypeOK, CommandOK, command, found
<1>2. WorldOK'
  BY DEF CreateCR, CleanupInv, TypeOK, WorldOK, command, found
<1>3. OLMInv'
  BY DEF CreateCR, CleanupInv, TypeOK, WorldOK, OLMInv, Objects, AfterCSV, command, found
<1>4. ObjsInv'
  BY DEF CreateCR, CleanupInv, ObjsInv, AfterCSV, AfterCatalog, command, found
<1>5. DeletedInv'
  BY DEF CreateCR, CleanupInv, TypeOK, CommandOK, WorldOK, DeletedInv, Objects,
         AfterCSV, AfterCatalog, Through, command, found
<1>6. QED
  BY <1>1, <1>2, <1>3, <1>4, <1>5 DEF CleanupInv, TypeOK

LEMMA HandleFinalizerStep ==
    ASSUME CleanupInv, NEW c \in CRDs, HandleFinalizer(c)
    PROVE  CleanupInv'
<1>1. CommandOK'
  BY DEF HandleFinalizer, CleanupInv, TypeOK, CommandOK, command, found
<1>2. WorldOK'
  BY DEF HandleFinalizer, CleanupInv, TypeOK, WorldOK, command, found
<1>3. OLMInv'
  BY DEF HandleFinalizer, CleanupInv, TypeOK, WorldOK, OLMInv, Objects, AfterCSV, command, found
<1>4. ObjsInv'
  BY DEF HandleFinalizer, CleanupInv, ObjsInv, AfterCSV, AfterCatalog, command, found
<1>5. DeletedInv'
  BY DEF HandleFinalizer, CleanupInv, TypeOK, CommandOK, WorldOK, DeletedInv, Objects,
         AfterCSV, AfterCatalog, Through, command, found
<1>6. QED
  BY <1>1, <1>2, <1>3, <1>4, <1>5 DEF CleanupInv, TypeOK

LEMMA StepCleanupInv == CleanupInv /\ [Next]_vars => CleanupInv'
<1> SUFFICES ASSUME CleanupInv, [Next]_vars PROVE CleanupInv'
  OBVIOUS
<1>1. CASE Proceed
  BY <1>1, ListSubscriptionsStep, GetCSVStep, GetCatalogSourceStep, DeleteSubscriptionStep,
     DeleteStep, DeleteUnnamedStep, AwaitGoneStep, AllDeletedStep, LastSubscriptionStep,
     KeepGroupStep, DeleteGroupStep DEF Proceed
<1>2. CASE Fails \/ RunAgain \/ Expire
  BY <1>2, FailsStep, RunAgainStep, ExpireStep
<1>3. CASE OLM
  BY <1>3, ResolveStep, ExecutePlanStep, CheckRequirementsStep, ReportInstalledStep DEF OLM
<1>4. CASE Other
  BY <1>4, OtherEnsuresGroupStep, OtherSubscribesStep, OtherUnsubscribesStep DEF Other
<1>5. CASE \E o \in Objects : Gone(o)
  BY <1>5, GoneStep
<1>6. CASE \E c \in CRDs : CreateCR(c) \/ HandleFinalizer(c)
  BY <1>6, CreateCRStep, HandleFinalizerStep
<1>7. CASE UNCHANGED vars
  BY <1>7 DEF vars, command, found, world, CleanupInv, TypeOK, CommandOK, WorldOK,
     OLMInv, ObjsInv, DeletedInv, AfterCSV, AfterCatalog, Through
<1>8. QED
  BY <1>1, <1>2, <1>3, <1>4, <1>5, <1>6, <1>7 DEF Next

\* In every reachable state Run's variables and the cluster agree as CleanupInv
\* says, whatever OLM, other installations and earlier runs did.
THEOREM CleanupSound == Spec => []CleanupInv
BY InitCleanupInv, StepCleanupInv, PTL DEF Spec

\* A cleanup that reports success has removed everything it found; if it found
\* the subscription, the package is gone and OLM cannot bring it back.
THEOREM Cleaned == Spec => []CleanedUp
<1>1. ASSUME CleanupInv, result = "ok" PROVE CleanedUp
  <2>1. /\ pc = "done" /\ deleted = objs
        /\ \A o \in objs : state[o] = "absent"
    BY <1>1 DEF CleanupInv, ObjsInv, DeletedInv, Through
  <2>2. csvObj # "empty" /\ (csFound => "catalog" \in objs)
    BY <1>1, <2>1 DEF CleanupInv, ObjsInv, DeletedInv, AfterCatalog
  <2>3. state["catalog"] = "absent"
    BY <1>1, <2>1, <2>2 DEF CleanupInv, DeletedInv, AfterCatalog
  <2>4. subFound => state["csv"] = "absent" /\ plan # "approved"
    BY <1>1, <2>1, <2>2 DEF CleanupInv, TypeOK, CommandOK, OLMInv, ObjsInv, AfterCatalog, AfterCSV
  <2>5. QED
    BY <1>1, <2>1, <2>3, <2>4 DEF CleanupInv, DeletedInv, CleanedUp, AfterCatalog
<1>2. CleanupInv => CleanedUp
  BY <1>1 DEF CleanedUp
<1>3. QED
  BY <1>2, CleanupSound, PTL

----------------------------------------------------------------------------
(* The order of the deletions                                              *)

\* A CRD that is going after a step was going before it, or is what Delete took.
LEMMA GoingFrom ==
    ASSUME CleanupInv, Next, Going'
    PROVE  \/ Going
           \/ Delete /\ waiting' \in CRDs
<1> SUFFICES ASSUME ~Going, ~(Delete /\ waiting' \in CRDs) PROVE FALSE
  OBVIOUS
<1>1. PICK c \in CRDs : state'[c] = "terminating"
  BY DEF Going
<1>2. state[c] # "terminating" /\ c \in Objects /\ c # "sub"
  BY DEF Going, Objects
<1>3. CASE ~Delete
  BY <1>1, <1>2, <1>3
     DEF Next, Proceed, OLM, Other, ListSubscriptions, GetCSV, GetCatalogSource, DeleteSubscription,
         DeleteUnnamed, AwaitGone, AllDeleted, LastSubscription, KeepGroup, DeleteGroup, Fails,
         RunAgain, Expire, Resolve, ExecutePlan, CheckRequirements, ReportInstalled,
         OtherEnsuresGroup, OtherSubscribes, OtherUnsubscribes, Gone, CreateCR, HandleFinalizer,
         Deleted, world, CleanupInv, TypeOK, WorldOK
<1>4. CASE Delete
  BY <1>1, <1>2, <1>4 DEF Delete, Deleted, Todo, CleanupInv, TypeOK, WorldOK, CommandOK
<1>5. QED
  BY <1>3, <1>4

LEMMA InitOrderInv == Init => OrderInv
BY DEF Init, OrderInv, Going, Objects

LEMMA StepOrderInv == CleanupInv /\ OrderInv /\ [Next]_vars => OrderInv'
<1> SUFFICES ASSUME CleanupInv, OrderInv, [Next]_vars PROVE OrderInv'
  OBVIOUS
<1>1. CASE UNCHANGED vars
  BY <1>1 DEF vars, command, found, world, OrderInv, Going
<1>2. CASE Next
  \* The package's subscription is never created again.
  <2>1. state["sub"] = "absent" => state'["sub"] = "absent"
    BY <1>2
       DEF Next, Proceed, OLM, Other, ListSubscriptions, GetCSV, GetCatalogSource, DeleteSubscription,
           Delete, DeleteUnnamed, AwaitGone, AllDeleted, LastSubscription, KeepGroup, DeleteGroup,
           Fails, RunAgain, Expire, Resolve, ExecutePlan, CheckRequirements, ReportInstalled,
           OtherEnsuresGroup, OtherSubscribes, OtherUnsubscribes, Gone, CreateCR, HandleFinalizer,
           Deleted, Objects, Todo, world, CleanupInv, TypeOK, CommandOK, WorldOK
  <2>2. pc' = "deleteGroup" => pc = "deleteGroup" \/ state["sub"] = "absent"
    BY <1>2
       DEF Next, Proceed, OLM, Other, ListSubscriptions, GetCSV, GetCatalogSource, DeleteSubscription,
           Delete, DeleteUnnamed, AwaitGone, AllDeleted, LastSubscription, KeepGroup, DeleteGroup,
           Fails, RunAgain, Expire, Resolve, ExecutePlan, CheckRequirements, ReportInstalled,
           OtherEnsuresGroup, OtherSubscribes, OtherUnsubscribes, Gone, CreateCR, HandleFinalizer,
           Finish, command
  \* The objects are found anew, or kept, or only those other than CRDs added to.
  <2>3. /\ checked => checked'
        /\ \/ GetCSV /\ Going' = Going
           \/ RunAgain
           \/ csvObj' = csvObj /\ objs' \cap CRDs = objs \cap CRDs
    BY <1>2
       DEF Next, Proceed, OLM, Other, ListSubscriptions, GetCSV, GetCatalogSource, DeleteSubscription,
           Delete, DeleteUnnamed, AwaitGone, AllDeleted, LastSubscription, KeepGroup, DeleteGroup,
           Fails, RunAgain, Expire, Resolve, ExecutePlan, CheckRequirements, ReportInstalled,
           OtherEnsuresGroup, OtherSubscribes, OtherUnsubscribes, Gone, CreateCR, HandleFinalizer,
           Going, Finish, command, found, world
  \* What Delete takes was found by a run that takes all CRDs.
  <2>4. Delete /\ waiting' \in CRDs => checked /\ DeleteAll /\ CRDs \subseteq objs
    <3>1. SUFFICES ASSUME Delete, waiting' \in CRDs PROVE checked /\ DeleteAll /\ CRDs \subseteq objs
      OBVIOUS
    <3>2. objs \cap CRDs # {}
      BY <3>1 DEF Delete, Todo
    <3>3. QED
      BY <3>2 DEF OrderInv
  <2>5. Going' => Going \/ (checked /\ DeleteAll /\ CRDs \subseteq objs)
    BY <1>2, <2>4, GoingFrom
  <2>6. CASE GetCSV
    BY <2>6, <2>1, <2>2, <2>3 DEF GetCSV, OrderInv, world, Going
  <2>7. CASE RunAgain
    BY <2>7, <2>1, <2>2 DEF RunAgain, OrderInv, world, Going
  <2>8. CASE csvObj' = csvObj /\ objs' \cap CRDs = objs \cap CRDs
    BY <2>8, <2>1, <2>2, <2>3, <2>5 DEF OrderInv
  <2>9. QED
    BY <2>3, <2>6, <2>7, <2>8
<1>3. QED
  BY <1>1, <1>2

\* In every reachable state, what goes was found by a run that takes all CRDs,
\* and the operator group is about to go only when the subscription is gone.
THEOREM OrderSound == Spec => []OrderInv
BY InitOrderInv, StepOrderInv, CleanupSound, PTL DEF Spec

\* The operator group goes only when the package's own subscription is gone and
\* all that the run found is deleted.
THEOREM GroupLast == Spec => GroupGoesLast
<1>1. ASSUME CleanupInv, OrderInv, [Next]_vars, group, ~group'
      PROVE  state["sub"] = "absent" /\ deleted = objs
  <2>1. DeleteGroup
    BY <1>1
       DEF Next, Proceed, OLM, Other, ListSubscriptions, GetCSV, GetCatalogSource, DeleteSubscription,
           Delete, DeleteUnnamed, AwaitGone, AllDeleted, LastSubscription, KeepGroup, Fails,
           RunAgain, Expire, Resolve, ExecutePlan, CheckRequirements, ReportInstalled,
           OtherEnsuresGroup, OtherSubscribes, OtherUnsubscribes, Gone, CreateCR, HandleFinalizer,
           vars, world
  <2>2. QED
    BY <1>1, <2>1 DEF DeleteGroup, CleanupInv, DeletedInv, Through, OrderInv
<1>2. CleanupInv /\ OrderInv /\ [Next]_vars
      => [group /\ ~group' => state["sub"] = "absent" /\ deleted = objs]_vars
  BY <1>1
<1>3. QED
  BY <1>2, CleanupSound, OrderSound, PTL DEF Spec, GroupGoesLast

\* No run deletes the CSV, and with it the operator, while a CRD that it owns
\* waits for the operator to handle its custom resources' finalizers.
THEOREM OperatorServesCRs == Spec => OperatorOutlivesCRs
<1>1. ASSUME CleanupInv, OrderInv, [Next]_vars, state["csv"] = "present", state'["csv"] # "present"
      PROVE  ~\E c \in CRDs : Unserved(c)
  <2>1. Delete /\ waiting' = "csv"
    BY <1>1
       DEF Next, Proceed, OLM, Other, ListSubscriptions, GetCSV, GetCatalogSource, DeleteSubscription,
           Delete, DeleteUnnamed, AwaitGone, AllDeleted, LastSubscription, KeepGroup, DeleteGroup,
           Fails, RunAgain, Expire, Resolve, ExecutePlan, CheckRequirements, ReportInstalled,
           OtherEnsuresGroup, OtherSubscribes, OtherUnsubscribes, Gone, CreateCR, HandleFinalizer,
           Deleted, Todo, Objects, vars, world, CleanupInv, TypeOK, CommandOK, WorldOK
  <2>2. csvObj = "found"
    BY <1>1, <2>1 DEF Delete, Todo, CleanupInv, TypeOK, CommandOK, ObjsInv
  <2>3. \A c \in CRDs : c \notin Todo
    <3>1. \A p \in Todo : Rank("csv") <= Rank(p)
      BY <2>1 DEF Delete, IsNext
    <3>2. Rank("csv") = 2 /\ \A c \in CRDs : Rank(c) = 1
      BY DEF Rank
    <3>3. QED
      BY <3>1, <3>2
  <2>4. SUFFICES ASSUME NEW c \in CRDs, state[c] = "terminating" PROVE FALSE
    BY DEF Unserved
  <2>5. c \in objs
    BY <1>1, <2>2, <2>4 DEF OrderInv, Going
  <2>6. c \in deleted
    BY <2>3, <2>5 DEF Todo
  <2>7. QED
    BY <1>1, <2>4, <2>6 DEF CleanupInv, DeletedInv
<1>2. CleanupInv /\ OrderInv /\ [Next]_vars
      => [state["csv"] = "present" /\ state'["csv"] # "present" => ~\E c \in CRDs : Unserved(c)]_vars
  BY <1>1
<1>3. QED
  BY <1>2, CleanupSound, OrderSound, PTL DEF Spec, OperatorOutlivesCRs
=============================================================================
