------------------------- MODULE OlmInstallerProofs -------------------------
(***************************************************************************)
(* Proofs about OlmInstaller, for any versions, manifests and numbers of   *)
(* commands and failures: InstallerInv is inductive, an installation that  *)
(* reports success has installed its version and nothing of another, and   *)
(* an uninstallation that does has removed every object.                   *)
(***************************************************************************)
EXTENDS OlmInstaller, SequenceTheorems, FiniteSetTheorems, TLAPS

----------------------------------------------------------------------------
(* Sequences                                                               *)

\* Filtered has just what the sequence has at these positions.
LEMMA FilteredSeq ==
    ASSUME NEW S, NEW s \in Seq(S), NEW at \in SUBSET DOMAIN s
    PROVE  /\ Filtered(s, at) \in Seq(S)
           /\ ToSet(Filtered(s, at)) = {s[i] : i \in at}
<1> DEFINE m == Cardinality(at)
           upTo(i) == {j \in at : j <= i}
           rank == [i \in at |-> Cardinality(upTo(i))]
           nth(n) == CHOOSE i \in at : Cardinality(upTo(i)) = n
<1>1. /\ DOMAIN s = 1 .. Len(s) /\ Len(s) \in Nat
      /\ at \subseteq Int /\ IsFiniteSet(at) /\ m \in Nat
  <2>1. DOMAIN s = 1 .. Len(s) /\ Len(s) \in Nat
    BY LenProperties
  <2>2. IsFiniteSet(1 .. Len(s))
    BY <2>1, FS_Interval
  <2>3. QED
    BY <2>1, <2>2, FS_Subset, FS_CardinalityType
<1>2. \A i \in at : /\ upTo(i) \in SUBSET at /\ i \in upTo(i) /\ IsFiniteSet(upTo(i))
                    /\ Cardinality(upTo(i)) \in 1 .. m
  <2>1. TAKE i \in at
  <2>2. upTo(i) \in SUBSET at /\ i \in upTo(i)
    BY <1>1
  <2> HIDE DEF upTo
  <2>3. IsFiniteSet(upTo(i)) /\ Cardinality(upTo(i)) \in Nat /\ Cardinality(upTo(i)) <= m
    BY <1>1, <2>2, FS_Subset, FS_CardinalityType
  <2>4. Cardinality(upTo(i)) # 0
    BY <2>2, <2>3, FS_EmptySet
  <2>5. QED
    BY <1>1, <2>2, <2>3, <2>4
<1>3. \A i, k \in at : Cardinality(upTo(i)) = Cardinality(upTo(k)) => i = k
  <2>1. \A i, k \in at : i < k => Cardinality(upTo(i)) # Cardinality(upTo(k))
    <3>1. TAKE i, k \in at
    <3>2. i < k => upTo(i) \in SUBSET upTo(k) /\ upTo(i) # upTo(k)
      <4>1. i < k => upTo(i) \in SUBSET upTo(k) /\ k \notin upTo(i)
        BY <1>1
      <4>2. QED
        BY <1>2, <4>1
    <3> HIDE DEF upTo
    <3>3. QED
      BY <1>2, <3>2, FS_Subset
  <2>2. \A i, k \in at : i < k \/ k < i \/ i = k
    BY <1>1
  <2> HIDE DEF upTo
  <2>3. QED
    BY <2>1, <2>2
<1> HIDE DEF m, upTo
<1>4. \A n \in 1 .. m : \E i \in at : Cardinality(upTo(i)) = n
  <2>1. rank \in Injection(at, 1 .. m)
    BY <1>2, <1>3 DEF Injection, IsInjective
  <2>2. IsFiniteSet(1 .. m) /\ Cardinality(1 .. m) = m
    <3>1. 1 \in Int /\ m \in Int /\ (IF 1 > m THEN 0 ELSE m - 1 + 1) = m
      BY <1>1
    <3>2. QED
      BY <3>1, FS_Interval
  <2>3. rank \in Surjection(at, 1 .. m)
    BY <2>1, <2>2, FS_Injection DEF m
  <2>4. QED
    BY <2>3 DEF Surjection
<1>5. \A n \in 1 .. m : nth(n) \in at
  BY <1>4
<1>6. \A i \in at : nth(Cardinality(upTo(i))) = i
  BY <1>3
<1>7. Filtered(s, at) = [n \in 1 .. m |-> s[nth(n)]]
  BY DEF Filtered, m, upTo
<1> HIDE DEF nth
<1>8. \A n \in 1 .. m : s[nth(n)] \in S
  BY <1>1, <1>5, ElementOfSeq
<1>9. Filtered(s, at) \in Seq(S)
  BY <1>1, <1>7, <1>8, IsASeq
<1>10. ToSet(Filtered(s, at)) = {s[i] : i \in at}
  <2>1. ToSet(Filtered(s, at)) = {s[nth(n)] : n \in 1 .. m}
    BY <1>7 DEF ToSet
  <2>2. QED
    BY <1>2, <1>5, <1>6, <2>1
<1>11. QED
  BY <1>9, <1>10

\* A command takes the first of its list.
LEMMA TakeFirst ==
    ASSUME NEW S, NEW t \in Seq(S), t # <<>>, NEW list \in Seq(S), Rest(t, list)
    PROVE  /\ Head(t) \in S /\ Tail(t) \in Seq(S) /\ Rest(Tail(t), list)
           /\ Done(Tail(t), list) = Done(t, list) \cup {Head(t)}
           /\ \E k \in 1 .. Len(list) : Head(t) = list[k] /\ k = Len(list) - Len(t) + 1
<1>1. /\ Len(t) \in Nat \ {0} /\ Len(list) \in Nat /\ Len(t) <= Len(list)
      /\ \A i \in 1 .. Len(t) : t[i] = list[Len(list) - Len(t) + i]
  BY LenProperties, EmptySeq DEF Rest
<1>2. /\ Head(t) = t[1] /\ Head(t) \in S /\ Tail(t) \in Seq(S) /\ Len(Tail(t)) = Len(t) - 1
      /\ \A i \in 1 .. Len(t) - 1 : Tail(t)[i] = t[i + 1]
  BY <1>1, HeadTailProperties
<1>3. /\ Len(Tail(t)) <= Len(list)
      /\ \A i \in 1 .. Len(Tail(t)) : Tail(t)[i] = list[Len(list) - Len(Tail(t)) + i]
  BY <1>1, <1>2
<1>4. Head(t) = list[Len(list) - Len(t) + 1]
  BY <1>1, <1>2
<1>5. Done(Tail(t), list) = Done(t, list) \cup {Head(t)}
  <2>1. 1 .. Len(list) - Len(Tail(t)) = (1 .. Len(list) - Len(t)) \cup {Len(list) - Len(t) + 1}
    BY <1>1, <1>2
  <2>2. QED
    BY <1>4, <2>1 DEF Done
<1>6. Len(list) - Len(t) + 1 \in 1 .. Len(list)
  BY <1>1
<1>7. QED
  BY <1>2, <1>3, <1>4, <1>5, <1>6 DEF Rest

\* It begins with all of it, and ends with none left.
LEMMA TakeAll ==
    ASSUME NEW S, NEW list \in Seq(S)
    PROVE  Rest(list, list) /\ Done(list, list) = {}
<1>1. Len(list) \in Nat
  BY LenProperties
<1>2. QED
  BY <1>1 DEF Rest, Done

LEMMA TakenAll ==
    ASSUME NEW S, NEW list \in Seq(S)
    PROVE  Done(<<>>, list) = ToSet(list)
<1>1. DOMAIN list = 1 .. Len(list) /\ Len(list) \in Nat /\ Len(<<>>) = 0
  BY LenProperties
<1>2. QED
  BY <1>1 DEF Done, ToSet

\* The manifests.
LEMMA Manifests ==
    ASSUME NEW v \in Versions
    PROVE  /\ CRDs \in Seq(Objects) /\ Resources[v] \in Seq(Objects) /\ All(v) \in Seq(Objects)
           /\ Len(CRDs) \in Nat /\ Len(Resources[v]) \in Nat
           /\ Len(All(v)) = Len(CRDs) + Len(Resources[v])
           /\ \A i \in 1 .. Len(CRDs) : All(v)[i] = CRDs[i] /\ CRDs[i] \in Kinds
           /\ \A i \in 1 .. Len(Resources[v]) : All(v)[Len(CRDs) + i] = Resources[v][i]
           /\ ToSet(All(v)) = Kinds \cup ToSet(Resources[v])
<1>1. CRDs \in Seq(Objects) /\ Resources[v] \in Seq(Objects)
  BY ManifestsAssumption DEF Objects
<1>2. All(v) = CRDs \o Resources[v]
  BY DEF All
<1> HIDE DEF All
<1>3. /\ DOMAIN CRDs = 1 .. Len(CRDs) /\ DOMAIN Resources[v] = 1 .. Len(Resources[v])
      /\ Len(CRDs) \in Nat /\ Len(Resources[v]) \in Nat
  BY <1>1, LenProperties
<1>4. /\ All(v) \in Seq(Objects) /\ Len(All(v)) = Len(CRDs) + Len(Resources[v])
      /\ \A i \in 1 .. Len(CRDs) + Len(Resources[v]) :
            All(v)[i] = IF i <= Len(CRDs) THEN CRDs[i] ELSE Resources[v][i - Len(CRDs)]
  BY <1>1, <1>2, ConcatProperties
<1>5. \A i \in 1 .. Len(CRDs) : All(v)[i] = CRDs[i] /\ CRDs[i] \in Kinds
  BY <1>3, <1>4 DEF Kinds, ToSet
<1>6. \A i \in 1 .. Len(Resources[v]) : All(v)[Len(CRDs) + i] = Resources[v][i]
  BY <1>3, <1>4
<1>7. ToSet(All(v)) = Kinds \cup ToSet(Resources[v])
  <2>1. DOMAIN All(v) = 1 .. Len(CRDs) + Len(Resources[v])
    BY <1>4, LenProperties
  <2>2. \A o \in ToSet(All(v)) : o \in Kinds \cup ToSet(Resources[v])
    <3>1. ASSUME NEW i \in 1 .. Len(CRDs) + Len(Resources[v])
          PROVE  All(v)[i] \in Kinds \cup ToSet(Resources[v])
      <4>1. CASE i <= Len(CRDs)
        BY <1>3, <1>5, <4>1
      <4>2. CASE ~(i <= Len(CRDs))
        <5>1. i - Len(CRDs) \in 1 .. Len(Resources[v])
          BY <1>3, <4>2
        <5>2. All(v)[i] = Resources[v][i - Len(CRDs)]
          BY <1>4, <4>2
        <5>3. QED
          BY <1>3, <5>1, <5>2 DEF ToSet
      <4>3. QED
        BY <4>1, <4>2
    <3>2. QED
      BY <2>1, <3>1 DEF ToSet
  <2>3. Kinds \subseteq ToSet(All(v))
    BY <1>3, <1>5, <2>1 DEF Kinds, ToSet
  <2>4. ToSet(Resources[v]) \subseteq ToSet(All(v))
    <3>1. \A i \in 1 .. Len(Resources[v]) : Len(CRDs) + i \in DOMAIN All(v)
      BY <1>3, <2>1
    <3>2. QED
      BY <1>3, <1>6, <3>1 DEF ToSet
  <2>5. QED
    BY <2>2, <2>3, <2>4
<1>8. QED
  BY <1>1, <1>3, <1>4, <1>5, <1>6, <1>7

LEMMA Selections ==
    ASSUME NEW v \in Versions
    PROVE  /\ NonOlm(v) \in Seq(Objects) /\ Subscriptions(v) \in Seq(Objects)
           /\ ToSet(NonOlm(v)) = {o \in ToSet(Resources[v]) : KindOf[o] = None}
<1> DEFINE R == Resources[v]
           at == {i \in DOMAIN R : KindOf[R[i]] = None}
           subs == {i \in DOMAIN R : Subscription(R[i])}
<1>1. R \in Seq(Objects) /\ at \in SUBSET DOMAIN R /\ subs \in SUBSET DOMAIN R
  BY Manifests
<1>2. /\ Filtered(R, at) \in Seq(Objects) /\ ToSet(Filtered(R, at)) = {R[i] : i \in at}
      /\ Filtered(R, subs) \in Seq(Objects)
  <2> HIDE DEF at, subs, R
  <2>1. QED
    BY <1>1, FilteredSeq
<1>3. NonOlm(v) = Filtered(R, at) /\ Subscriptions(v) = Filtered(R, subs)
  BY DEF NonOlm, Subscriptions
<1>4. {R[i] : i \in at} = {o \in ToSet(R) : KindOf[o] = None}
  BY DEF ToSet
<1>5. QED
  BY <1>2, <1>3, <1>4

LEMMA Roles ==
    /\ Kinds \subseteq Objects /\ Deployments \subseteq Inside /\ Inside \subseteq Objects
    /\ CSV \in Inside /\ Namespace \in Objects /\ CSV \notin Kinds /\ CSV # Namespace
    /\ None \notin Objects /\ KindOf[CSV] \in Kinds
    /\ \A o \in Objects : KindOf[o] \in Kinds \cup {None}
    /\ \A o \in Kinds \cup Deployments \cup {Namespace} : KindOf[o] = None
    /\ Inside \cap (Kinds \cup {Namespace}) = {}
    /\ Operator # Catalog /\ Operator # Server /\ Catalog # Server /\ CSV \notin Deployments
    /\ Operator \in Deployments /\ Catalog \in Deployments /\ Server \in Deployments
BY ManifestsAssumption, NamesAssumption DEF Objects, Kinds, Deployments

----------------------------------------------------------------------------
(* Steps of a command that leave the cluster alone                         *)

Results == {None, "ok", "error", "refused", "notInstalled"}

LEMMA Ended ==
    ASSUME InstallerInv, NEW r \in Results, End(r), UNCHANGED <<op, version, runs, cluster>>,
           faults' \in 0 .. MaxFaults, known' \subseteq Kinds
    PROVE  InstallerInv'
<1>1. TypeOK'
  BY EmptySeq DEF InstallerInv, TypeOK, End, cluster, Results
<1>2. StepsInv' /\ RemovedInv' /\ MakingInv'
  BY DEF End, StepsInv, RemovedInv, MakingInv, Making, AfterCRDs
<1>3. ClusterInv'
  BY DEF InstallerInv, ClusterInv, Exists, cluster
<1>4. QED
  BY <1>1, <1>2, <1>3 DEF InstallerInv

LEMMA Went ==
    ASSUME InstallerInv, NEW at, NEW list \in Seq(Objects), Goto(at, list),
           at \in {"idle", "checkCRDs", "checkResources", "createCRDs", "awaitCRDs",
                   "createResources", "operator", "catalog", "subscription", "csv",
                   "server", "version", "checkAll", "delete", "gone"},
           UNCHANGED <<op, known, runs, cluster>>,
           faults' \in 0 .. MaxFaults, version' \in Versions \cup {None}
    PROVE  TypeOK' /\ ClusterInv' /\ pc' = at /\ todo' = list /\ seen' = {}
<1>1. TypeOK'
  BY DEF InstallerInv, TypeOK, Goto, cluster
<1>2. ClusterInv'
  BY DEF InstallerInv, ClusterInv, Exists, cluster
<1>3. QED
  BY <1>1, <1>2 DEF Goto

LEMMA StepStart ==
    ASSUME InstallerInv,
           \/ \E v \in Versions : Install(v)
           \/ \E v \in Versions \cup {None} : Uninstall(v) \/ Status(v)
    PROVE  InstallerInv'
<1>1. /\ \/ op' = "install" /\ version' \in Versions /\ pc' = "checkCRDs" /\ todo' = CRDs
         \/ op' \in {"uninstall", "status"} /\ version' \in Versions \cup {None}
            /\ pc' = "version" /\ todo' = <<>>
      /\ seen' = {} /\ known' = {} /\ result' = None /\ runs' = runs + 1 /\ runs < MaxRuns
      /\ UNCHANGED <<faults, cluster>>
  BY DEF Install, Uninstall, Status, Start
<1>2. CRDs \in Seq(Objects) /\ <<>> \in Seq(Objects)
  BY EmptySeq, ManifestsAssumption DEF Objects
<1>3. Rest(CRDs, CRDs) /\ Done(CRDs, CRDs) = {}
  BY <1>2, TakeAll
<1>4. TypeOK'
  <2>1. runs' \in 0 .. MaxRuns
    BY <1>1, BoundsAssumption DEF InstallerInv, TypeOK
  <2>2. todo' \in Seq(Objects)
    BY <1>1, <1>2
  <2>3. /\ op' \in {"none", "install", "uninstall", "status"} /\ version' \in Versions \cup {None}
        /\ pc' \in {"checkCRDs", "version"}
    BY <1>1
  <2>4. QED
    BY <1>1, <2>1, <2>2, <2>3 DEF InstallerInv, TypeOK, cluster
<1>5. ClusterInv'
  BY <1>1 DEF InstallerInv, ClusterInv, Exists, cluster
<1>6. StepsInv' /\ MakingInv' /\ RemovedInv'
  BY <1>1, <1>3 DEF StepsInv, MakingInv, RemovedInv, Making, AfterCRDs
<1>7. QED
  BY <1>4, <1>5, <1>6 DEF InstallerInv

LEMMA StepFails == ASSUME InstallerInv, Fails PROVE InstallerInv'
<1>1. faults' \in 0 .. MaxFaults /\ known' \subseteq Kinds
  BY BoundsAssumption DEF Fails, InstallerInv, TypeOK
<1>2. QED
  BY <1>1, Ended DEF Fails, Results

LEMMA StepStops ==
    ASSUME InstallerInv,
           Refuse \/ RolloutFails \/ CSVFailed \/ Installed \/ DeleteUnmapped \/ Uninstalled
    PROVE  InstallerInv'
<1>1. \E r \in Results : End(r) /\ UNCHANGED <<op, version, known, runs, faults, cluster>>
  BY DEF Refuse, RolloutFails, CSVFailed, Installed, DeleteUnmapped, Uninstalled, Results
<1>2. faults' \in 0 .. MaxFaults /\ known' \subseteq Kinds
  BY <1>1 DEF InstallerInv, TypeOK
<1>3. QED
  BY <1>1, <1>2, Ended

LEMMA StepGet == ASSUME InstallerInv, Get PROVE InstallerInv'
<1> DEFINE h == Head(todo)
<1>1. /\ pc \in {"checkCRDs", "checkResources", "awaitCRDs", "checkAll"} /\ todo # <<>>
      /\ todo' = Tail(todo) /\ known' = Mapping(h)
      /\ \/ seen' = seen \cup {Outcome(h)} /\ faults' = faults
         \/ faults < MaxFaults /\ faults' = faults + 1 /\ seen' = seen \cup {"error"}
      /\ UNCHANGED <<op, version, pc, result, runs, cluster>>
  BY DEF Get, Checking
<1>2. todo \in Seq(Objects) /\ version \in Versions
  BY <1>1 DEF InstallerInv, TypeOK, StepsInv
<1>3. h \in Objects /\ Tail(todo) \in Seq(Objects)
  BY <1>1, <1>2, HeadTailProperties
<1>4. known \subseteq known' /\ known' \subseteq known \cup served
  BY <1>1 DEF Mapping
<1>5. TypeOK'
  <2>1. Outcome(h) \in {"found", "notFound", "noKind"}
    BY DEF Outcome
  <2>2. known' \subseteq Kinds
    BY <1>4 DEF InstallerInv, TypeOK
  <2>3. faults' \in 0 .. MaxFaults
    BY <1>1, BoundsAssumption DEF InstallerInv, TypeOK
  <2>4. seen' \subseteq {"found", "notFound", "noKind", "error"}
    BY <1>1, <2>1 DEF InstallerInv, TypeOK
  <2> HIDE DEF h
  <2>5. QED
    BY <1>1, <1>3, <2>2, <2>3, <2>4 DEF InstallerInv, TypeOK, cluster
<1>6. /\ pc \in {"checkCRDs", "awaitCRDs"} => /\ Rest(Tail(todo), CRDs) /\ h \in Kinds
                                              /\ Done(Tail(todo), CRDs) = Done(todo, CRDs) \cup {h}
      /\ pc = "checkResources" =>
            /\ Rest(Tail(todo), NonOlm(version))
            /\ Done(Tail(todo), NonOlm(version)) = Done(todo, NonOlm(version)) \cup {h}
      /\ pc = "checkAll" => Rest(Tail(todo), All(version))
  <2>1. /\ CRDs \in Seq(Objects) /\ NonOlm(version) \in Seq(Objects)
        /\ All(version) \in Seq(Objects) /\ \A k \in 1 .. Len(CRDs) : CRDs[k] \in Kinds
    BY <1>2, Manifests, Selections
  <2>2. /\ pc \in {"checkCRDs", "awaitCRDs"} => Rest(todo, CRDs)
        /\ pc = "checkResources" => Rest(todo, NonOlm(version))
        /\ pc = "checkAll" => Rest(todo, All(version))
    BY <1>1 DEF InstallerInv, StepsInv
  <2>3. QED
    BY <1>1, <1>2, <2>1, <2>2, TakeFirst
<1>7. StepsInv'
  BY <1>1, <1>2, <1>6 DEF InstallerInv, StepsInv, Making, AfterCRDs
<1>8. ClusterInv'
  BY <1>1 DEF InstallerInv, ClusterInv, Exists, cluster
<1>9. MakingInv'
  <2>1. KindOf[h] \in Kinds \cup {None} /\ None \notin served
        /\ \A c \in served : c \in Kinds /\ Exists(c)
    BY <1>3, Roles DEF InstallerInv, TypeOK, Exists
  <2>2. CASE pc = "checkCRDs"
    <3>1. KindOf[h] = None /\ known = {}
      BY <1>6, <2>2, Roles DEF InstallerInv, MakingInv
    <3>2. known' = {} /\ Mapped(h)
      BY <1>1, <2>1, <3>1 DEF Mapping, Mapped
    <3>3. Exists(h) => Outcome(h) = "found"
      BY <3>2 DEF Outcome
    <3>4. seen' \cap {"found", "error"} = {} =>
             seen \cap {"found", "error"} = {} /\ ~Exists(h)
      BY <1>1, <3>3
    <3>5. \A o \in Objects : Exists(o)' = Exists(o)
      BY <1>1 DEF Exists, cluster
    <3>6. pc' = "checkCRDs" /\ Done(todo', CRDs) = Done(todo, CRDs) \cup {h}
      BY <1>1, <1>6, <2>2
    <3> HIDE DEF h
    <3>7. seen' \cap {"found", "error"} = {} => \A o \in Done(todo, CRDs)' : ~Exists(o)'
      BY <1>1, <2>2, <3>4, <3>6 DEF InstallerInv, MakingInv, Exists, cluster
    <3>8. QED
      BY <3>2, <3>6, <3>7 DEF MakingInv, Making, AfterCRDs
  <2>3. CASE pc = "checkResources"
    <3>1. known = {} /\ \A c \in Kinds : ~Exists(c)
      BY <2>3 DEF InstallerInv, MakingInv
    <3>2. known' = {}
      BY <1>4, <2>1, <3>1
    <3>3. Exists(h) => Outcome(h) \in {"found", "noKind"}
      BY DEF Outcome
    <3>4. seen' \cap {"found", "error", "noKind"} = {} =>
             seen \cap {"found", "error", "noKind"} = {} /\ ~Exists(h)
      BY <1>1, <3>3
    <3>6. pc' = "checkResources" /\ version' = version
          /\ Done(todo', NonOlm(version)) = Done(todo, NonOlm(version)) \cup {h}
      BY <1>1, <1>6, <2>3
    <3> HIDE DEF h
    <3>7. seen' \cap {"found", "error", "noKind"} = {} =>
             \A o \in Done(todo', NonOlm(version)) : ~Exists(o)'
      BY <1>1, <2>3, <3>4, <3>6 DEF InstallerInv, MakingInv, Exists, cluster
    <3>8. \A c \in Kinds : ~Exists(c)'
      BY <1>1, <3>1 DEF Exists, cluster
    <3>9. QED
      BY <3>2, <3>6, <3>7, <3>8 DEF MakingInv, Making, AfterCRDs
  <2>4. CASE pc = "awaitCRDs"
    <3>1. \A c \in known' : Exists(c)
      BY <1>4, <2>1, <2>4 DEF InstallerInv, MakingInv, Making, AfterCRDs
    <3>2. QED
      BY <1>1, <2>4, <3>1 DEF InstallerInv, MakingInv, Making, AfterCRDs, Exists, cluster
  <2>5. CASE pc = "checkAll"
    BY <1>1, <2>5 DEF MakingInv, Making, AfterCRDs
  <2>6. QED
    BY <1>1, <2>2, <2>3, <2>4, <2>5
<1>10. RemovedInv'
  BY <1>1 DEF RemovedInv
<1>11. QED
  BY <1>5, <1>7, <1>8, <1>9, <1>10 DEF InstallerInv

\* What its lists hold belongs to OLM.
LEMMA Belongs ==
    ASSUME NEW v \in Versions, NEW t \in Seq(Objects)
    PROVE  /\ Done(t, CRDs) \subseteq Kinds
           /\ Done(t, Resources[v]) \subseteq ToSet(Resources[v])
           /\ Kinds \cup {Namespace, CSV} \cup Inside \cup ToSet(Resources[v]) \subseteq OLMs(v)
           /\ OLMs(v) \subseteq Objects
           /\ \A o \in Objects : KindOf[o] # None => o \in OLMs(v)
<1>1. Len(t) \in Nat
  BY LenProperties
<1>2. /\ DOMAIN CRDs = 1 .. Len(CRDs) /\ Len(CRDs) \in Nat
      /\ DOMAIN Resources[v] = 1 .. Len(Resources[v]) /\ Len(Resources[v]) \in Nat
  BY Manifests, LenProperties
<1>3. Done(t, CRDs) \subseteq Kinds /\ Done(t, Resources[v]) \subseteq ToSet(Resources[v])
  BY <1>1, <1>2 DEF Done, Kinds, ToSet
<1>4. ToSet(All(v)) = Kinds \cup ToSet(Resources[v]) /\ ToSet(Resources[v]) \subseteq Objects
  <2>1. Resources[v] \in Seq(Objects) /\ ToSet(All(v)) = Kinds \cup ToSet(Resources[v])
    BY Manifests
  <2>2. \A i \in DOMAIN Resources[v] : Resources[v][i] \in Objects
    BY <1>2, <2>1, ElementOfSeq
  <2>3. QED
    BY <2>1, <2>2 DEF ToSet
<1>5. QED
  BY <1>3, <1>4, Roles DEF OLMs

\* The namespace is the first thing of OLM's outside the CRDs' groups.
LEMMA NamespaceChecked ==
    ASSUME NEW v \in Versions PROVE Namespace \in ToSet(NonOlm(v))
<1>1. Namespace \in ToSet(Resources[v])
  BY NamespaceAssumption DEF ToSet
<1>2. QED
  BY <1>1, Selections, Roles

LEMMA StepNothingInstalled == ASSUME InstallerInv, NothingInstalled PROVE InstallerInv'
<1>1. /\ todo = <<>> /\ pc \in {"checkCRDs", "checkResources", "awaitCRDs", "checkAll"}
      /\ pc # "checkAll" => seen \cap {"found", "error", "noKind"} = {}
      /\ UNCHANGED <<op, version, known, runs, faults, cluster>>
  BY DEF NothingInstalled, Judged, Checking, HasInstalledResources, Errored
<1>2. version \in Versions /\ version' \in Versions \cup {None}
  BY <1>1 DEF InstallerInv, StepsInv
<1>3. faults' \in 0 .. MaxFaults /\ known' \subseteq Kinds
  BY <1>1 DEF InstallerInv, TypeOK
<1>4. CRDs \in Seq(Objects) /\ NonOlm(version) \in Seq(Objects)
  BY <1>2, Manifests, Selections
<1>5. CASE pc = "checkCRDs" /\ Goto("checkResources", NonOlm(version))
  <2>1. /\ TypeOK' /\ ClusterInv' /\ pc' = "checkResources" /\ todo' = NonOlm(version)
    BY <1>1, <1>2, <1>3, <1>4, <1>5, Went
  <2>2. Done(<<>>, CRDs) = Kinds
    BY <1>4, TakenAll DEF Kinds
  <2>3. known = {} /\ \A c \in Kinds : ~Exists(c)
    BY <1>1, <1>5, <2>2 DEF InstallerInv, MakingInv
  <2>4. Rest(NonOlm(version), NonOlm(version)) /\ Done(NonOlm(version), NonOlm(version)) = {}
    BY <1>4, TakeAll
  <2>5. StepsInv' /\ RemovedInv'
    BY <1>1, <1>2, <1>5, <2>1, <2>4 DEF InstallerInv, StepsInv, RemovedInv, Making, AfterCRDs
  <2>6. MakingInv'
    BY <1>1, <2>1, <2>3, <2>4 DEF MakingInv, Making, AfterCRDs, Exists, cluster
  <2>7. QED
    BY <2>1, <2>5, <2>6 DEF InstallerInv
<1>6. CASE pc = "checkResources" /\ Goto("createCRDs", CRDs)
  <2>1. /\ TypeOK' /\ ClusterInv' /\ pc' = "createCRDs" /\ todo' = CRDs
    BY <1>1, <1>2, <1>3, <1>4, <1>6, Went
  <2>2. Done(<<>>, NonOlm(version)) = ToSet(NonOlm(version))
    BY <1>4, TakenAll
  <2>3. /\ known = {} /\ \A c \in Kinds : ~Exists(c)
        /\ \A o \in ToSet(NonOlm(version)) : ~Exists(o)
    BY <1>1, <1>6, <2>2 DEF InstallerInv, MakingInv
  <2>4. \A o \in Objects : KindOf[o] # None => ~Exists(o)
    BY <2>3, Roles DEF InstallerInv, ClusterInv
  <2>5. \A o \in Inside \cup {Namespace} : ~Exists(o)
    BY <1>2, <2>3, NamespaceChecked DEF InstallerInv, ClusterInv
  <2>6. \A o \in ToSet(Resources[version]) : ~Exists(o)
    BY <1>2, <2>3, <2>4, Selections, Belongs DEF OLMs
  <2>7. \A o \in OLMs(version) : ~Exists(o)
    BY <1>2, <2>3, <2>4, <2>5, <2>6, Manifests DEF OLMs
  <2>8. Rest(CRDs, CRDs) /\ Done(CRDs, CRDs) = {}
    BY <1>4, TakeAll
  <2>9. StepsInv' /\ RemovedInv'
    BY <1>1, <1>2, <1>6, <2>1, <2>8 DEF InstallerInv, StepsInv, RemovedInv, Making, AfterCRDs
  <2>10. MakingInv'
    BY <1>1, <2>1, <2>3, <2>7, <2>8 DEF MakingInv, Making, AfterCRDs, Exists, cluster
  <2>11. QED
    BY <2>1, <2>9, <2>10 DEF InstallerInv
<1>7. CASE pc = "awaitCRDs" /\ Goto("awaitCRDs", CRDs)
  <2>1. /\ TypeOK' /\ ClusterInv' /\ pc' = "awaitCRDs" /\ todo' = CRDs
    BY <1>1, <1>2, <1>3, <1>4, <1>7, Went
  <2>2. Rest(CRDs, CRDs)
    BY <1>4, TakeAll
  <2>3. StepsInv' /\ RemovedInv'
    BY <1>1, <1>2, <1>7, <2>1, <2>2 DEF InstallerInv, StepsInv, RemovedInv, Making, AfterCRDs
  <2>4. MakingInv'
    BY <1>1, <1>7, <2>1 DEF InstallerInv, MakingInv, Making, AfterCRDs, Exists, cluster
  <2>5. QED
    BY <2>1, <2>3, <2>4 DEF InstallerInv
<1>8. CASE pc = "checkAll" /\ End("notInstalled")
  BY <1>1, <1>3, <1>8, Ended DEF Results
<1>9. QED
  BY <1>5, <1>6, <1>7, <1>8 DEF NothingInstalled

\* An uninstallation begins to delete.
LEMMA StartDeleting ==
    ASSUME InstallerInv, op = "uninstall", pc = "checkAll", Goto("delete", All(version)),
           UNCHANGED <<op, version, known, runs, faults, cluster>>
    PROVE  InstallerInv'
<1>1. version \in Versions /\ faults' \in 0 .. MaxFaults
  BY DEF InstallerInv, StepsInv, TypeOK
<1>2. All(version) \in Seq(Objects)
  BY <1>1, Manifests
<1>3. TypeOK' /\ ClusterInv' /\ pc' = "delete" /\ todo' = All(version)
  BY <1>1, <1>2, Went
<1>4. Rest(All(version), All(version)) /\ Done(All(version), All(version)) = {}
  BY <1>2, TakeAll
<1>5. StepsInv' /\ MakingInv' /\ RemovedInv'
  BY <1>1, <1>3, <1>4 DEF StepsInv, MakingInv, RemovedInv, Making, AfterCRDs
<1>6. QED
  BY <1>3, <1>5 DEF InstallerInv

LEMMA StepCheckFails == ASSUME InstallerInv, CheckFails PROVE InstallerInv'
<1>1. /\ pc \in {"checkCRDs", "checkResources", "awaitCRDs", "checkAll"}
      /\ UNCHANGED <<op, version, known, runs, faults, cluster>>
  BY DEF CheckFails, Judged, Checking
<1>2. CASE op = "uninstall"
  <2>1. pc = "checkAll"
    BY <1>1, <1>2 DEF InstallerInv, StepsInv, Making, AfterCRDs
  <2>2. QED
    BY <1>1, <1>2, <2>1, StartDeleting DEF CheckFails
<1>3. CASE op # "uninstall"
  <2>1. faults' \in 0 .. MaxFaults /\ known' \subseteq Kinds
    BY <1>1 DEF InstallerInv, TypeOK
  <2>2. QED
    BY <1>1, <1>3, <2>1, Ended DEF CheckFails, Results
<1>4. QED
  BY <1>2, <1>3

LEMMA StepSomethingInstalled == ASSUME InstallerInv, SomethingInstalled PROVE InstallerInv'
<1>1. /\ pc \in {"checkCRDs", "checkResources", "awaitCRDs", "checkAll"}
      /\ UNCHANGED <<op, version, known, runs, faults, cluster>>
  BY DEF SomethingInstalled, Judged, Checking
<1>2. version \in Versions /\ faults' \in 0 .. MaxFaults /\ known' \subseteq Kinds
  BY <1>1 DEF InstallerInv, TypeOK, StepsInv
<1>3. CASE pc = "awaitCRDs" /\ Goto("createResources", Resources[version])
  <2>1. Resources[version] \in Seq(Objects) /\ version' \in Versions \cup {None}
    BY <1>1, <1>2, Manifests
  <2>2. TypeOK' /\ ClusterInv' /\ pc' = "createResources" /\ todo' = Resources[version]
    BY <1>1, <1>2, <1>3, <2>1, Went
  <2>3. /\ Rest(Resources[version], Resources[version])
        /\ Done(Resources[version], Resources[version]) = {}
    BY <2>1, TakeAll
  <2>4. StepsInv' /\ RemovedInv'
    BY <1>1, <1>2, <1>3, <2>2, <2>3 DEF InstallerInv, StepsInv, RemovedInv, Making, AfterCRDs
  <2>5. MakingInv'
    BY <1>1, <1>3, <2>2, <2>3 DEF InstallerInv, MakingInv, Making, AfterCRDs, Exists, cluster
  <2>6. QED
    BY <2>2, <2>4, <2>5 DEF InstallerInv
<1>4. CASE op = "uninstall" /\ Goto("delete", All(version))
  <2>1. pc = "checkAll"
    BY <1>1, <1>4 DEF InstallerInv, StepsInv, Making, AfterCRDs
  <2>2. QED
    BY <1>1, <1>4, <2>1, StartDeleting
<1>5. CASE op = "status" /\ End("ok")
  BY <1>1, <1>2, <1>5, Ended DEF Results
<1>6. QED
  BY <1>3, <1>4, <1>5 DEF SomethingInstalled

\* The steps of an installation after its manifests are there.
LEMMA Advance ==
    ASSUME InstallerInv, NEW at \in {"operator", "catalog", "subscription", "csv", "server"},
           NEW list \in Seq(Objects), Goto(at, list),
           pc \in AfterCRDs \ {"awaitCRDs"}, \A o \in ToSet(Resources[version]) : Exists(o),
           at # "operator" => Running(Operator), at = "csv" => list # <<>>,
           at \in {"subscription", "csv", "server"} => Running(Catalog),
           UNCHANGED <<op, version, known, runs, faults, cluster>>
    PROVE  InstallerInv'
<1>1. version \in Versions /\ op = "install" /\ faults' \in 0 .. MaxFaults
  BY DEF InstallerInv, StepsInv, TypeOK, Making, AfterCRDs
<1>2. TypeOK' /\ ClusterInv' /\ pc' = at /\ todo' = list
  BY <1>1, Went
<1>3. StepsInv' /\ RemovedInv'
  BY <1>1, <1>2 DEF StepsInv, RemovedInv, Making, AfterCRDs
<1>4. MakingInv'
  <2>1. pc \in Making /\ pc \in AfterCRDs
    BY DEF Making, AfterCRDs
  <2>2. /\ \A o \in OLMs(version) : Exists(o) => objs[o] = version /\ o \notin dying
        /\ \A c \in known \cup Kinds : Exists(c)
    BY <2>1 DEF InstallerInv, MakingInv
  <2>3. QED
    BY <1>2, <2>2 DEF MakingInv, Making, AfterCRDs, Running, Exists, cluster
<1>5. QED
  BY <1>2, <1>3, <1>4 DEF InstallerInv

LEMMA StepCreated == ASSUME InstallerInv, Created PROVE InstallerInv'
<1>1. /\ pc \in {"createCRDs", "createResources"} /\ todo = <<>>
      /\ UNCHANGED <<op, version, known, runs, faults, cluster>>
  BY DEF Created, Creating
<1>2. /\ version \in Versions /\ version' \in Versions \cup {None}
      /\ op = "install" /\ faults' \in 0 .. MaxFaults
  BY <1>1 DEF InstallerInv, StepsInv, TypeOK, Making, AfterCRDs
<1>3. CRDs \in Seq(Objects) /\ Resources[version] \in Seq(Objects) /\ <<>> \in Seq(Objects)
  BY <1>2, Manifests, EmptySeq
<1>4. CASE pc = "createCRDs" /\ Goto("awaitCRDs", CRDs)
  <2>1. Done(<<>>, CRDs) = Kinds
    BY <1>3, TakenAll DEF Kinds
  <2>2. \A c \in Kinds : Exists(c)
    BY <1>1, <1>4, <2>1 DEF InstallerInv, MakingInv
  <2>3. TypeOK' /\ ClusterInv' /\ pc' = "awaitCRDs" /\ todo' = CRDs
    BY <1>1, <1>2, <1>3, <1>4, Went
  <2>4. Rest(CRDs, CRDs)
    BY <1>3, TakeAll
  <2>5. StepsInv' /\ RemovedInv'
    BY <1>1, <1>2, <2>3, <2>4 DEF StepsInv, RemovedInv, Making, AfterCRDs
  <2>6. MakingInv'
    BY <1>1, <1>4, <2>2, <2>3 DEF InstallerInv, MakingInv, Making, AfterCRDs, Exists, cluster
  <2>7. QED
    BY <2>3, <2>5, <2>6 DEF InstallerInv
<1>5. CASE pc = "createResources" /\ Goto("operator", <<>>)
  <2>1. Done(<<>>, Resources[version]) = ToSet(Resources[version])
    BY <1>3, TakenAll
  <2>2. \A o \in ToSet(Resources[version]) : Exists(o)
    BY <1>1, <1>5, <2>1 DEF InstallerInv, MakingInv
  <2>3. pc \in AfterCRDs \ {"awaitCRDs"}
    BY <1>5 DEF AfterCRDs
  <2>4. QED
    BY <1>1, <1>3, <1>5, <2>2, <2>3, Advance
<1>6. QED
  BY <1>1, <1>4, <1>5 DEF Created

LEMMA StepAdvance ==
    ASSUME InstallerInv,
           OperatorRolledOut \/ CatalogRolledOut \/ SubscriptionCSV \/ CSVSucceeded \/ Subscribed
    PROVE  InstallerInv'
<1>1. /\ pc \in {"operator", "catalog", "subscription", "csv"}
      /\ UNCHANGED <<op, version, known, runs, faults, cluster>>
  BY DEF OperatorRolledOut, CatalogRolledOut, RolledOut, SubscriptionCSV, CSVSucceeded, Subscribed
<1>2. version \in Versions /\ todo \in Seq(Objects)
  BY <1>1 DEF InstallerInv, StepsInv, TypeOK
<1>3. /\ pc \in AfterCRDs \ {"awaitCRDs"}
      /\ \A o \in ToSet(Resources[version]) : Exists(o)
      /\ pc # "operator" => Running(Operator)
      /\ pc \in {"subscription", "csv"} => Running(Catalog)
  BY <1>1 DEF InstallerInv, MakingInv, AfterCRDs
<1>4. CASE OperatorRolledOut
  BY <1>1, <1>3, <1>4, Advance, EmptySeq DEF OperatorRolledOut, RolledOut, Running
<1>5. CASE CatalogRolledOut
  <2>1. pc = "catalog" /\ Running(Catalog) /\ Goto("subscription", Subscriptions(version))
    BY <1>5 DEF CatalogRolledOut, RolledOut, Running
  <2>2. Subscriptions(version) \in Seq(Objects)
    BY <1>2, Selections
  <2>3. QED
    BY <1>1, <1>3, <2>1, <2>2, Advance
<1>6. CASE SubscriptionCSV
  BY <1>1, <1>2, <1>3, <1>6, Advance DEF SubscriptionCSV
<1>7. CASE CSVSucceeded
  <2>1. pc = "csv" /\ Goto("subscription", Tail(todo))
    BY <1>7 DEF CSVSucceeded
  <2>2. Tail(todo) \in Seq(Objects)
    BY <1>2, <2>1, HeadTailProperties DEF InstallerInv, StepsInv
  <2>3. QED
    BY <1>1, <1>3, <2>1, <2>2, Advance
<1>8. CASE Subscribed
  BY <1>1, <1>3, <1>8, Advance, EmptySeq DEF Subscribed
<1>9. QED
  BY <1>4, <1>5, <1>6, <1>7, <1>8

LEMMA StepCheckVersion == ASSUME InstallerInv, CheckVersion PROVE InstallerInv'
<1>1. /\ pc = "version" /\ op \in {"uninstall", "status"} /\ faults' \in 0 .. MaxFaults
      /\ UNCHANGED <<op, runs, cluster>> /\ known' \subseteq Kinds
  <2>1. faults' = faults \/ (faults < MaxFaults /\ faults' = faults + 1)
    BY DEF CheckVersion
  <2>2. known' = known \/ known' = Mapping(CSV)
    BY DEF CheckVersion
  <2>3. known' \subseteq Kinds
    BY <2>2 DEF Mapping, InstallerInv, TypeOK
  <2>4. QED
    BY <2>1, <2>3, BoundsAssumption DEF CheckVersion, InstallerInv, TypeOK, StepsInv
<1>2. InstalledVersion \in Versions \cup {None}
  BY Roles DEF InstalledVersion, InstallerInv, TypeOK
<1>3. CASE End("error") /\ UNCHANGED version
  BY <1>1, <1>3, Ended DEF Results
<1>4. ASSUME NEW target \in Versions, Goto("checkAll", All(target)), version' = target
      PROVE  InstallerInv'
  <2>1. All(target) \in Seq(Objects)
    BY <1>4, Manifests
  <2>2. TypeOK' /\ ClusterInv' /\ pc' = "checkAll" /\ todo' = All(target)
    <3>1. TypeOK'
      BY <1>1, <1>4, <2>1 DEF InstallerInv, TypeOK, Goto, cluster
    <3>2. ClusterInv'
      BY <1>1 DEF InstallerInv, ClusterInv, Exists, cluster
    <3>3. QED
      BY <1>4, <3>1, <3>2 DEF Goto
  <2>3. Rest(All(target), All(target))
    BY <2>1, TakeAll
  <2>4. StepsInv' /\ MakingInv' /\ RemovedInv'
    BY <1>1, <1>4, <2>2, <2>3 DEF StepsInv, MakingInv, RemovedInv, Making, AfterCRDs
  <2>5. QED
    BY <2>2, <2>4 DEF InstallerInv
<1>5. version \in Versions \cup {None}
  BY DEF InstallerInv, TypeOK
<1>6. QED
  BY <1>2, <1>3, <1>4, <1>5 DEF CheckVersion

LEMMA StepDelete == ASSUME InstallerInv, Delete PROVE InstallerInv'
<1> DEFINE h == Head(todo)
<1>1. /\ pc = "delete" /\ pc' = "gone" /\ todo # <<>> /\ known' = Mapping(h)
      /\ dying' = IF Exists(h) THEN dying \cup {h} ELSE dying
      /\ UNCHANGED <<op, version, todo, seen, result, runs, faults, objs, served, rollout,
                     phase, installed>>
  BY DEF Delete
<1>2. todo \in Seq(Objects) /\ h \in Objects
  BY <1>1, HeadTailProperties DEF InstallerInv, TypeOK
<1>3. known' \subseteq Kinds
  BY <1>1 DEF Mapping, InstallerInv, TypeOK
<1> HIDE DEF h
<1>4. TypeOK'
  BY <1>1, <1>2, <1>3 DEF InstallerInv, TypeOK, Exists
<1>5. StepsInv' /\ ClusterInv'
  BY <1>1 DEF InstallerInv, StepsInv, ClusterInv, Exists, Making, AfterCRDs
<1>6. MakingInv' /\ RemovedInv'
  BY <1>1 DEF InstallerInv, MakingInv, RemovedInv, Exists, Making, AfterCRDs
<1>7. QED
  BY <1>4, <1>5, <1>6 DEF InstallerInv

LEMMA StepAwaitGone == ASSUME InstallerInv, AwaitGone PROVE InstallerInv'
<1>1. /\ pc = "gone" /\ ~Exists(Head(todo)) /\ Goto("delete", Tail(todo))
      /\ UNCHANGED <<op, version, known, runs, faults, cluster>>
  BY DEF AwaitGone
<1>2. /\ todo \in Seq(Objects) /\ todo # <<>> /\ Rest(todo, All(version))
      /\ version \in Versions /\ op = "uninstall" /\ faults' \in 0 .. MaxFaults
  BY <1>1 DEF InstallerInv, TypeOK, StepsInv
<1>3. All(version) \in Seq(Objects)
  BY <1>2, Manifests
<1>4. /\ Tail(todo) \in Seq(Objects) /\ Rest(Tail(todo), All(version))
      /\ Done(Tail(todo), All(version)) = Done(todo, All(version)) \cup {Head(todo)}
  BY <1>2, <1>3, TakeFirst
<1>5. TypeOK' /\ ClusterInv' /\ pc' = "delete" /\ todo' = Tail(todo)
  BY <1>1, <1>2, <1>4, Went
<1>6. StepsInv' /\ MakingInv'
  BY <1>1, <1>2, <1>4, <1>5 DEF StepsInv, MakingInv, Making, AfterCRDs
<1>7. RemovedInv'
  <2>1. \A o \in Done(Tail(todo), All(version)) : ~Exists(o)
    BY <1>1, <1>4 DEF InstallerInv, RemovedInv
  <2>2. QED
    BY <1>1, <1>5, <2>1 DEF RemovedInv, Exists, cluster
<1>8. QED
  BY <1>5, <1>6, <1>7 DEF InstallerInv

LEMMA StepCreate == ASSUME InstallerInv, Create PROVE InstallerInv'
<1> DEFINE h == Head(todo)
           list == IF pc = "createCRDs" THEN CRDs ELSE Resources[version]
<1>1. /\ pc \in {"createCRDs", "createResources"} /\ todo # <<>> /\ Mapped(h)
      /\ objs' = [objs EXCEPT ![h] = IF objs[h] = None THEN version ELSE objs[h]]
      /\ todo' = Tail(todo) /\ known' = Mapping(h)
      /\ UNCHANGED <<op, version, pc, seen, result, runs, faults, dying, served, rollout,
                     phase, installed>>
  BY DEF Create, Creating
<1>2. version \in Versions /\ op = "install" /\ todo \in Seq(Objects) /\ Rest(todo, list)
  BY <1>1 DEF InstallerInv, StepsInv, TypeOK, Making, AfterCRDs
<1>3. list \in Seq(Objects)
  BY <1>2, Manifests
<1>4. \A o \in Done(todo, list) : Exists(o)
  BY <1>1 DEF InstallerInv, MakingInv
<1>5. /\ known \subseteq known' /\ known' \subseteq known \cup served
      /\ \A c \in known \cup served : c \in Kinds /\ Exists(c)
  BY <1>1 DEF Mapping, InstallerInv, TypeOK, MakingInv, Making, AfterCRDs, Exists
<1> HIDE DEF list
<1>6. /\ h \in Objects /\ Tail(todo) \in Seq(Objects) /\ Rest(Tail(todo), list)
      /\ Done(Tail(todo), list) = Done(todo, list) \cup {h}
      /\ \E k \in 1 .. Len(list) : h = list[k] /\ k = Len(list) - Len(todo) + 1
  BY <1>1, <1>2, <1>3, TakeFirst
<1>7. h \in Kinds \cup ToSet(Resources[version])
  <2>1. DOMAIN list = 1 .. Len(list)
    BY <1>3, LenProperties
  <2>2. QED
    BY <1>1, <1>6, <2>1 DEF list, Kinds, ToSet
<1>8. h \in Inside => Exists(Namespace)
  <2>1. SUFFICES ASSUME h \in Inside PROVE Exists(Namespace)
    OBVIOUS
  <2>2. pc = "createResources" /\ list = Resources[version]
    <3>1. CASE pc = "createCRDs"
      <4>1. list = CRDs /\ DOMAIN list = 1 .. Len(list)
        BY <1>3, <3>1, LenProperties DEF list
      <4>2. h \in Kinds
        BY <1>6, <4>1 DEF Kinds, ToSet
      <4>3. QED
        BY <2>1, <4>2, Roles
    <3>2. QED
      BY <1>1, <3>1 DEF list
  <2>3. DOMAIN list = 1 .. Len(list) /\ Len(list) \in Nat /\ Len(todo) \in Nat
    BY <1>2, <1>3, LenProperties
  <2>4. PICK k \in 1 .. Len(list) : h = list[k] /\ k = Len(list) - Len(todo) + 1
    BY <1>6
  <2>5. PICK j \in 1 .. k - 1 : list[j] = Namespace
    BY <1>2, <2>1, <2>2, <2>3, <2>4, NamespaceAssumption
  <2>6. j \in 1 .. Len(list) - Len(todo)
    BY <2>3, <2>4, <2>5
  <2>7. QED
    BY <1>4, <2>5, <2>6 DEF Done
<1> HIDE DEF h
<1>9. /\ objs' \in [Objects -> Versions \cup {None}] /\ objs'[h] # None
      /\ \A o \in Objects : o # h => objs'[o] = objs[o]
      /\ (objs[h] = None \/ objs'[h] = objs[h]) /\ (objs[h] # None \/ objs'[h] = version)
      /\ \A o \in Objects : Exists(o) => Exists(o)'
  BY <1>1, <1>2, <1>6, ManifestsAssumption DEF InstallerInv, TypeOK, Exists
<1>10. TypeOK'
  <2>1. known' \subseteq Kinds /\ todo' \in Seq(Objects)
    BY <1>1, <1>5, <1>6
  <2>2. dying' \subseteq {o \in Objects : objs'[o] # None}
    BY <1>1, <1>9 DEF InstallerInv, TypeOK, Exists
  <2>3. served' \subseteq {c \in Kinds : objs'[c] # None}
    BY <1>1, <1>9, Roles DEF InstallerInv, TypeOK, Exists
  <2>4. QED
    BY <1>1, <1>9, <2>1, <2>2, <2>3 DEF InstallerInv, TypeOK
<1>11. StepsInv' /\ RemovedInv'
  <2>1. pc' = pc /\ version' = version /\ op' = op /\ todo' = Tail(todo)
    BY <1>1
  <2>2. pc' \notin {"delete", "gone"}
    BY <1>1
  <2>3. /\ pc = "createCRDs" => Rest(todo', CRDs)
        /\ pc = "createResources" => Rest(todo', Resources[version])
    BY <1>1, <1>6 DEF list
  <2>4. QED
    BY <1>1, <1>2, <2>1, <2>3 DEF StepsInv, RemovedInv, Making, AfterCRDs
<1>12. ClusterInv'
  <2>1. KindOf[h] # None => Exists(KindOf[h])
    BY <1>1, <1>5 DEF Mapped
  <2>2. \A o \in Objects : Exists(o)' /\ KindOf[o] # None => Exists(KindOf[o])'
    BY <1>9, <2>1, Roles DEF InstallerInv, ClusterInv, Exists
  <2>3. \A o \in Inside : Exists(o)' => Exists(Namespace)'
    BY <1>8, <1>9, Roles DEF InstallerInv, ClusterInv, Exists
  <2>4. \A d \in Deployments : ~Exists(d)' => rollout'[d] = "progressing"
    BY <1>1, <1>9, Roles DEF InstallerInv, ClusterInv, Exists
  <2>5. QED
    BY <2>2, <2>3, <2>4 DEF ClusterInv
<1>13. MakingInv'
  <2>1. \A o \in OLMs(version) : Exists(o) => objs[o] = version /\ o \notin dying
    BY <1>1 DEF InstallerInv, MakingInv, Making, AfterCRDs
  <2>2. h \in OLMs(version) /\ OLMs(version) \subseteq Objects
    BY <1>2, <1>7, Belongs
  <2>3. \A o \in OLMs(version) : Exists(o)' => objs'[o] = version /\ o \notin dying
    <3>1. \A o \in dying : Exists(o)
      BY DEF InstallerInv, TypeOK, Exists
    <3>2. ASSUME NEW o \in OLMs(version), objs'[o] # None
          PROVE  objs'[o] = version /\ o \notin dying
      <4>1. CASE o = h
        BY <1>9, <2>1, <2>2, <3>1, <4>1 DEF Exists
      <4>2. CASE o # h
        BY <1>9, <2>1, <2>2, <3>1, <3>2, <4>2 DEF Exists
      <4>3. QED
        BY <4>1, <4>2
    <3>3. QED
      BY <3>2 DEF Exists
  <2>4. \A c \in known' : Exists(c)'
    BY <1>5, <1>9, Roles
  <2>5. \A o \in Done(Tail(todo), list) : Exists(o)'
    <3>1. Done(todo, list) \subseteq Objects
      BY <1>2, Belongs, Roles DEF list, OLMs
    <3>2. QED
      BY <1>4, <1>6, <1>9, <3>1 DEF Exists
  <2>6. pc = "createResources" => \A c \in Kinds : Exists(c)'
    BY <1>9, Roles DEF InstallerInv, MakingInv, AfterCRDs
  <2>7. /\ pc = "createCRDs" => \A o \in Done(todo', CRDs) : Exists(o)'
        /\ pc = "createResources" => \A o \in Done(todo', Resources[version]) : Exists(o)'
    BY <1>1, <2>5 DEF list
  <2>8. pc' = pc /\ version' = version /\ dying' = dying
    BY <1>1
  <2>9. /\ \A o \in OLMs(version') : Exists(o)' => objs'[o] = version' /\ o \notin dying'
        /\ pc' = "createCRDs" => \A o \in Done(todo', CRDs) : Exists(o)'
        /\ pc' = "createResources" => \A o \in Done(todo', Resources[version']) : Exists(o)'
        /\ pc' = "createResources" => \A c \in Kinds : Exists(c)'
    BY <2>3, <2>6, <2>7, <2>8
  <2>10. QED
    BY <1>1, <2>4, <2>8, <2>9 DEF MakingInv, Making, AfterCRDs
<1>14. QED
  BY <1>10, <1>11, <1>12, <1>13 DEF InstallerInv

----------------------------------------------------------------------------
(* Steps of the API server and of OLM                                      *)

\* Nothing of OLM is on its way out while it is being installed.
LEMMA NothingDying ==
    ASSUME InstallerInv, pc \in Making, NEW o \in dying PROVE o \notin OLMs(version)
BY DEF InstallerInv, TypeOK, MakingInv, Exists

\* The objects stay, and what works goes on working.
LEMMA ObjectsKept ==
    ASSUME InstallerInv, UNCHANGED <<command, objs>>,
           pc \in Making => \A o \in OLMs(version) : o \notin dying',
           Running(Operator) => Running(Operator)', Running(Catalog) => Running(Catalog)'
    PROVE  StepsInv' /\ MakingInv' /\ RemovedInv'
<1>1. /\ UNCHANGED <<op, version, pc, todo, seen, known, objs>>
      /\ \A o \in Objects : Exists(o)' = Exists(o)
  BY DEF command, Exists
<1>2. StepsInv' /\ RemovedInv'
  BY <1>1 DEF InstallerInv, StepsInv, RemovedInv, Exists
<1>3. MakingInv'
  BY <1>1 DEF InstallerInv, MakingInv, Exists
<1>4. QED
  BY <1>2, <1>3

LEMMA StepEstablish ==
    ASSUME InstallerInv, NEW c \in Kinds, Establish(c) PROVE InstallerInv'
<1>1. /\ Exists(c) /\ served' = served \cup {c}
      /\ UNCHANGED <<command, faults, objs, dying, rollout, phase, installed>>
  BY DEF Establish
<1>2. TypeOK'
  BY <1>1 DEF InstallerInv, TypeOK, command, Exists
<1>3. ClusterInv'
  BY <1>1 DEF InstallerInv, ClusterInv, Exists
<1>4. pc \in Making => \A o \in OLMs(version) : o \notin dying'
  BY <1>1, NothingDying
<1>5. StepsInv' /\ MakingInv' /\ RemovedInv'
  BY <1>1, <1>4, ObjectsKept DEF Running, Exists
<1>6. QED
  BY <1>2, <1>3, <1>5 DEF InstallerInv

LEMMA StepDeleteContents ==
    ASSUME InstallerInv, NEW c \in Kinds \cup {Namespace}, DeleteContents(c) PROVE InstallerInv'
<1>1. /\ c \in dying /\ dying' = dying \cup Contents(c)
      /\ UNCHANGED <<command, faults, objs, served, rollout, phase, installed>>
  BY DEF DeleteContents
<1>2. TypeOK'
  BY <1>1 DEF InstallerInv, TypeOK, command, Contents, Exists
<1>3. ClusterInv'
  BY <1>1 DEF InstallerInv, ClusterInv, Exists
<1>4. pc \notin Making
  BY <1>1, NothingDying DEF OLMs
<1>5. StepsInv' /\ MakingInv' /\ RemovedInv'
  BY <1>1, <1>4, ObjectsKept DEF Running, Exists
<1>6. QED
  BY <1>2, <1>3, <1>5 DEF InstallerInv

LEMMA StepRollOut ==
    ASSUME InstallerInv, NEW d \in Deployments, RollOut(d) PROVE InstallerInv'
<1>1. /\ Exists(d) /\ rollout[d] = "progressing"
      /\ \/ rollout' = [rollout EXCEPT ![d] = "complete"] /\ faults' = faults
         \/ /\ faults < MaxFaults /\ faults' = faults + 1
            /\ rollout' = [rollout EXCEPT ![d] = "timedOut"]
      /\ UNCHANGED <<command, objs, dying, served, phase, installed>>
  BY DEF RollOut
<1>2. faults' \in 0 .. MaxFaults
  BY <1>1, BoundsAssumption DEF InstallerInv, TypeOK
<1>3. /\ rollout' \in [Deployments -> {"progressing", "complete", "timedOut"}]
      /\ \A e \in Deployments : e # d => rollout'[e] = rollout[e]
  BY <1>1 DEF InstallerInv, TypeOK
<1>4. TypeOK'
  BY <1>1, <1>2, <1>3 DEF InstallerInv, TypeOK, command
<1>5. ClusterInv'
  BY <1>1, <1>3 DEF InstallerInv, ClusterInv, Exists
<1>6. \A e \in Deployments : Running(e) => Running(e)'
  BY <1>1, <1>3 DEF Running, Exists
<1>7. pc \in Making => \A o \in OLMs(version) : o \notin dying'
  BY <1>1, NothingDying
<1>8. StepsInv' /\ MakingInv' /\ RemovedInv'
  <2>1. (Running(Operator) => Running(Operator)') /\ (Running(Catalog) => Running(Catalog)')
    BY <1>6, Roles
  <2>2. QED
    BY <1>1, <1>7, <2>1, ObjectsKept
<1>9. QED
  BY <1>4, <1>5, <1>8 DEF InstallerInv

LEMMA StepFinishCSV == ASSUME InstallerInv, FinishCSV PROVE InstallerInv'
<1>1. /\ phase' \in {"Succeeded", "Failed"}
      /\ UNCHANGED <<command, faults, objs, dying, served, rollout, installed>>
  BY DEF FinishCSV
<1>2. TypeOK'
  BY <1>1 DEF InstallerInv, TypeOK, command
<1>3. ClusterInv'
  BY <1>1 DEF InstallerInv, ClusterInv, Exists
<1>4. pc \in Making => \A o \in OLMs(version) : o \notin dying'
  BY <1>1, NothingDying
<1>5. StepsInv' /\ MakingInv' /\ RemovedInv'
  BY <1>1, <1>4, ObjectsKept DEF Running, Exists
<1>6. QED
  BY <1>2, <1>3, <1>5 DEF InstallerInv

\* A CRD and the namespace go last of what they hold, and no part of an
\* installation under way goes.
LEMMA StepVanish == ASSUME InstallerInv, NEW o \in Objects, Vanish(o) PROVE InstallerInv'
<1>1. /\ o \in dying /\ Finalized(o) /\ objs' = [objs EXCEPT ![o] = None]
      /\ dying' = (dying \ {o}) \cup (IF o = CSV /\ Exists(Server) THEN {Server} ELSE {})
      /\ served' = served \ {o}
      /\ rollout' = IF o \in Deployments THEN [rollout EXCEPT ![o] = "progressing"] ELSE rollout
      /\ phase' = IF o = CSV THEN "none" ELSE phase
      /\ installed' \in BOOLEAN
      /\ UNCHANGED <<command, faults>>
  BY DEF Vanish
<1>2. /\ objs' \in [Objects -> Versions \cup {None}] /\ objs'[o] = None
      /\ \A x \in Objects : x # o => objs'[x] = objs[x]
  BY <1>1 DEF InstallerInv, TypeOK
<1>3. \A x \in dying' : x \in Objects /\ objs'[x] # None
  BY <1>1, <1>2, Roles DEF InstallerInv, TypeOK, Exists
<1>4. /\ rollout' \in [Deployments -> {"progressing", "complete", "timedOut"}]
      /\ \A d \in Deployments : IF d = o THEN rollout'[d] = "progressing"
                                          ELSE rollout'[d] = rollout[d]
  BY <1>1 DEF InstallerInv, TypeOK
<1>5. TypeOK'
  <2>1. served' \subseteq {c \in Kinds : objs'[c] # None}
    BY <1>1, <1>2, Roles DEF InstallerInv, TypeOK
  <2>2. phase' \in {"none", "Installing", "Succeeded", "Failed"}
    BY <1>1 DEF InstallerInv, TypeOK
  <2>3. QED
    BY <1>1, <1>2, <1>3, <1>4, <2>1, <2>2 DEF InstallerInv, TypeOK, command
<1>6. ClusterInv'
  <2>1. o \in Kinds \cup {Namespace} => Contents(o) = {}
    BY <1>1, Roles DEF Finalized
  <2>2. ASSUME NEW x \in Objects, objs'[x] # None, KindOf[x] # None
        PROVE  objs'[KindOf[x]] # None
    <3>1. x # o /\ Exists(x) /\ KindOf[x] \in Kinds /\ Exists(KindOf[x])
      BY <1>2, <2>2, Roles DEF InstallerInv, ClusterInv, Exists
    <3>2. KindOf[x] # o
      BY <2>1, <3>1 DEF Contents
    <3>3. QED
      BY <1>2, <3>1, <3>2, Roles DEF Exists
  <2>3. ASSUME NEW x \in Inside, objs'[x] # None
        PROVE  objs'[Namespace] # None
    <3>1. x # o /\ Exists(x) /\ x \in Objects /\ Exists(Namespace)
      BY <1>2, <2>3, Roles DEF InstallerInv, ClusterInv, Exists
    <3>2. Namespace # o
      BY <2>1, <3>1 DEF Contents
    <3>3. QED
      BY <1>2, <3>1, <3>2, Roles DEF Exists
  <2>4. ASSUME NEW d \in Deployments, objs'[d] = None
        PROVE  rollout'[d] = "progressing"
    BY <1>2, <1>4, <2>4, Roles DEF InstallerInv, ClusterInv, Exists
  <2>5. QED
    BY <2>2, <2>3, <2>4 DEF ClusterInv, Exists
<1>7. UNCHANGED <<op, version, pc, todo, seen, known>>
  BY <1>1 DEF command
<1>8. StepsInv'
  BY <1>7 DEF InstallerInv, StepsInv
<1>9. todo \in Seq(Objects) /\ (pc \notin {"idle", "version"} => version \in Versions)
  BY DEF InstallerInv, TypeOK, StepsInv
<1>10. \A x \in Objects : ~Exists(x) => ~Exists(x)'
  BY <1>2 DEF Exists
<1>11. RemovedInv'
  <2>1. ASSUME pc \in {"delete", "gone"}, NEW x \in Done(todo, All(version))
        PROVE  objs'[x] = None
    <3>1. ~Exists(x)
      BY <2>1 DEF InstallerInv, RemovedInv
    <3>2. QED
      BY <1>1, <3>1 DEF InstallerInv, TypeOK, Exists
  <2>2. QED
    BY <1>7, <2>1 DEF RemovedInv, Exists
<1>12. MakingInv'
  <2>1. CASE pc \in {"checkCRDs", "checkResources"}
    <3>1. \A x : objs[x] = None => objs'[x] = None
      BY <1>1 DEF InstallerInv, TypeOK
    <3>2. QED
      BY <1>7, <2>1, <3>1 DEF InstallerInv, MakingInv, Making, AfterCRDs, Exists
  <2>2. CASE pc \in Making
    <3>1. version \in Versions /\ o \notin OLMs(version)
      BY <1>1, <1>9, <2>2, NothingDying DEF Making, AfterCRDs
    <3>2. /\ OLMs(version) \subseteq Objects /\ CSV \in OLMs(version)
          /\ Kinds \cup ToSet(Resources[version]) \cup {Operator, Catalog} \subseteq OLMs(version)
      BY <1>9, <3>1, Belongs, Roles
    <3>3. \A x \in OLMs(version) : objs'[x] = objs[x] /\ x \notin dying'
      BY <1>1, <1>2, <2>2, <3>1, <3>2, NothingDying
    <3>4. /\ \A x \in OLMs(version) : objs'[x] # None => objs'[x] = version /\ x \notin dying'
          /\ \A c \in known : objs'[c] # None
      BY <2>2, <3>2, <3>3 DEF InstallerInv, TypeOK, MakingInv, Exists
    <3>5. /\ pc = "createCRDs" => \A x \in Done(todo, CRDs) : objs'[x] # None
          /\ pc = "createResources" =>
                \A x \in Done(todo, Resources[version]) : objs'[x] # None
      BY <1>9, <3>1, <3>2, <3>3, Belongs DEF InstallerInv, MakingInv, Exists
    <3>6. /\ pc \in AfterCRDs => \A c \in Kinds : objs'[c] # None
          /\ pc \in AfterCRDs \ {"awaitCRDs", "createResources"} =>
                \A x \in ToSet(Resources[version]) : objs'[x] # None
      BY <3>2, <3>3 DEF InstallerInv, MakingInv, Exists
    <3>7. /\ pc \in {"catalog", "subscription", "csv", "server"} => Running(Operator)'
          /\ pc \in {"subscription", "csv", "server"} => Running(Catalog)'
      <4>1. /\ rollout'[Operator] = rollout[Operator] /\ objs'[Operator] = objs[Operator]
            /\ rollout'[Catalog] = rollout[Catalog] /\ objs'[Catalog] = objs[Catalog]
        BY <1>4, <3>1, <3>2, <3>3, Roles
      <4>2. QED
        BY <4>1 DEF InstallerInv, MakingInv, Running, Exists
    <3>8. pc' \in Making
      BY <1>7, <2>2
    <3>9. QED
      BY <1>7, <3>4, <3>5, <3>6, <3>7, <3>8 DEF MakingInv, Making, AfterCRDs, Exists
  <2>3. CASE pc \notin {"checkCRDs", "checkResources"} \cup Making
    BY <1>7, <2>3 DEF MakingInv, Making, AfterCRDs
  <2>4. QED
    BY <2>1, <2>2, <2>3
<1>13. QED
  BY <1>5, <1>6, <1>8, <1>11, <1>12 DEF InstallerInv

\* An uninstallation deletes the CRDs before anything else.
LEMMA CRDsGoFirst ==
    ASSUME NEW v \in Versions, NEW t \in Seq(Objects),
           NEW o \in Done(t, All(v)), o \notin Kinds
    PROVE  Kinds \subseteq Done(t, All(v))
<1>1. PICK i \in 1 .. Len(All(v)) - Len(t) : o = All(v)[i]
  BY DEF Done
<1>2. /\ Len(t) \in Nat /\ Len(CRDs) \in Nat /\ Len(All(v)) \in Nat
      /\ \A k \in 1 .. Len(CRDs) : All(v)[k] = CRDs[k] /\ CRDs[k] \in Kinds
      /\ DOMAIN CRDs = 1 .. Len(CRDs)
  BY Manifests, LenProperties
<1>3. ~(i \in 1 .. Len(CRDs))
  BY <1>1, <1>2
<1>4. \A k \in 1 .. Len(CRDs) : k \in 1 .. Len(All(v)) - Len(t)
  BY <1>1, <1>2, <1>3
<1>5. QED
  BY <1>2, <1>4 DEF Done, Kinds, ToSet

\* What OLM makes needs the CRD of its CSV: nothing before an installation
\* creates that, nothing after an uninstallation has removed it.
LEMMA OLMMakes ==
    ASSUME InstallerInv, NEW x \in {CSV, Server}, NEW v \in Versions, ~Exists(x),
           Exists(KindOf[CSV]), Exists(Namespace), pc \in Making => v = version,
           objs' = [objs EXCEPT ![x] = v],
           phase' \in {"none", "Installing", "Succeeded", "Failed"}, installed' \in BOOLEAN,
           UNCHANGED <<command, faults, dying, served, rollout>>
    PROVE  InstallerInv'
<1>1. x \in Inside /\ x \in Objects /\ x \notin Kinds /\ KindOf[x] \in {None, KindOf[CSV]}
  BY Roles
<1>2. /\ objs' \in [Objects -> Versions \cup {None}] /\ objs'[x] = v /\ v # None
      /\ \A y \in Objects : y # x => objs'[y] = objs[y]
      /\ \A y : y # x => objs'[y] = objs[y]
  BY <1>1, ManifestsAssumption DEF InstallerInv, TypeOK
<1>3. UNCHANGED <<op, version, pc, todo, seen, known, result, runs>>
  BY DEF command
<1>4. \A y \in Objects : objs[y] # None => objs'[y] # None
  BY <1>2
<1>5. TypeOK'
  <2>1. /\ dying' \subseteq {y \in Objects : objs'[y] # None}
        /\ served' \subseteq {c \in Kinds : objs'[c] # None}
    BY <1>4, Roles DEF InstallerInv, TypeOK
  <2>2. QED
    BY <1>2, <1>3, <2>1 DEF InstallerInv, TypeOK
<1>6. ClusterInv'
  <2>1. ASSUME NEW y \in Objects, objs'[y] # None, KindOf[y] # None
        PROVE  objs'[KindOf[y]] # None
    <3>1. CASE y = x
      BY <1>1, <1>4, <2>1, <3>1, Roles DEF Exists
    <3>2. CASE y # x
      BY <1>2, <1>4, <2>1, <3>2, Roles DEF InstallerInv, ClusterInv, Exists
    <3>3. QED
      BY <3>1, <3>2
  <2>2. \A y \in Inside : objs'[y] # None => objs'[Namespace] # None
    BY <1>4, Roles DEF Exists
  <2>3. \A d \in Deployments : objs'[d] = None => rollout'[d] = "progressing"
    BY <1>4, Roles DEF InstallerInv, ClusterInv, Exists
  <2>4. QED
    BY <2>1, <2>2, <2>3 DEF ClusterInv, Exists
<1>7. StepsInv'
  BY <1>3 DEF InstallerInv, StepsInv
<1>8. todo \in Seq(Objects) /\ (pc \notin {"idle", "version"} => version \in Versions)
  BY DEF InstallerInv, TypeOK, StepsInv
<1>9. RemovedInv'
  <2>1. ASSUME pc \in {"delete", "gone"}, NEW y \in Done(todo, All(version))
        PROVE  objs'[y] = None
    <3>1. \A z \in Done(todo, All(version)) : ~Exists(z)
      BY <2>1 DEF InstallerInv, RemovedInv
    <3>2. y \in Kinds \/ Kinds \subseteq Done(todo, All(version))
      BY <1>8, <2>1, CRDsGoFirst
    <3>3. y \in Kinds
      BY <3>1, <3>2, Roles
    <3>4. QED
      BY <1>1, <1>2, <2>1, <3>1, <3>3 DEF Exists
  <2>2. QED
    BY <1>3, <2>1 DEF RemovedInv, Exists
<1>10. MakingInv'
  <2>1. CASE pc = "checkCRDs"
    <3>1. version \in Versions /\ x \notin Done(todo, CRDs)
      BY <1>1, <1>8, <2>1, Belongs
    <3>2. pc' = "checkCRDs" /\ known = {}
      BY <1>3, <2>1 DEF InstallerInv, MakingInv
    <3>3. seen \cap {"found", "error"} = {} => \A o \in Done(todo, CRDs) : objs'[o] = None
      BY <1>2, <2>1, <3>1 DEF InstallerInv, MakingInv, Exists
    <3>4. QED
      BY <1>3, <3>2, <3>3 DEF MakingInv, Making, AfterCRDs, Exists
  <2>2. CASE pc = "checkResources"
    BY <2>2, Roles DEF InstallerInv, MakingInv
  <2>3. CASE pc \in Making
    <3>1. version \in Versions
      BY <1>8, <2>3 DEF Making, AfterCRDs
    <3>2. /\ OLMs(version) \subseteq Objects /\ Kinds \cup ToSet(Resources[version]) \subseteq Objects
          /\ Done(todo, CRDs) \subseteq Objects /\ Done(todo, Resources[version]) \subseteq Objects
      BY <1>8, <3>1, Belongs
    <3>3. /\ \A o \in OLMs(version) : objs[o] # None => objs[o] = version /\ o \notin dying
          /\ \A c \in known : objs[c] # None /\ c \in Objects
          /\ x \notin dying
      BY <2>3, Roles DEF InstallerInv, TypeOK, MakingInv, Exists
    <3>4. /\ \A o \in OLMs(version) : objs'[o] # None => objs'[o] = version /\ o \notin dying
          /\ \A c \in known : objs'[c] # None
      BY <1>2, <1>4, <2>3, <3>2, <3>3
    <3>5. /\ pc = "createCRDs" => \A o \in Done(todo, CRDs) : objs'[o] # None
          /\ pc = "createResources" => \A o \in Done(todo, Resources[version]) : objs'[o] # None
          /\ pc \in AfterCRDs => \A c \in Kinds : objs'[c] # None
          /\ pc \in AfterCRDs \ {"awaitCRDs", "createResources"} =>
                \A o \in ToSet(Resources[version]) : objs'[o] # None
      BY <1>4, <3>2 DEF InstallerInv, MakingInv, Exists
    <3>6. \A d \in Deployments : Running(d) => Running(d)'
      BY <1>4, Roles DEF Running, Exists
    <3>7. /\ pc \in {"catalog", "subscription", "csv", "server"} => Running(Operator)'
          /\ pc \in {"subscription", "csv", "server"} => Running(Catalog)'
      BY <3>6, Roles DEF InstallerInv, MakingInv
    <3>8. pc' \in Making
      BY <1>3, <2>3
    <3>9. QED
      BY <1>3, <3>4, <3>5, <3>7, <3>8 DEF MakingInv, Making, AfterCRDs, Exists
  <2>4. CASE pc \notin {"checkCRDs", "checkResources"} \cup Making
    BY <1>3, <2>4 DEF MakingInv, Making, AfterCRDs
  <2>5. QED
    BY <2>1, <2>2, <2>3, <2>4
<1>11. QED
  BY <1>5, <1>6, <1>7, <1>9, <1>10 DEF InstallerInv

LEMMA StepInstallCSV ==
    ASSUME InstallerInv, NEW s \in Objects, InstallCSV(s) PROVE InstallerInv'
<1>1. /\ Running(Operator) /\ KindOf[s] # None /\ Exists(s) /\ KindOf[CSV] \in served /\ ~Exists(CSV)
      /\ objs' = [objs EXCEPT ![CSV] = objs[s]] /\ installed' = TRUE
      /\ UNCHANGED <<command, faults, dying, served, rollout, phase>>
  BY DEF InstallCSV
<1>2. objs[s] \in Versions /\ Exists(KindOf[CSV])
  BY <1>1 DEF InstallerInv, TypeOK, Exists
<1>3. Exists(Namespace)
  BY <1>1, Roles DEF Running, InstallerInv, ClusterInv
<1>4. pc \in Making => objs[s] = version
  BY <1>1 DEF InstallerInv, MakingInv, OLMs
<1>5. phase' \in {"none", "Installing", "Succeeded", "Failed"}
  BY <1>1 DEF InstallerInv, TypeOK
<1>6. QED
  BY <1>1, <1>2, <1>3, <1>4, <1>5, OLMMakes

LEMMA StepDeployServer == ASSUME InstallerInv, DeployServer PROVE InstallerInv'
<1>1. /\ Exists(CSV) /\ ~Exists(Server)
      /\ objs' = [objs EXCEPT ![Server] = objs[CSV]] /\ phase' = "Installing"
      /\ UNCHANGED <<command, faults, dying, served, rollout, installed>>
  BY DEF DeployServer
<1>2. objs[CSV] \in Versions /\ installed' \in BOOLEAN
  BY <1>1, Roles DEF InstallerInv, TypeOK, Exists
<1>3. Exists(KindOf[CSV]) /\ Exists(Namespace)
  BY <1>1, Roles DEF InstallerInv, ClusterInv
<1>4. pc \in Making => objs[CSV] = version
  BY <1>1, Roles DEF InstallerInv, MakingInv, OLMs
<1>5. QED
  BY <1>1, <1>2, <1>3, <1>4, OLMMakes

----------------------------------------------------------------------------
(* The theorems                                                            *)

LEMMA InitInstaller == ASSUME Init PROVE InstallerInv
<1>1. TypeOK
  <2>1. runs \in 0 .. MaxRuns /\ faults \in 0 .. MaxFaults
    BY BoundsAssumption DEF Init
  <2>2. todo \in Seq(Objects)
    BY EmptySeq DEF Init
  <2>3. rollout \in [Deployments -> {"progressing", "complete", "timedOut"}]
    BY DEF Init
  <2>4. QED
    BY <2>1, <2>2, <2>3 DEF Init, TypeOK
<1>2. StepsInv /\ MakingInv /\ RemovedInv
  BY DEF Init, StepsInv, MakingInv, RemovedInv, Making, AfterCRDs
<1>3. ClusterInv
  BY Roles DEF Init, ClusterInv, Exists
<1>4. QED
  BY <1>1, <1>2, <1>3 DEF InstallerInv

LEMMA StepInstaller == ASSUME InstallerInv, [Next]_vars PROVE InstallerInv'
<1>1. ASSUME \/ \E v \in Versions : Install(v)
             \/ \E v \in Versions \cup {None} : Uninstall(v) \/ Status(v)
      PROVE  InstallerInv'
  BY <1>1, StepStart
<1>2. ASSUME Proceed PROVE InstallerInv'
  BY <1>2, StepGet, StepStops, StepNothingInstalled, StepCheckFails, StepSomethingInstalled,
     StepCreate, StepCreated, StepAdvance, StepCheckVersion, StepDelete, StepAwaitGone
  DEF Proceed
<1>3. ASSUME Fails PROVE InstallerInv'
  BY <1>3, StepFails
<1>4. ASSUME APIServer PROVE InstallerInv'
  BY <1>4, StepEstablish, StepDeleteContents, StepVanish, StepRollOut DEF APIServer
<1>5. ASSUME OLM PROVE InstallerInv'
  BY <1>5, StepInstallCSV, StepDeployServer, StepFinishCSV DEF OLM
<1>6. ASSUME UNCHANGED vars PROVE InstallerInv'
  <2>1. UNCHANGED <<op, version, pc, todo, seen, known, result, runs, faults, objs, dying,
                    served, rollout, phase, installed>>
    BY <1>6 DEF vars, command, cluster
  <2>2. TypeOK' /\ StepsInv' /\ ClusterInv'
    BY <2>1 DEF InstallerInv, TypeOK, StepsInv, ClusterInv, Exists
  <2>3. MakingInv' /\ RemovedInv'
    BY <2>1 DEF InstallerInv, MakingInv, RemovedInv, Running, Exists
  <2>4. QED
    BY <2>2, <2>3 DEF InstallerInv
<1>7. QED
  BY <1>1, <1>2, <1>3, <1>4, <1>5, <1>6 DEF Next

\* Every reachable state satisfies the inductive invariant: what an installation
\* has found absent is absent until it creates it, and what an uninstallation has
\* removed stays away, whatever the API server and OLM do meanwhile.
THEOREM InstallerSound == Spec => []InstallerInv
BY InitInstaller, StepInstaller, PTL DEF Spec

\* Only these steps end a command well.
LEMMA EndsWell ==
    ASSUME InstallerInv, [Next]_vars, NEW o \in {"install", "uninstall"}, Ends(o, "ok")
    PROVE  (o = "install" /\ Installed) \/ (o = "uninstall" /\ Uninstalled)
<1>1. op = o /\ pc # "idle" /\ pc' = "idle" /\ result' = "ok"
  BY DEF Ends
<1>2. ~UNCHANGED pc
  BY <1>1
<1>3. /\ ~\E v \in Versions : Install(v)
      /\ ~\E v \in Versions \cup {None} : Uninstall(v) \/ Status(v)
      /\ ~Fails
  BY <1>1 DEF Install, Uninstall, Status, Start, Fails, End
<1>4. ~APIServer /\ ~OLM /\ ~UNCHANGED vars
  BY <1>2 DEF APIServer, OLM, Establish, DeleteContents, Vanish, RollOut, InstallCSV,
     DeployServer, FinishCSV, vars, command
<1>5. Proceed
  BY <1>3, <1>4 DEF Next
<1>6. ~(Get \/ Create \/ Delete \/ AwaitGone \/ Created)
  BY <1>1 DEF Get, Create, Delete, AwaitGone, Created, Goto
<1>7. ~(Refuse \/ NothingInstalled \/ CheckFails \/ SomethingInstalled)
  BY <1>1 DEF Refuse, NothingInstalled, CheckFails, SomethingInstalled, End, Goto
<1>8. ~(OperatorRolledOut \/ CatalogRolledOut \/ RolloutFails \/ SubscriptionCSV \/ CSVSucceeded
        \/ CSVFailed \/ Subscribed)
  BY <1>1 DEF OperatorRolledOut, CatalogRolledOut, RolledOut, RolloutFails, SubscriptionCSV,
     CSVSucceeded, CSVFailed, Subscribed, End, Goto
<1>9. ~(CheckVersion \/ DeleteUnmapped)
  BY <1>1 DEF CheckVersion, DeleteUnmapped, End, Goto
<1>10. Installed \/ Uninstalled
  BY <1>5, <1>6, <1>7, <1>8, <1>9 DEF Proceed
<1>11. (Installed => op = "install") /\ (Uninstalled => op = "uninstall")
  BY DEF Installed, Uninstalled, InstallerInv, StepsInv, Making, AfterCRDs
<1>12. QED
  BY <1>1, <1>10, <1>11

\* An installation that reports success has every object of its version, of that
\* version and not on its way out, and its deployments run.
THEOREM InstalledSound == Spec => InstalledAsAsked
<1> DEFINE AsAsked == Ends("install", "ok") =>
                        /\ \A i \in DOMAIN All(version) :
                              objs[All(version)[i]] = version /\ All(version)[i] \notin dying
                        /\ objs[Server] = version
                        /\ \A d \in Deployments : rollout[d] = "complete"
<1>1. ASSUME InstallerInv, [Next]_vars PROVE AsAsked
  <2>1. SUFFICES ASSUME Ends("install", "ok")
                 PROVE  /\ \A i \in DOMAIN All(version) :
                              objs[All(version)[i]] = version /\ All(version)[i] \notin dying
                        /\ objs[Server] = version
                        /\ \A d \in Deployments : rollout[d] = "complete"
    OBVIOUS
  <2>2. pc = "server" /\ Exists(Server) /\ rollout[Server] = "complete"
    BY <1>1, <2>1, EndsWell DEF Installed
  <2>3. version \in Versions /\ Running(Operator) /\ Running(Catalog)
    BY <1>1, <2>2 DEF InstallerInv, StepsInv, MakingInv
  <2>4. /\ \A o \in OLMs(version) : Exists(o) => objs[o] = version /\ o \notin dying
        /\ \A o \in Kinds \cup ToSet(Resources[version]) : Exists(o)
    BY <1>1, <2>2 DEF InstallerInv, MakingInv, Making, AfterCRDs
  <2>5. \A i \in DOMAIN All(version) : All(version)[i] \in Kinds \cup ToSet(Resources[version])
    <3>1. ToSet(All(version)) = Kinds \cup ToSet(Resources[version])
      BY <2>3, Manifests
    <3>2. QED
      BY <3>1 DEF ToSet
  <2>6. Kinds \cup ToSet(Resources[version]) \cup {Server} \subseteq OLMs(version)
    BY <2>3, Belongs, EmptySeq, Roles
  <2>7. QED
    BY <2>2, <2>3, <2>4, <2>5, <2>6 DEF Running, Deployments
<1>2. QED
  BY <1>1, InstallerSound, PTL DEF Spec, InstalledAsAsked

\* An uninstallation that reports success has removed every object of its version,
\* and OLM has not made one again.
THEOREM RemovedSound == Spec => NothingRemains
<1> DEFINE Removed == Ends("uninstall", "ok") =>
                        \A i \in DOMAIN All(version) : ~Exists(All(version)[i])
<1>1. ASSUME InstallerInv, [Next]_vars PROVE Removed
  <2>1. SUFFICES ASSUME Ends("uninstall", "ok")
                 PROVE  \A i \in DOMAIN All(version) : ~Exists(All(version)[i])
    OBVIOUS
  <2>2. pc = "delete" /\ todo = <<>>
    BY <1>1, <2>1, EndsWell DEF Uninstalled
  <2>3. version \in Versions /\ \A o \in Done(<<>>, All(version)) : ~Exists(o)
    BY <1>1, <2>2 DEF InstallerInv, StepsInv, RemovedInv
  <2>4. Done(<<>>, All(version)) = ToSet(All(version))
    BY <2>3, Manifests, TakenAll
  <2>5. QED
    BY <2>3, <2>4 DEF ToSet
<1>2. QED
  BY <1>1, InstallerSound, PTL DEF Spec, NothingRemains
=============================================================================
