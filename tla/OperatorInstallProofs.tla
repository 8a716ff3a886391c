----------------------- MODULE OperatorInstallProofs ------------------------
(***************************************************************************)
(* Proofs about OperatorInstall, for any bundles, index images, install    *)
(* modes and numbers of commands and failures: InstallInv is inductive, an *)
(* approved plan is a new one, a command that succeeds has done what it    *)
(* was asked, and a catalog source has its own registry pod and no other.  *)
(* ContentInv, inductive on top of it, follows the bundles of a file-based *)
(* catalog from the index image and the command through the ConfigMaps to  *)
(* the pod: the one that the catalog source names serves all of them.      *)
(***************************************************************************)
EXTENDS OperatorInstall, SequenceTheorems, FiniteSetTheorems, WellFoundedInduction, TLAPS

----------------------------------------------------------------------------
(* Sequences                                                               *)

\* What is a sequence of anything is one of its own elements.
LEMMA RangeSeq == ASSUME NEW S, NEW s \in Seq(S) PROVE IsSeq(s)
<1>1. DOMAIN s = 1 .. Len(s) /\ Len(s) \in Nat /\ s \in [1 .. Len(s) -> S]
  BY LenProperties
<1>2. s \in [1 .. Len(s) -> ToSet(s)]
  BY <1>1 DEF ToSet
<1>3. [1 .. Len(s) -> ToSet(s)] \in {[1 .. n -> ToSet(s)] : n \in Nat}
  BY <1>1
<1>4. s \in Seq(ToSet(s))
  BY <1>2, <1>3, SeqDef
<1>5. QED
  BY <1>4 DEF IsSeq

LEMMA SeqLen ==
    ASSUME NEW s, IsSeq(s)
    PROVE  Len(s) \in Nat /\ DOMAIN s = 1 .. Len(s)
BY DEF IsSeq

LEMMA NoItems == IsSeq(<<>>)
BY RangeSeq, EmptySeq

LEMMA OneItem == ASSUME NEW x PROVE IsSeq(<<x>>) /\ <<x>> # <<>>
<1>1. <<x>> \in Seq({x})
  OBVIOUS
<1>2. QED
  BY <1>1, RangeSeq

LEMMA AppendSeq ==
    ASSUME NEW s, IsSeq(s), NEW x
    PROVE  /\ IsSeq(Append(s, x)) /\ Append(s, x) # <<>>
           /\ Len(Append(s, x)) = Len(s) + 1
           /\ Append(s, x)[Len(s) + 1] = x
           /\ \A i \in 1 .. Len(s) : Append(s, x)[i] = s[i]
<1> DEFINE S == ToSet(s) \cup {x}
           t == Append(s, x)
<1>1. s \in Seq(S)
  BY DEF IsSeq
<1>2. /\ t \in Seq(S) /\ Len(t) = Len(s) + 1 /\ t # <<>> /\ t[Len(s) + 1] = x
      /\ \A i \in 1 .. Len(s) : t[i] = s[i]
  BY <1>1
<1>3. QED
  BY <1>2, RangeSeq

LEMMA UpdateSeq ==
    ASSUME NEW s, IsSeq(s), NEW i \in 1 .. Len(s), NEW x
    PROVE  /\ IsSeq([s EXCEPT ![i] = x])
           /\ Len([s EXCEPT ![i] = x]) = Len(s)
           /\ \A j \in 1 .. Len(s) : [s EXCEPT ![i] = x][j] = IF j = i THEN x ELSE s[j]
<1> DEFINE S == ToSet(s) \cup {x}
<1>1. s \in Seq(S) /\ x \in S
  BY DEF IsSeq
<1> HIDE DEF S
<1>2. /\ [s EXCEPT ![i] = x] \in Seq(S) /\ Len([s EXCEPT ![i] = x]) = Len(s)
      /\ \A j \in 1 .. Len(s) : [s EXCEPT ![i] = x][j] = IF j = i THEN x ELSE s[j]
  BY <1>1, ExceptSeq, SeqLen
<1>3. QED
  BY <1>2, RangeSeq

----------------------------------------------------------------------------
(* Steps that leave the catalog source, its pods, the subscription and the *)
(* install plans alone                                                     *)

known == <<catsrc, pods, sub, plans>>

\* The registry of package manifests, ConfigMaps, operator groups and CSVs are
\* not what InstallInv is about.
LEMMA Unaffected ==
    ASSUME InstallInv, UNCHANGED <<op, pc, arg, faults, known>>
    PROVE  InstallInv'
BY DEF InstallInv, ShapeInv, StepsInv, PlanInv, SourceInv, OwnPodsInv, PodOfSource, OwnPod,
       known

\* A command may stop anywhere, once it failed; else when it leaves no pod
\* besides the one that the catalog source names.
LEMMA Ended ==
    ASSUME InstallInv, UNCHANGED <<op, arg, known>>, pc' = "idle", faults' \in Nat,
           faults' = 0 => /\ faults = 0
                          /\ pc \in Making => ~OwnPod(arg.bundle)
                          /\ pc \in {"old", "gone"} => ~OwnPod(arg.old)
    PROVE  InstallInv'
<1>1. ShapeInv'
  BY DEF InstallInv, ShapeInv, known
<1>2. StepsInv'
  BY DEF InstallInv, StepsInv, known
<1>3. PlanInv'
  BY DEF InstallInv, PlanInv, Subscribed, known
<1>4. SourceInv'
  BY DEF InstallInv, SourceInv, PodOfSource, Attached, Making, known
<1>5. OwnPodsInv'
  BY DEF InstallInv, OwnPodsInv, OwnPod, Making, known
<1>6. QED
  BY <1>1, <1>2, <1>3, <1>4, <1>5 DEF InstallInv

LEMMA StepFails == ASSUME InstallInv, Fails PROVE InstallInv'
BY Ended DEF Fails, End, cluster, known, InstallInv, ShapeInv

LEMMA StepInstalledCSV == ASSUME InstallInv, InstalledCSV PROVE InstallInv'
BY Ended DEF InstalledCSV, End, cluster, known, InstallInv, ShapeInv, Making

LEMMA StepAwaitPod == ASSUME InstallInv, AwaitPod PROVE InstallInv'
<1>1. CASE pods[arg.bundle] = NoPod
  BY <1>1, Ended DEF AwaitPod, End, cluster, known, InstallInv, ShapeInv, Making, OwnPod
<1>2. CASE pods[arg.bundle] # NoPod
  <2>1. /\ pc = "running" /\ pc' = "link" /\ pods[arg.bundle].phase = "Running"
        /\ UNCHANGED <<op, arg, faults, known>>
    BY <1>2 DEF AwaitPod, Goto, cluster, known
  <2>2. ShapeInv' /\ StepsInv' /\ PlanInv'
    BY <2>1 DEF InstallInv, ShapeInv, StepsInv, PlanInv, Attached, Subscribed, known
  <2>3. SourceInv' /\ OwnPodsInv'
    BY <2>1 DEF InstallInv, SourceInv, OwnPodsInv, PodOfSource, OwnPod, Attached, Making, known
  <2>4. QED
    BY <2>2, <2>3 DEF InstallInv
<1>3. QED
  BY <1>1, <1>2

LEMMA StepAwaitGone == ASSUME InstallInv, AwaitGone PROVE InstallInv'
<1>1. /\ pc = "gone" /\ pc' = "plan" /\ pods[arg.old] = NoPod
      /\ UNCHANGED <<op, arg, faults, known>>
  BY DEF AwaitGone, Goto, cluster, known
<1>2. op = "upgrade"
  BY <1>1 DEF InstallInv, StepsInv, Attached
<1>3. ShapeInv' /\ StepsInv' /\ PlanInv'
  BY <1>1, <1>2 DEF InstallInv, ShapeInv, StepsInv, PlanInv, Attached, Subscribed, known
<1>4. SourceInv' /\ OwnPodsInv'
  BY <1>1, <1>2 DEF InstallInv, SourceInv, OwnPodsInv, PodOfSource, OwnPod, Attached, Making,
                    known
<1>5. QED
  BY <1>3, <1>4 DEF InstallInv

\* The steps of the package manifests registry, up to its link.
Registering == {"registry", "stale", "data", "deployment", "service", "rollout"}

LEMMA Registers ==
    ASSUME InstallInv, pc \in Registering, pc' \in Registering \cup {"link"},
           UNCHANGED <<op, arg, faults, known>>
    PROVE  InstallInv'
<1>1. op = "manifests"
  BY DEF InstallInv, StepsInv, Attached, Registering
<1>2. ShapeInv' /\ StepsInv' /\ PlanInv'
  BY <1>1 DEF InstallInv, ShapeInv, StepsInv, PlanInv, Attached, Subscribed, Registering, known
<1>3. SourceInv' /\ OwnPodsInv'
  BY <1>1 DEF InstallInv, SourceInv, OwnPodsInv, PodOfSource, OwnPod, Attached, Making,
              Registering, known
<1>4. QED
  BY <1>2, <1>3 DEF InstallInv

LEMMA StepRegistry ==
    ASSUME InstallInv,
           CheckRegistry \/ DeleteStale \/ CreateData \/ CreateDeployment \/ CreateService
             \/ AwaitRollout
    PROVE  InstallInv'
<1>1. /\ pc \in Registering /\ pc' \in Registering \cup {"link"}
      /\ UNCHANGED <<op, arg, faults, known>>
  BY DEF CheckRegistry, DeleteStale, CreateData, CreateDeployment, CreateService, CreateObject,
         AwaitRollout, Goto, cluster, known, Registering
<1>2. QED
  BY <1>1, Registers

LEMMA StepEnsureOperatorGroup == ASSUME InstallInv, EnsureOperatorGroup PROVE InstallInv'
<1>1. /\ pc = "group" /\ pc' \in {"idle", "subscribe"}
      /\ UNCHANGED <<op, arg, faults, known>>
  BY DEF EnsureOperatorGroup, Goto, End, known
<1>2. CASE pc' = "idle"
  BY <1>1, <1>2, Ended DEF InstallInv, ShapeInv, Making
<1>3. CASE pc' = "subscribe"
  <2>1. ShapeInv' /\ StepsInv' /\ PlanInv'
    BY <1>1, <1>3 DEF InstallInv, ShapeInv, StepsInv, PlanInv, Attached, Subscribed, known
  <2>2. SourceInv' /\ OwnPodsInv'
    BY <1>1, <1>3 DEF InstallInv, SourceInv, OwnPodsInv, PodOfSource, OwnPod, Attached, Making,
                      known
  <2>3. QED
    BY <2>1, <2>2 DEF InstallInv
<1>4. QED
  BY <1>1, <1>2, <1>3

LEMMA StepWaitForInstallPlan == ASSUME InstallInv, WaitForInstallPlan PROVE InstallInv'
<1>1. /\ pc = "plan" /\ pc' = "approve" /\ sub.plan # arg.plan
      /\ arg' = [arg EXCEPT !.ref = sub.plan] /\ UNCHANGED <<op, faults, known>>
  BY DEF WaitForInstallPlan, cluster, known
<1>2. /\ DOMAIN arg' = DOMAIN NoArg /\ arg'.ref = sub.plan /\ arg'.bundle = arg.bundle
      /\ arg'.items = arg.items /\ arg'.index = arg.index /\ arg'.channel = arg.channel
      /\ arg'.old = arg.old /\ arg'.plan = arg.plan
  <2>1. DOMAIN arg = DOMAIN NoArg
    BY DEF InstallInv, ShapeInv
  <2>2. QED
    BY <1>1, <2>1 DEF NoArg
<1>3. ShapeInv' /\ StepsInv'
  BY <1>1, <1>2 DEF InstallInv, ShapeInv, StepsInv, Attached, known
<1>4. PlanInv'
  <2>1. sub.exists /\ sub.channel = arg.channel /\ arg.plan <= sub.plan
    BY <1>1 DEF InstallInv, PlanInv, Subscribed
  <2>2. arg.plan \in Nat /\ Len(plans) \in Nat /\ sub.plan \in 0 .. Len(plans)
        /\ DOMAIN plans = 1 .. Len(plans)
    BY SeqLen DEF InstallInv, ShapeInv
  <2>3. arg.plan < sub.plan /\ sub.plan \in DOMAIN plans
    BY <1>1, <2>1, <2>2
  <2>4. QED
    BY <1>1, <1>2, <2>1, <2>3 DEF InstallInv, PlanInv, Subscribed, known
<1>5. SourceInv' /\ OwnPodsInv'
  BY <1>1, <1>2 DEF InstallInv, SourceInv, OwnPodsInv, PodOfSource, OwnPod, Attached, Making,
                    known
<1>6. QED
  BY <1>3, <1>4, <1>5 DEF InstallInv

----------------------------------------------------------------------------
(* Steps of a command that change the catalog source, its pods, the        *)
(* subscription or the install plans                                       *)

LEMMA StepCreateSource == ASSUME InstallInv, CreateSource PROVE InstallInv'
<1>1. pc = "source" /\ UNCHANGED <<op, arg, faults, pods, sub, plans>>
  BY DEF CreateSource, Goto, End
<1>2. CASE catsrc.exists
  BY <1>1, <1>2, Ended DEF CreateSource, End, known, InstallInv, ShapeInv, Making
<1>3. CASE ~catsrc.exists
  <2>1. /\ catsrc' = [NoSource(catsrc.uid + 1) EXCEPT !.exists = TRUE]
        /\ pc' = IF op = "bundle" THEN "maps" ELSE "registry"
    BY <1>3 DEF CreateSource, Goto
  <2>2. /\ DOMAIN catsrc' = DOMAIN NoSource(0) /\ catsrc'.exists
        /\ catsrc'.uid = catsrc.uid + 1 /\ catsrc'.pod = None /\ catsrc'.items = <<>>
    BY <2>1 DEF NoSource
  <2>3. op \in {"bundle", "manifests"}
    BY <1>1 DEF InstallInv, StepsInv, Attached
  <2>4. ShapeInv'
    BY <1>1, <2>1, <2>2, NoItems DEF InstallInv, ShapeInv, NoSource
  <2>5. StepsInv' /\ PlanInv'
    BY <1>1, <2>1, <2>2, <2>3 DEF InstallInv, StepsInv, PlanInv, Attached, Subscribed
  <2>6. SourceInv'
    BY <1>1, <2>1, <2>2, <2>3, BundleAssumption DEF SourceInv, PodOfSource, Attached, Making
  <2>7. OwnPodsInv'
    <3>1. catsrc.uid \in Nat
      BY DEF InstallInv, ShapeInv
    <3>2. \A b \in Bundles : pods[b] # NoPod =>
            pods[b].uid \in 0 .. catsrc.uid + 1 /\ pods[b].uid # catsrc.uid + 1
      BY <3>1 DEF InstallInv, OwnPodsInv
    <3>3. QED
      BY <1>1, <2>2, <3>2 DEF OwnPodsInv, OwnPod
  <2>8. QED
    BY <2>4, <2>5, <2>6, <2>7 DEF InstallInv
<1>4. QED
  BY <1>2, <1>3

LEMMA StepCreateConfigMap == ASSUME InstallInv, CreateConfigMap PROVE InstallInv'
<1>1. pc = "maps" /\ UNCHANGED <<op, faults, known>>
  BY DEF CreateConfigMap, Goto, known
<1>2. op \in {"bundle", "upgrade"}
  BY <1>1 DEF InstallInv, StepsInv, Attached
<1>3. /\ pc' \in {"maps", "pod"} /\ DOMAIN arg' = DOMAIN NoArg
      /\ arg'.bundle = arg.bundle /\ arg'.items = arg.items /\ arg'.index = arg.index
      /\ arg'.channel = arg.channel /\ arg'.old = arg.old /\ arg'.plan = arg.plan
  <2>1. DOMAIN arg = DOMAIN NoArg
    BY DEF InstallInv, ShapeInv
  <2>2. CASE arg.docs = <<>>
    BY <1>1, <2>1, <2>2 DEF CreateConfigMap, Goto
  <2>3. CASE arg.docs # <<>>
    <3>1. pc' = pc /\ \E i, d : arg' = [arg EXCEPT !.written = i, !.docs = d]
      BY <2>3 DEF CreateConfigMap
    <3>2. QED
      BY <1>1, <2>1, <3>1 DEF NoArg
  <2>4. QED
    BY <2>2, <2>3
<1>4. ShapeInv' /\ StepsInv' /\ PlanInv'
  BY <1>1, <1>2, <1>3 DEF InstallInv, ShapeInv, StepsInv, PlanInv, Attached, Subscribed, known
<1>5. SourceInv' /\ OwnPodsInv'
  BY <1>1, <1>2, <1>3 DEF InstallInv, SourceInv, OwnPodsInv, PodOfSource, OwnPod, Attached,
                          Making, known
<1>6. QED
  BY <1>4, <1>5 DEF InstallInv

LEMMA StepCreatePod == ASSUME InstallInv, CreatePod PROVE InstallInv'
<1>1. /\ pc = "pod" /\ UNCHANGED <<op, arg, faults, catsrc, sub, plans>>
      /\ op \in {"bundle", "upgrade"} /\ arg.bundle \in Bundles /\ DOMAIN pods = Bundles
      /\ catsrc.exists /\ catsrc.uid \in Nat
  BY DEF CreatePod, Goto, End, InstallInv, ShapeInv, StepsInv, Attached
<1>2. CASE pods[arg.bundle] # NoPod
  BY <1>1, <1>2, Ended DEF CreatePod, End, known, InstallInv, ShapeInv, Making
<1>3. CASE pods[arg.bundle] = NoPod
  <2>1. pods' = [pods EXCEPT ![arg.bundle] = NewPod] /\ pc' = "running"
    BY <1>3 DEF CreatePod, Goto
  <2>2. /\ DOMAIN pods' = Bundles /\ pods'[arg.bundle] = NewPod
        /\ \A b \in Bundles : b # arg.bundle => pods'[b] = pods[b]
    BY <1>1, <2>1
  <2>3. /\ DOMAIN NewPod = DOMAIN NoPod /\ NewPod.uid = catsrc.uid
        /\ NewPod.items = arg.items /\ NewPod.index = arg.index /\ NewPod.phase = "Pending"
    BY DEF NewPod, NoPod
  <2>4. catsrc.pod \in Bundles => catsrc.pod # arg.bundle
    BY <1>1, <1>3, NamesAssumption DEF InstallInv, SourceInv, PodOfSource, NoPod
  <2>5. ShapeInv'
    BY <1>1, <2>2, <2>3 DEF InstallInv, ShapeInv
  <2>6. StepsInv' /\ PlanInv'
    BY <1>1, <2>1 DEF InstallInv, StepsInv, PlanInv, Attached, Subscribed
  <2>7. SourceInv'
    BY <1>1, <2>1, <2>2, <2>3, <2>4 DEF InstallInv, SourceInv, PodOfSource, Attached, Making
  <2>8. OwnPodsInv'
    <3>1. catsrc.uid \in 0 .. catsrc.uid
      BY <1>1
    <3>2. QED
      BY <1>1, <2>1, <2>2, <2>3, <3>1 DEF InstallInv, OwnPodsInv, OwnPod, Making
  <2>9. QED
    BY <2>5, <2>6, <2>7, <2>8 DEF InstallInv
<1>4. QED
  BY <1>2, <1>3

LEMMA StepLinkSource == ASSUME InstallInv, LinkSource PROVE InstallInv'
<1>1. pc = "link" /\ catsrc.exists /\ UNCHANGED <<op, arg, faults, pods, sub, plans>>
  BY DEF LinkSource, Link, Goto, End, InstallInv, StepsInv
<1>2. /\ catsrc' = IF op = "manifests" THEN [catsrc EXCEPT !.pod = "service"]
                   ELSE [catsrc EXCEPT !.pod = arg.bundle, !.index = arg.index,
                            !.items = arg.items, !.image = IF op = "upgrade" THEN None ELSE @]
      /\ pc' = IF op # "upgrade" THEN "group" ELSE IF arg.old = None THEN "plan" ELSE "old"
  BY <1>1 DEF LinkSource, Link, Goto
<1>3. pc' = IF op # "upgrade" THEN "group" ELSE IF arg.old = None THEN "plan" ELSE "old"
  BY <1>2
<1>4. /\ DOMAIN catsrc' = DOMAIN NoSource(0) /\ catsrc'.exists /\ catsrc'.uid = catsrc.uid
      /\ op = "manifests" => catsrc'.pod = "service" /\ catsrc'.items = catsrc.items
      /\ op # "manifests" => /\ catsrc'.pod = arg.bundle /\ catsrc'.items = arg.items
                             /\ catsrc'.index = arg.index
  <2>1. DOMAIN catsrc = DOMAIN NoSource(0)
    BY DEF InstallInv, ShapeInv
  <2>2. QED
    BY <1>1, <1>2, <2>1 DEF NoSource
<1>5. op # "manifests" => /\ arg.bundle \in Bundles /\ arg.items # <<>> /\ IsSeq(arg.items)
                          /\ op # "upgrade" => catsrc.pod \notin Bundles
                          /\ arg.bundle # catsrc.pod /\ pods[arg.bundle].uid = catsrc.uid
                          /\ pods[arg.bundle].items = arg.items
                          /\ pods[arg.bundle].index = arg.index
                          /\ pods[arg.bundle].phase = "Running"
  BY <1>1 DEF InstallInv, ShapeInv, StepsInv, SourceInv, Attached, Making
<1>6. op = "manifests" => catsrc.pod \notin Bundles /\ catsrc.items = <<>>
  BY <1>1 DEF InstallInv, SourceInv, Attached
<1>7. op = "upgrade" => arg.old = IF catsrc.pod \in Bundles THEN catsrc.pod ELSE None
  BY <1>1 DEF InstallInv, SourceInv, Making
<1>8. op \in {"bundle", "upgrade", "manifests"}
  BY <1>1 DEF InstallInv, StepsInv
<1>9. ShapeInv'
  BY <1>1, <1>4, <1>5, <1>6, <1>8 DEF InstallInv, ShapeInv
<1>10. StepsInv' /\ PlanInv'
  BY <1>1, <1>3, <1>4, <1>5, <1>8 DEF InstallInv, StepsInv, PlanInv, Attached, Subscribed
<1>11. SourceInv'
  <2>1. PodOfSource'
    BY <1>1, <1>4, <1>5, <1>8, NamesAssumption DEF PodOfSource
  <2>2. QED
    BY <1>1, <1>3, <1>4, <1>5, <1>6, <1>7, <1>8, <2>1, NamesAssumption, BundleAssumption
       DEF SourceInv, Attached, Making
<1>12. OwnPodsInv'
  BY <1>1, <1>3, <1>4, <1>5, <1>6, <1>7, <1>8, BundleAssumption
     DEF InstallInv, OwnPodsInv, OwnPod, Making
<1>13. QED
  BY <1>9, <1>10, <1>11, <1>12 DEF InstallInv

LEMMA StepDeleteOld == ASSUME InstallInv, DeleteOld PROVE InstallInv'
<1>1. /\ pc = "old" /\ UNCHANGED <<op, arg, faults, catsrc, sub, plans>> /\ op = "upgrade"
      /\ catsrc.pod = arg.bundle /\ arg.old \in Bundles \ {arg.bundle}
  BY DEF DeleteOld, Goto, End, InstallInv, StepsInv, SourceInv, Attached
<1>2. CASE pods[arg.old] = NoPod
  BY <1>1, <1>2, Ended DEF DeleteOld, End, known, InstallInv, ShapeInv, Making, OwnPod
<1>3. CASE pods[arg.old] # NoPod
  <2>1. pods' = [pods EXCEPT ![arg.old].phase = "Terminating"] /\ pc' = "gone"
    BY <1>3 DEF DeleteOld, Goto
  <2>2. DOMAIN pods = Bundles /\ \A b \in Bundles : DOMAIN pods[b] = DOMAIN NoPod
    BY DEF InstallInv, ShapeInv
  <2>3. /\ DOMAIN pods' = Bundles /\ DOMAIN pods'[arg.old] = DOMAIN NoPod
        /\ pods'[arg.old].uid = pods[arg.old].uid
        /\ \A b \in Bundles : b # arg.old => pods'[b] = pods[b]
    BY <1>1, <2>1, <2>2 DEF NoPod
  <2>4. ShapeInv' /\ StepsInv' /\ PlanInv'
    BY <1>1, <2>1, <2>3 DEF InstallInv, ShapeInv, StepsInv, PlanInv, Attached, Subscribed
  <2>5. SourceInv'
    BY <1>1, <2>1, <2>3 DEF InstallInv, SourceInv, PodOfSource, Attached, Making
  <2>6. OwnPodsInv'
    BY <1>1, <1>3, <2>1, <2>3 DEF InstallInv, OwnPodsInv, OwnPod, Making
  <2>7. QED
    BY <2>4, <2>5, <2>6 DEF InstallInv
<1>4. QED
  BY <1>2, <1>3

LEMMA StepCreateSubscription == ASSUME InstallInv, CreateSubscription PROVE InstallInv'
<1>1. pc = "subscribe" /\ UNCHANGED <<op, arg, faults, catsrc, pods, plans>>
      /\ op \in {"bundle", "manifests"} /\ arg.plan = 0
  BY DEF CreateSubscription, Goto, End, InstallInv, StepsInv, PlanInv, Attached, Subscribed
<1>2. CASE sub.exists
  BY <1>1, <1>2, Ended DEF CreateSubscription, End, known, InstallInv, ShapeInv, Making
<1>3. CASE ~sub.exists
  <2>1. /\ sub' = [NoSub EXCEPT !.exists = TRUE, !.channel = arg.channel,
                                 !.starting = arg.bundle]
        /\ pc' = "plan"
    BY <1>3 DEF CreateSubscription, Goto
  <2>2. /\ DOMAIN sub' = DOMAIN NoSub /\ sub'.exists /\ sub'.channel = arg.channel
        /\ sub'.plan = 0
    BY <2>1 DEF NoSub
  <2>3. ShapeInv'
    BY <1>1, <2>2, SeqLen DEF InstallInv, ShapeInv
  <2>4. StepsInv' /\ PlanInv'
    BY <1>1, <2>1, <2>2 DEF InstallInv, StepsInv, PlanInv, Attached, Subscribed
  <2>5. SourceInv' /\ OwnPodsInv'
    BY <1>1, <2>1 DEF InstallInv, SourceInv, OwnPodsInv, PodOfSource, OwnPod, Attached, Making
  <2>6. QED
    BY <2>3, <2>4, <2>5 DEF InstallInv
<1>4. QED
  BY <1>2, <1>3

LEMMA StepApproveInstallPlan == ASSUME InstallInv, ApproveInstallPlan PROVE InstallInv'
<1>1. /\ pc = "approve" /\ pc' = "csv" /\ UNCHANGED <<op, arg, faults, catsrc, pods, sub>>
      /\ plans' = [plans EXCEPT ![arg.ref].approved = TRUE]
  BY DEF ApproveInstallPlan, Goto
<1>2. /\ sub.exists /\ sub.channel = arg.channel /\ arg.plan <= sub.plan
      /\ arg.ref \in DOMAIN plans /\ arg.plan < arg.ref /\ IsSeq(plans)
      /\ sub.plan \in 0 .. Len(plans)
      /\ \A i \in DOMAIN plans : DOMAIN plans[i] = {"csv", "approved", "done"}
  BY <1>1 DEF InstallInv, ShapeInv, PlanInv, Subscribed
<1>3. arg.ref \in 1 .. Len(plans) /\ DOMAIN plans = 1 .. Len(plans) /\ Len(plans) \in Nat
  BY <1>2, SeqLen
<1>4. /\ IsSeq(plans') /\ Len(plans') = Len(plans) /\ DOMAIN plans' = DOMAIN plans
      /\ plans'[arg.ref].approved
      /\ \A i \in DOMAIN plans' : DOMAIN plans'[i] = {"csv", "approved", "done"}
  <2> DEFINE x == [plans[arg.ref] EXCEPT !.approved = TRUE]
  <2>1. plans' = [plans EXCEPT ![arg.ref] = x]
    BY <1>1
  <2>2. DOMAIN x = {"csv", "approved", "done"} /\ x.approved
    BY <1>2, <1>3
  <2> HIDE DEF x
  <2>3. /\ IsSeq(plans') /\ Len(plans') = Len(plans)
        /\ \A j \in 1 .. Len(plans) : plans'[j] = IF j = arg.ref THEN x ELSE plans[j]
    BY <1>2, <1>3, <2>1, UpdateSeq
  <2>4. DOMAIN plans' = 1 .. Len(plans)
    BY <2>1, <1>3
  <2>5. QED
    BY <1>2, <1>3, <2>2, <2>3, <2>4
<1>5. ShapeInv'
  BY <1>1, <1>2, <1>4 DEF InstallInv, ShapeInv
<1>6. StepsInv' /\ PlanInv'
  BY <1>1, <1>2, <1>4 DEF InstallInv, StepsInv, PlanInv, Attached, Subscribed
<1>7. SourceInv' /\ OwnPodsInv'
  BY <1>1 DEF InstallInv, SourceInv, OwnPodsInv, PodOfSource, OwnPod, Attached, Making
<1>8. QED
  BY <1>5, <1>6, <1>7 DEF InstallInv

----------------------------------------------------------------------------
(* Kubernetes                                                              *)

\* One pod starts, and with it nothing that InstallInv is about but its phase.
LEMMA StepStartPod == ASSUME InstallInv, NEW b \in Bundles, StartPod(b) PROVE InstallInv'
<1>1. /\ pods[b].phase = "Pending" /\ UNCHANGED <<op, pc, arg, faults, catsrc, sub, plans>>
      /\ \E s : pods' = [pods EXCEPT ![b].phase = "Running", ![b].serves = s]
  BY DEF StartPod, command
<1>2. DOMAIN pods = Bundles /\ \A c \in Bundles : DOMAIN pods[c] = DOMAIN NoPod
  BY DEF InstallInv, ShapeInv
<1>3. pods[b] # NoPod
  BY <1>1, NamesAssumption DEF NoPod
<1>4. /\ DOMAIN pods' = Bundles /\ DOMAIN pods'[b] = DOMAIN NoPod
      /\ pods'[b].uid = pods[b].uid /\ pods'[b].items = pods[b].items
      /\ pods'[b].index = pods[b].index /\ pods'[b].phase = "Running"
      /\ \A c \in Bundles : c # b => pods'[c] = pods[c]
  BY <1>1, <1>2 DEF NoPod
<1>5. ShapeInv' /\ StepsInv' /\ PlanInv'
  BY <1>1, <1>4 DEF InstallInv, ShapeInv, StepsInv, PlanInv
<1>6. SourceInv'
  BY <1>1, <1>4 DEF InstallInv, StepsInv, SourceInv, PodOfSource, Making
<1>7. OwnPodsInv'
  BY <1>1, <1>3, <1>4 DEF InstallInv, OwnPodsInv, OwnPod
<1>8. QED
  BY <1>5, <1>6, <1>7 DEF InstallInv

\* A pod goes that is neither the one that the catalog source names nor the one
\* that a command makes.
LEMMA PodGoes ==
    ASSUME InstallInv, UNCHANGED <<op, pc, arg, faults, catsrc, sub, plans>>,
           NEW b \in Bundles, pods' = [pods EXCEPT ![b] = NoPod],
           catsrc.exists => b # catsrc.pod,
           op # "manifests" /\ pc \in Making => b # arg.bundle
    PROVE  InstallInv'
<1>1. /\ DOMAIN pods' = Bundles /\ pods'[b] = NoPod
      /\ \A c \in Bundles : c # b => pods'[c] = pods[c]
  BY DEF InstallInv, ShapeInv
<1>2. ShapeInv' /\ StepsInv' /\ PlanInv'
  BY <1>1 DEF InstallInv, ShapeInv, StepsInv, PlanInv
<1>3. SourceInv'
  BY <1>1 DEF InstallInv, StepsInv, SourceInv, PodOfSource, Making
<1>4. OwnPodsInv'
  BY <1>1 DEF InstallInv, OwnPodsInv, OwnPod
<1>5. QED
  BY <1>2, <1>3, <1>4 DEF InstallInv

LEMMA StepStopPod == ASSUME InstallInv, NEW b \in Bundles, StopPod(b) PROVE InstallInv'
<1>1. /\ pods[b].phase = "Terminating" /\ pods' = [pods EXCEPT ![b] = NoPod]
      /\ UNCHANGED <<op, pc, arg, faults, catsrc, sub, plans>>
  BY DEF StopPod, command
<1>2. /\ catsrc.exists => b # catsrc.pod
      /\ op # "manifests" /\ pc \in Making => b # arg.bundle
  BY <1>1 DEF InstallInv, SourceInv, PodOfSource
<1>3. QED
  BY <1>1, <1>2, PodGoes

LEMMA StepCollectPod == ASSUME InstallInv, NEW b \in Bundles, CollectPod(b) PROVE InstallInv'
<1>1. /\ ~(catsrc.exists /\ pods[b].uid = catsrc.uid) /\ pods' = [pods EXCEPT ![b] = NoPod]
      /\ UNCHANGED <<op, pc, arg, faults, catsrc, sub, plans>>
  BY DEF CollectPod, Garbage, command
<1>2. /\ catsrc.exists => b # catsrc.pod
      /\ op # "manifests" /\ pc \in Making => b # arg.bundle
  BY <1>1 DEF InstallInv, StepsInv, SourceInv, PodOfSource, Making
<1>3. QED
  BY <1>1, <1>2, PodGoes

LEMMA StepCleanup == ASSUME InstallInv, Cleanup PROVE InstallInv'
<1>1. /\ pc = "idle" /\ pc' = "idle" /\ op' = "none" /\ arg' = NoArg
      /\ catsrc' = NoSource(catsrc.uid) /\ sub' = NoSub /\ UNCHANGED <<faults, pods>>
      /\ plans' = [p \in DOMAIN plans |-> [plans[p] EXCEPT !.done = TRUE]]
  BY DEF Cleanup
<1>2. /\ DOMAIN catsrc' = DOMAIN NoSource(0) /\ ~catsrc'.exists /\ catsrc'.exists \in BOOLEAN
      /\ catsrc'.uid = catsrc.uid /\ catsrc'.pod = None /\ catsrc'.items = <<>>
  BY <1>1 DEF NoSource
<1>3. DOMAIN sub' = DOMAIN NoSub /\ sub'.exists = FALSE /\ sub'.plan = 0
  BY <1>1 DEF NoSub
<1>4. ShapeInv'
  <2>1. DOMAIN arg' = DOMAIN NoArg /\ arg'.items = <<>> /\ arg'.plan = 0
    BY <1>1 DEF NoArg
  <2>2. /\ IsSeq(plans') /\ Len(plans') \in Nat
        /\ \A i \in DOMAIN plans' : DOMAIN plans'[i] = {"csv", "approved", "done"}
    <3>1. /\ Len(plans) \in Nat /\ DOMAIN plans = 1 .. Len(plans)
          /\ \A i \in DOMAIN plans : DOMAIN plans[i] = {"csv", "approved", "done"}
      BY SeqLen DEF InstallInv, ShapeInv
    <3>2. /\ plans' \in [1 .. Len(plans) -> {plans'[i] : i \in DOMAIN plans}]
          /\ DOMAIN plans' = DOMAIN plans
      BY <1>1, <3>1
    <3>3. plans' \in Seq({plans'[i] : i \in DOMAIN plans})
      BY <3>1, <3>2, SeqDef
    <3>4. IsSeq(plans')
      BY <3>3, RangeSeq
    <3>5. \A i \in DOMAIN plans' : DOMAIN plans'[i] = {"csv", "approved", "done"}
      BY <1>1, <3>1, <3>2
    <3>6. QED
      BY <3>4, <3>5, SeqLen
  <2>3. IsSeq(arg'.items) /\ IsSeq(catsrc'.items)
    BY <1>2, <2>1, NoItems
  <2>4. UNCHANGED <<faults, pods>>
    BY <1>1
  <2>5. /\ DOMAIN pods' = Bundles /\ \A b \in Bundles : DOMAIN pods'[b] = DOMAIN NoPod
        /\ faults' \in Nat
    BY <2>4 DEF InstallInv, ShapeInv
  <2>6. sub'.plan \in 0 .. Len(plans') /\ sub'.exists \in BOOLEAN
    <3>1. \A n \in Nat : 0 \in 0 .. n
      OBVIOUS
    <3>2. QED
      BY <1>3, <2>2, <3>1
  <2>7. catsrc'.uid \in Nat
    BY <1>2 DEF InstallInv, ShapeInv
  <2>8. arg'.plan \in Nat
    BY <2>1
  <2>9. QED
    BY <1>2, <1>3, <2>1, <2>2, <2>3, <2>5, <2>6, <2>7, <2>8 DEF ShapeInv
<1>5. StepsInv' /\ PlanInv'
  BY <1>1, <1>3 DEF StepsInv, PlanInv, NoArg, Subscribed
<1>6. SourceInv'
  BY <1>1, <1>2, BundleAssumption DEF SourceInv, PodOfSource, Attached, Making
<1>7. OwnPodsInv'
  BY <1>1, <1>2 DEF InstallInv, OwnPodsInv, OwnPod, Making
<1>8. QED
  BY <1>4, <1>5, <1>6, <1>7 DEF InstallInv

----------------------------------------------------------------------------
(* OLM                                                                     *)

LEMMA StepResolve == ASSUME InstallInv, Resolve PROVE InstallInv'
<1>1. /\ sub.exists /\ sub' = [sub EXCEPT !.plan = Len(plans')]
      /\ UNCHANGED <<op, pc, arg, faults, catsrc, pods>>
  BY DEF Resolve, command
<1>2. PICK b : plans' = Append(plans, [csv |-> b, approved |-> FALSE, done |-> FALSE])
  BY DEF Resolve
<1>3. /\ IsSeq(plans) /\ Len(plans) \in Nat /\ DOMAIN plans = 1 .. Len(plans)
      /\ sub.plan \in 0 .. Len(plans) /\ DOMAIN sub = DOMAIN NoSub /\ arg.plan \in Nat
      /\ \A i \in DOMAIN plans : DOMAIN plans[i] = {"csv", "approved", "done"}
  BY SeqLen DEF InstallInv, ShapeInv
<1>4. /\ IsSeq(plans') /\ Len(plans') = Len(plans) + 1
      /\ plans'[Len(plans) + 1] = [csv |-> b, approved |-> FALSE, done |-> FALSE]
      /\ \A i \in 1 .. Len(plans) : plans'[i] = plans[i]
  BY <1>2, <1>3, AppendSeq
<1>5. DOMAIN plans' = 1 .. Len(plans) + 1
  BY <1>4, SeqLen
<1>6. /\ DOMAIN sub' = DOMAIN NoSub /\ sub'.exists = sub.exists /\ sub'.channel = sub.channel
      /\ sub'.plan = Len(plans) + 1
  BY <1>1, <1>3, <1>4 DEF NoSub
<1>7. ShapeInv'
  <2>1. \A i \in DOMAIN plans' : DOMAIN plans'[i] = {"csv", "approved", "done"}
    <3>1. TAKE i \in DOMAIN plans'
    <3>2. i \in 1 .. Len(plans) \/ i = Len(plans) + 1
      BY <1>3, <1>5
    <3>3. CASE i \in 1 .. Len(plans)
      BY <1>3, <1>4, <3>3
    <3>4. CASE i = Len(plans) + 1
      BY <1>4, <3>4
    <3>5. QED
      BY <3>2, <3>3, <3>4
  <2>2. sub'.plan \in 0 .. Len(plans')
    BY <1>3, <1>4, <1>6
  <2>3. QED
    BY <1>1, <1>4, <1>6, <2>1, <2>2 DEF InstallInv, ShapeInv
<1>8. StepsInv'
  BY <1>1 DEF InstallInv, StepsInv
<1>9. PlanInv'
  <2>1. pc \in {"approve", "csv"} => arg.ref \in 1 .. Len(plans) /\ arg.ref \in DOMAIN plans'
                                      /\ arg.plan < arg.ref
    BY <1>3, <1>5 DEF InstallInv, PlanInv
  <2>2. pc = "csv" => plans'[arg.ref].approved
    BY <1>4, <2>1 DEF InstallInv, PlanInv
  <2>3. arg.plan <= sub.plan => arg.plan < sub'.plan
    BY <1>3, <1>6
  <2>4. arg.plan < sub'.plan => arg.plan <= sub'.plan
    BY <1>3, <1>6
  <2>5. QED
    BY <1>1, <1>6, <2>1, <2>2, <2>3, <2>4 DEF InstallInv, PlanInv, Subscribed
<1>10. SourceInv' /\ OwnPodsInv'
  BY <1>1 DEF InstallInv, SourceInv, OwnPodsInv, PodOfSource, OwnPod
<1>11. QED
  BY <1>7, <1>8, <1>9, <1>10 DEF InstallInv

LEMMA StepRunPlan == ASSUME InstallInv, NEW p \in DOMAIN plans, RunPlan(p) PROVE InstallInv'
<1>1. /\ sub.exists /\ UNCHANGED <<op, pc, arg, faults, catsrc, pods>>
      /\ plans' = [plans EXCEPT ![p].done = TRUE]
      /\ \E c : sub' = [sub EXCEPT !.installed = c]
  BY DEF RunPlan, command
<1>2. /\ IsSeq(plans) /\ sub.plan \in 0 .. Len(plans) /\ DOMAIN sub = DOMAIN NoSub
      /\ \A i \in DOMAIN plans : DOMAIN plans[i] = {"csv", "approved", "done"}
  BY DEF InstallInv, ShapeInv
<1>3. p \in 1 .. Len(plans) /\ DOMAIN plans = 1 .. Len(plans) /\ Len(plans) \in Nat
  BY <1>2, SeqLen
<1>4. /\ IsSeq(plans') /\ Len(plans') = Len(plans) /\ DOMAIN plans' = DOMAIN plans
      /\ \A i \in DOMAIN plans : /\ DOMAIN plans'[i] = {"csv", "approved", "done"}
                                 /\ plans'[i].approved = plans[i].approved
  <2> DEFINE x == [plans[p] EXCEPT !.done = TRUE]
  <2>1. plans' = [plans EXCEPT ![p] = x]
    BY <1>1
  <2>2. DOMAIN x = {"csv", "approved", "done"} /\ x.approved = plans[p].approved
    BY <1>2, <1>3
  <2> HIDE DEF x
  <2>3. /\ IsSeq(plans') /\ Len(plans') = Len(plans)
        /\ \A j \in 1 .. Len(plans) : plans'[j] = IF j = p THEN x ELSE plans[j]
    BY <1>2, <1>3, <2>1, UpdateSeq
  <2>4. DOMAIN plans' = 1 .. Len(plans)
    BY <2>1, <1>3
  <2>5. QED
    BY <1>2, <1>3, <2>2, <2>3, <2>4
<1>5. /\ DOMAIN sub' = DOMAIN NoSub /\ sub'.exists = sub.exists /\ sub'.channel = sub.channel
      /\ sub'.plan = sub.plan
  BY <1>1, <1>2 DEF NoSub
<1>6. ShapeInv' /\ StepsInv'
  BY <1>1, <1>2, <1>4, <1>5 DEF InstallInv, ShapeInv, StepsInv
<1>7. PlanInv'
  BY <1>1, <1>4, <1>5 DEF InstallInv, PlanInv, Subscribed
<1>8. SourceInv' /\ OwnPodsInv'
  BY <1>1 DEF InstallInv, SourceInv, OwnPodsInv, PodOfSource, OwnPod
<1>9. QED
  BY <1>6, <1>7, <1>8 DEF InstallInv

----------------------------------------------------------------------------
(* Commands begin                                                          *)

\* A command is refused before it changes anything.
LEMMA Refused ==
    ASSUME InstallInv, pc = "idle", UNCHANGED <<faults, known>>,
           NEW o \in {"bundle", "upgrade", "manifests"}, NEW b, Rejected(o, b)
    PROVE  InstallInv'
<1>1. /\ op' = o /\ pc' = "idle"
      /\ DOMAIN arg' = DOMAIN NoArg /\ arg'.plan = 0 /\ arg'.items = <<>> /\ IsSeq(arg'.items)
  BY NoItems DEF Rejected, NoArg
<1>2. ShapeInv' /\ StepsInv' /\ PlanInv'
  BY <1>1 DEF InstallInv, ShapeInv, StepsInv, PlanInv, Subscribed, known
<1>3. SourceInv' /\ OwnPodsInv'
  BY <1>1 DEF InstallInv, SourceInv, OwnPodsInv, PodOfSource, OwnPod, Attached, Making, known
<1>4. QED
  BY <1>2, <1>3 DEF InstallInv

\* An installation begins with nothing known of the subscription.
LEMMA Begins ==
    ASSUME InstallInv, pc = "idle", UNCHANGED <<faults, known>>,
           NEW o \in {"bundle", "manifests"}, NEW given, Accepted(o, given, "source"),
           DOMAIN given = DOMAIN NoArg, given.plan = 0, given.bundle \in Bundles,
           IsSeq(given.items), o = "bundle" => given.items # <<>>
    PROVE  InstallInv'
<1>1. op' = o /\ arg' = given /\ pc' = "source"
  BY DEF Accepted
<1>2. ShapeInv' /\ StepsInv' /\ PlanInv'
  BY <1>1 DEF InstallInv, ShapeInv, StepsInv, PlanInv, Attached, Subscribed, known
<1>3. SourceInv' /\ OwnPodsInv'
  BY <1>1 DEF InstallInv, SourceInv, OwnPodsInv, PodOfSource, OwnPod, Attached, Making, known
<1>4. QED
  BY <1>2, <1>3 DEF InstallInv

LEMMA StepRunBundle ==
    ASSUME InstallInv, NEW b \in Bundles, NEW i, NEW m, RunBundle(b, i, m)
    PROVE  InstallInv'
<1> DEFINE given == [NoArg EXCEPT !.bundle = b, !.index = i, !.mode = m,
                         !.channel = IF Index[i].fbc THEN DefaultChannel ELSE LabelChannel,
                         !.items = <<Item(b, i)>>, !.docs = NewDocs[i][b]]
<1>1. /\ pc = "idle" /\ UNCHANGED <<faults, known>>
      /\ Accepted("bundle", given, "source") \/ Rejected("bundle", b)
  BY DEF RunBundle, cluster, known
<1>2. /\ DOMAIN given = DOMAIN NoArg /\ given.plan = 0 /\ given.bundle = b
      /\ given.items = <<Item(b, i)>>
  BY DEF NoArg
<1>3. IsSeq(given.items) /\ given.items # <<>>
  BY <1>2, OneItem
<1> HIDE DEF given
<1>4. QED
  BY <1>1, <1>2, <1>3, Refused, Begins

LEMMA StepRunManifests ==
    ASSUME InstallInv, NEW d, NEW b \in Bundles, NEW m, RunManifests(d, b, m)
    PROVE  InstallInv'
<1> DEFINE given == [NoArg EXCEPT !.bundle = b, !.mode = m, !.channel = LabelChannel,
                         !.data = d]
<1>1. /\ pc = "idle" /\ UNCHANGED <<faults, known>>
      /\ Accepted("manifests", given, "source") \/ Rejected("manifests", b)
  BY DEF RunManifests, cluster, known
<1>2. /\ DOMAIN given = DOMAIN NoArg /\ given.plan = 0 /\ given.bundle = b
      /\ given.items = <<>>
  BY DEF NoArg
<1>3. IsSeq(given.items)
  BY <1>2, NoItems
<1> HIDE DEF given
<1>4. QED
  BY <1>1, <1>2, <1>3, Refused, Begins

LEMMA StepUpgrade == ASSUME InstallInv, NEW b \in Bundles, Upgrade(b) PROVE InstallInv'
<1> DEFINE index == IF catsrc.items = <<>> THEN catsrc.image
                    ELSE IF catsrc.index # None THEN catsrc.index ELSE Default
           given(c) == [NoArg EXCEPT !.bundle = b, !.index = index, !.channel = sub.channel,
                            !.items = Append(catsrc.items, Item(b, index)), !.docs = Docs(c),
                            !.old = IF catsrc.items = <<>> THEN None ELSE catsrc.pod,
                            !.plan = sub.plan]
<1>1. /\ pc = "idle" /\ UNCHANGED <<faults, known>>
      /\ \/ Rejected("upgrade", b)
         \/ /\ sub.exists /\ catsrc.exists
            /\ \E c : Accepted("upgrade", given(c), "maps")
  BY DEF Upgrade, cluster, known
<1>2. CASE Rejected("upgrade", b)
  BY <1>1, <1>2, Refused
<1>3. CASE sub.exists /\ catsrc.exists /\ \E c : Accepted("upgrade", given(c), "maps")
  <2>1. PICK c : Accepted("upgrade", given(c), "maps")
    BY <1>3
  <2> HIDE DEF index
  <2>2. op' = "upgrade" /\ arg' = given(c) /\ pc' = "maps"
    BY <2>1 DEF Accepted
  <2>3. /\ DOMAIN arg' = DOMAIN NoArg /\ arg'.bundle = b /\ arg'.channel = sub.channel
        /\ arg'.items = Append(catsrc.items, Item(b, index))
        /\ arg'.old = IF catsrc.items = <<>> THEN None ELSE catsrc.pod
        /\ arg'.plan = sub.plan
    BY <2>2 DEF NoArg
  <2> HIDE DEF given
  <2>4. IsSeq(arg'.items) /\ arg'.items # <<>>
    <3>1. IsSeq(catsrc.items)
      BY DEF InstallInv, ShapeInv
    <3>2. QED
      BY <2>3, <3>1, AppendSeq
  <2>5. arg'.plan \in Nat /\ arg'.plan <= sub.plan
    BY <2>3, SeqLen DEF InstallInv, ShapeInv
  <2>6. ShapeInv' /\ StepsInv'
    BY <1>1, <1>3, <2>2, <2>3, <2>4, <2>5 DEF InstallInv, ShapeInv, StepsInv, known
  <2>7. PlanInv'
    BY <1>1, <1>3, <2>2, <2>3, <2>5 DEF InstallInv, PlanInv, Subscribed, known
  <2>8. SourceInv' /\ OwnPodsInv'
    BY <1>1, <2>2, <2>3 DEF InstallInv, SourceInv, OwnPodsInv, PodOfSource, OwnPod, Attached,
                            Making, known
  <2>9. QED
    BY <2>6, <2>7, <2>8 DEF InstallInv
<1>4. QED
  BY <1>1, <1>2, <1>3

----------------------------------------------------------------------------
(* The theorems                                                            *)

LEMMA InitInstall == Init => InstallInv
<1> SUFFICES ASSUME Init PROVE InstallInv
  OBVIOUS
<1>1. /\ op = "none" /\ pc = "idle" /\ arg = NoArg /\ faults = 0
      /\ pods = [b \in Bundles |-> NoPod]
  BY DEF Init
<1> DEFINE fresh == catsrc = NoSource(0) /\ sub = NoSub /\ plans = <<>>
           installed(i, c, d) ==
               /\ catsrc = [NoSource(0) EXCEPT !.exists = TRUE, !.image = i]
               /\ sub = [exists |-> TRUE, channel |-> c, starting |-> None,
                         installed |-> d, plan |-> 1]
               /\ plans = <<[csv |-> d, approved |-> TRUE, done |-> TRUE]>>
           source == /\ DOMAIN catsrc = DOMAIN NoSource(0) /\ catsrc.uid = 0
                     /\ catsrc.exists \in BOOLEAN /\ catsrc.pod = None /\ catsrc.items = <<>>
           subscribed ==
               /\ IsSeq(plans)
               /\ \A i \in DOMAIN plans : DOMAIN plans[i] = {"csv", "approved", "done"}
               /\ DOMAIN sub = DOMAIN NoSub /\ sub.exists \in BOOLEAN
               /\ sub.plan \in 0 .. Len(plans)
               /\ ~sub.exists => sub.plan = 0
<1>2. fresh \/ \E i, c, d : installed(i, c, d)
  <2>1. ASSUME NEW t \in Traditional,
               catsrc = [NoSource(0) EXCEPT !.exists = TRUE, !.image = t.index],
               sub = [exists |-> TRUE, channel |-> t.channel, starting |-> None,
                      installed |-> t.installed, plan |-> 1],
               plans = <<[csv |-> t.installed, approved |-> TRUE, done |-> TRUE]>>
        PROVE  \E i, c, d : installed(i, c, d)
    BY <2>1
  <2> HIDE DEF installed
  <2>2. QED
    BY <2>1 DEF Init
<1>3. source
  <2>1. ASSUME fresh PROVE source
    BY <2>1 DEF NoSource
  <2>2. ASSUME NEW i, NEW c, NEW d, installed(i, c, d) PROVE source
    BY <2>2 DEF NoSource
  <2> HIDE DEF fresh, installed, source, subscribed
  <2>3. QED
    BY <1>2, <2>1, <2>2
<1>4. subscribed
  <2>1. ASSUME fresh PROVE subscribed
    BY <2>1, NoItems DEF NoSub
  <2>2. ASSUME NEW i, NEW c, NEW d, installed(i, c, d) PROVE subscribed
    <3>1. IsSeq(plans)
      BY <2>2, OneItem
    <3>2. QED
      BY <2>2, <3>1 DEF NoSub
  <2> HIDE DEF fresh, installed, source, subscribed
  <2>3. QED
    BY <1>2, <2>1, <2>2
<1> HIDE DEF fresh, installed
<1>5. ShapeInv
  <2>1. DOMAIN arg = DOMAIN NoArg /\ arg.plan = 0 /\ arg.items = <<>>
    BY <1>1 DEF NoArg
  <2>2. QED
    BY <1>1, <1>3, <1>4, <2>1, NoItems DEF ShapeInv
<1>6. StepsInv /\ PlanInv
  BY <1>1, <1>4 DEF StepsInv, PlanInv, Subscribed
<1>7. SourceInv
  BY <1>1, <1>3, BundleAssumption DEF SourceInv, PodOfSource, Attached, Making
<1>8. OwnPodsInv
  BY <1>1 DEF OwnPodsInv, OwnPod
<1>9. QED
  BY <1>5, <1>6, <1>7, <1>8 DEF InstallInv

LEMMA StepInstall == InstallInv /\ [Next]_vars => InstallInv'
<1> SUFFICES ASSUME InstallInv, [Next]_vars PROVE InstallInv'
  OBVIOUS
<1>1. CASE UNCHANGED vars
  BY <1>1, Unaffected DEF vars, command, cluster, known
<1>2. ASSUME NEW b \in Bundles, NEW i, NEW m, RunBundle(b, i, m) PROVE InstallInv'
  BY <1>2, StepRunBundle
<1>3. ASSUME NEW b \in Bundles, NEW d, NEW m, RunManifests(d, b, m) PROVE InstallInv'
  BY <1>3, StepRunManifests
<1>4. ASSUME NEW b \in Bundles, Upgrade(b) PROVE InstallInv'
  BY <1>4, StepUpgrade
<1>5. CASE Proceed
  BY <1>5, StepCreateSource, StepCreateConfigMap, StepCreatePod, StepAwaitPod, StepLinkSource,
     StepDeleteOld, StepAwaitGone, StepRegistry, StepEnsureOperatorGroup,
     StepCreateSubscription, StepWaitForInstallPlan, StepApproveInstallPlan, StepInstalledCSV
     DEF Proceed
<1>6. CASE OLM
  <2>1. ASSUME NEW b \in Bundles, FinishCSV(b) PROVE InstallInv'
    BY <2>1, Unaffected DEF FinishCSV, command, known
  <2>2. ASSUME NEW p \in DOMAIN plans, RunPlan(p) PROVE InstallInv'
    BY <2>2, StepRunPlan
  <2>3. QED
    BY <1>6, <2>1, <2>2, StepResolve DEF OLM
<1>7. CASE Kubernetes
  <2>1. ASSUME NEW i, CollectConfigMap(i) PROVE InstallInv'
    BY <2>1, Unaffected DEF CollectConfigMap, command, known
  <2>2. ASSUME NEW o, CollectRegistry(o) PROVE InstallInv'
    BY <2>2, Unaffected DEF CollectRegistry, command, known
  <2>3. QED
    BY <1>7, <2>1, <2>2, StepStartPod, StepStopPod, StepCollectPod DEF Kubernetes
<1>8. QED
  BY <1>1, <1>2, <1>3, <1>4, <1>5, <1>6, <1>7, StepCleanup, StepFails DEF Next

\* What each command knows of the subscription, its plans, the catalog source
\* and the registry pods holds at every step, failures, deadlines, cleanups, OLM
\* and the garbage collector in between (operator_installer.go,
\* index_image.go).
THEOREM InstallSound == Spec => []InstallInv
<1>1. Init => InstallInv
  BY InitInstall
<1>2. InstallInv /\ [Next]_vars => InstallInv'
  BY StepInstall
<1>3. QED
  BY <1>1, <1>2, PTL DEF Spec

\* The registry pod that the catalog source names is its own, runs, and was made
\* for the bundles and the index image of its annotations (index_image.go:489,
\* 496).
THEOREM SourceHasPod == Spec => []PodOfSource
<1>1. InstallInv => PodOfSource
  BY DEF InstallInv, SourceInv
<1>2. QED
  BY <1>1, InstallSound, PTL

\* Unless a command was cut short, a catalog source has at most one registry
\* pod: an upgrade deletes the pod that it replaced (index_image.go:496).
THEOREM OnePod == Spec => []OneRegistryPod
<1>1. InstallInv => OneRegistryPod
  <2> DEFINE own == {b \in Bundles : pods[b] # NoPod /\ pods[b].uid = catsrc.uid}
  <2> SUFFICES ASSUME InstallInv, faults = 0, pc \in {"idle", "plan", "approve", "csv"}
               PROVE  Cardinality(own) <= 1
    BY DEF OneRegistryPod
  <2>1. \A b, c \in own : b = c
    <3>1. CASE catsrc.exists
      BY <3>1 DEF InstallInv, OwnPodsInv, OwnPod, Making
    <3>2. CASE ~catsrc.exists
      BY <3>2 DEF InstallInv, OwnPodsInv, OwnPod
    <3>3. QED
      BY <3>1, <3>2
  <2>2. CASE own = {}
    BY <2>2, FS_EmptySet
  <2>3. CASE own # {}
    <3>1. PICK b \in own : TRUE
      BY <2>3
    <3>2. own = {b}
      BY <2>1, <3>1
    <3> HIDE DEF own
    <3>3. QED
      BY <3>2, FS_Singleton
  <2>4. QED
    BY <2>2, <2>3
<1>2. QED
  BY <1>1, InstallSound, PTL

\* Whatever plans OLM makes meanwhile, a command approves none that was there
\* when it began (operator_installer.go, waitForInstallPlan).
THEOREM PlansNew == Spec => OnlyNewPlans
<1> DEFINE new == \A p \in DOMAIN plans : plans'[p].approved /\ ~plans[p].approved => p > arg.plan
<1>1. InstallInv /\ [Next]_vars => [new]_vars
  <2> SUFFICES ASSUME InstallInv, Next, NEW p \in DOMAIN plans,
                      plans'[p].approved, ~plans[p].approved
               PROVE  p > arg.plan
    OBVIOUS
  <2>1. plans' # plans
    OBVIOUS
  <2>2. /\ IsSeq(plans) /\ p \in 1 .. Len(plans) /\ arg.plan \in Nat /\ Len(plans) \in Nat
        /\ \A i \in DOMAIN plans : DOMAIN plans[i] = {"csv", "approved", "done"}
    BY SeqLen DEF InstallInv, ShapeInv
  <2>3. ~Cleanup
    BY <2>2 DEF Cleanup
  <2>4. ~Resolve
    <3>1. \A b : Append(plans, [csv |-> b, approved |-> FALSE, done |-> FALSE])[p] = plans[p]
      BY <2>2, AppendSeq
    <3>2. QED
      BY <3>1 DEF Resolve
  <2>5. \A q \in DOMAIN plans : ~RunPlan(q)
    <3>1. ASSUME NEW q \in DOMAIN plans, plans' = [plans EXCEPT ![q].done = TRUE] PROVE FALSE
      BY <2>2, <3>1
    <3>2. QED
      BY <3>1 DEF RunPlan
  <2>6. ApproveInstallPlan
    <3>1. ~Fails /\ ~Kubernetes /\ (\A b \in Bundles : ~FinishCSV(b) /\ ~Upgrade(b))
      BY <2>1 DEF Fails, Kubernetes, StartPod, StopPod, CollectPod, CollectConfigMap,
                  CollectRegistry, FinishCSV, Upgrade, cluster
    <3>2. \A b, m : (\A i : ~RunBundle(b, i, m)) /\ (\A d : ~RunManifests(d, b, m))
      BY <2>1 DEF RunBundle, RunManifests, cluster
    <3>3. ~CreateSource /\ ~CreateConfigMap /\ ~CreatePod /\ ~AwaitPod /\ ~LinkSource
          /\ ~DeleteOld /\ ~AwaitGone
      BY <2>1 DEF CreateSource, CreateConfigMap, CreatePod, AwaitPod, LinkSource, Link, DeleteOld,
                  AwaitGone, cluster
    <3>4. ~CheckRegistry /\ ~DeleteStale /\ ~AwaitRollout
          /\ ~CreateData /\ ~CreateDeployment /\ ~CreateService
      BY <2>1 DEF CheckRegistry, DeleteStale, CreateData, CreateDeployment, CreateService,
                  CreateObject, AwaitRollout, cluster
    <3>5. ~EnsureOperatorGroup /\ ~CreateSubscription /\ ~WaitForInstallPlan /\ ~InstalledCSV
      BY <2>1 DEF EnsureOperatorGroup, CreateSubscription, WaitForInstallPlan, InstalledCSV,
                  cluster
    <3>6. QED
      BY <2>3, <2>4, <2>5, <3>1, <3>2, <3>3, <3>4, <3>5 DEF Next, Proceed, OLM
  <2>7. /\ plans' = [plans EXCEPT ![arg.ref].approved = TRUE]
        /\ arg.ref \in DOMAIN plans /\ arg.plan < arg.ref
    BY <2>6 DEF ApproveInstallPlan, InstallInv, PlanInv
  <2>8. p = arg.ref
    BY <2>7
  <2>9. QED
    BY <2>2, <2>7, <2>8
<1> HIDE DEF new
<1>2. Spec => [][new]_vars
  BY <1>1, InstallSound, PTL DEF Spec
<1>3. QED
  BY <1>2 DEF OnlyNewPlans, new

\* A command that says it succeeded leaves its bundle's CSV installed from an
\* approved plan, by the catalog that the command made and in the channel that
\* it chose (operator_installer.go, InstallOperator and UpgradeOperator).
THEOREM SucceedsSound == Spec => SucceedsAsAsked
<1> DEFINE asked ==
      /\ csvs[arg.bundle] = "Succeeded" /\ plans[arg.ref].approved
      /\ IF op = "manifests" THEN catsrc.pod = "service"
         ELSE catsrc.pod = arg.bundle /\ catsrc.items = arg.items
      /\ sub.channel = arg.channel
<1>1. InstallInv /\ [Next]_vars => [Ends("ok") => asked]_vars
  <2> SUFFICES ASSUME InstallInv, Next, Ends("ok") PROVE asked
    BY DEF Ends
  <2>1. InstalledCSV
    <3>1. "ok" # "error" /\ pc # "idle" /\ pc' = "idle" /\ result' = "ok"
      BY DEF Ends
    <3>2. \A b, m : (\A i : ~RunBundle(b, i, m)) /\ (\A d : ~RunManifests(d, b, m))
      BY <3>1 DEF RunBundle, RunManifests
    <3>3. ~Cleanup /\ ~Fails /\ ~OLM /\ ~Kubernetes /\ ~(\E b \in Bundles : Upgrade(b))
      <4>1. ~Cleanup /\ ~Fails /\ ~(\E b \in Bundles : Upgrade(b))
        BY <3>1 DEF Cleanup, Fails, End, Upgrade
      <4>2. ~OLM
        BY <3>1 DEF OLM, Resolve, RunPlan, FinishCSV, command
      <4>3. ~Kubernetes
        BY <3>1 DEF Kubernetes, StartPod, StopPod, CollectPod, CollectConfigMap,
                    CollectRegistry, command
      <4>4. QED
        BY <4>1, <4>2, <4>3
    <3>4. ~CreateSource /\ ~CreateConfigMap /\ ~CreatePod /\ ~AwaitPod /\ ~DeleteOld
          /\ ~AwaitGone
      BY <3>1 DEF CreateSource, CreateConfigMap, CreatePod, AwaitPod, DeleteOld, AwaitGone, End,
                  Goto
    <3>5. ~LinkSource
      BY <3>1 DEF LinkSource, Link, End, Goto
    <3>6. ~CheckRegistry /\ ~DeleteStale /\ ~AwaitRollout
          /\ ~CreateData /\ ~CreateDeployment /\ ~CreateService
      BY <3>1 DEF CheckRegistry, DeleteStale, CreateData, CreateDeployment, CreateService,
                  CreateObject, AwaitRollout, Goto
    <3>7. ~EnsureOperatorGroup /\ ~CreateSubscription /\ ~WaitForInstallPlan
          /\ ~ApproveInstallPlan
      BY <3>1 DEF EnsureOperatorGroup, CreateSubscription, WaitForInstallPlan,
                  ApproveInstallPlan, End, Goto
    <3>8. QED
      BY <3>2, <3>3, <3>4, <3>5, <3>6, <3>7 DEF Next, Proceed
  <2>2. pc = "csv" /\ csvs[arg.bundle] = "Succeeded"
    BY <2>1 DEF InstalledCSV, End, Ends
  <2>3. QED
    BY <2>2 DEF InstallInv, PlanInv, SourceInv, Attached, Subscribed
<1> HIDE DEF asked
<1>2. Spec => [][Ends("ok") => asked]_vars
  BY <1>1, InstallSound, PTL DEF Spec
<1>3. QED
  BY <1>2 DEF SucceedsAsAsked, asked

----------------------------------------------------------------------------
(* Catalogs and their documents                                            *)

\* A set of positions of a sequence has a largest one.
LEMMA LargestIn ==
    ASSUME NEW n \in Nat, NEW S, S \subseteq 1 .. n, S # {}
    PROVE  Max(S) \in S
<1> DEFINE T == {n - i : i \in S}
<1>1. T \subseteq Nat /\ T # {}
  <2>1. \A i \in S : n - i \in Nat
    OBVIOUS
  <2>2. QED
    BY <2>1
<1>2. PICK m \in T : \A k \in T : m <= k
  <2>1. PICK R : /\ IsWellFoundedOn(R, Nat)
                 /\ \A k, l \in Nat : k < l => <<k, l>> \in R
    BY NatLessThanWellFounded DEF OpToRel
  <2> HIDE DEF T
  <2>2. IsWellFoundedOn(R, Nat) /\ T \subseteq Nat /\ T # {}
    BY <1>1, <2>1
  <2>3. PICK m \in T : \A k \in T : ~ (<<k, m>> \in R)
    BY <2>2, WFMin
  <2>4. \A k \in T : ~(k < m)
    BY <1>1, <2>1, <2>3
  <2>5. QED
    BY <1>1, <2>4
<1>3. PICK i \in S : m = n - i
  BY <1>2
<1>4. \A j \in S : i >= j
  BY <1>2, <1>3
<1>5. QED
  BY <1>3, <1>4 DEF Max

\* A finite set in some order.
LEMMA SetInOrder ==
    ASSUME NEW S, IsFiniteSet(S)
    PROVE  IsSeq(SetToSeq(S)) /\ ToSet(SetToSeq(S)) = S
<1> DEFINE n == Cardinality(S)
           s == SetToSeq(S)
<1>1. n \in Nat /\ \E f \in [1 .. n -> S] : IsInjective(f)
  BY FS_CardinalityType DEF ExistsBijection, Bijection, Injection
<1>2. s \in [1 .. n -> S] /\ IsInjective(s)
  BY <1>1 DEF SetToSeq
<1>3. IsFiniteSet(1 .. n) /\ Cardinality(1 .. n) = n
  BY <1>1, FS_Interval
<1>4. s \in Injection(1 .. n, S)
  BY <1>2 DEF Injection
<1> HIDE DEF s
<1>5. s \in Surjection(1 .. n, S)
  BY <1>3, <1>4, FS_Injection
<1>6. ToSet(s) = S
  BY <1>2, <1>5 DEF ToSet, Surjection
<1>7. s \in Seq(S)
  BY <1>1, <1>2, SeqDef
<1>8. QED
  BY <1>6, <1>7, RangeSeq DEF s

LEMMA RangeOnto ==
    ASSUME NEW S, NEW f, DOMAIN f = S, f = [x \in S |-> f[x]]
    PROVE  f \in Surjection(S, {f[x] : x \in S})
BY DEF Surjection

LEMMA RangeFinite == ASSUME NEW s, IsSeq(s) PROVE IsFiniteSet(ToSet(s))
<1>1. Len(s) \in Nat /\ DOMAIN s = 1 .. Len(s) /\ s \in [1 .. Len(s) -> ToSet(s)]
  BY LenProperties, SeqLen DEF IsSeq
<1>2. s \in Surjection(1 .. Len(s), ToSet(s))
  BY <1>1 DEF Surjection, ToSet
<1>3. QED
  BY <1>1, <1>2, FS_Interval, FS_Surjection

LEMMA JoinedSeqs ==
    ASSUME NEW s, IsSeq(s), NEW t, IsSeq(t)
    PROVE  IsSeq(s \o t) /\ ToSet(s) \cup ToSet(t) \subseteq ToSet(s \o t)
<1> DEFINE S == ToSet(s) \cup ToSet(t)
           u == s \o t
<1>1. s \in Seq(S) /\ t \in Seq(S)
  BY DEF IsSeq
<1>2. /\ u \in Seq(S) /\ Len(u) = Len(s) + Len(t)
      /\ \A i \in 1 .. Len(s) + Len(t) : u[i] = IF i <= Len(s) THEN s[i] ELSE t[i - Len(s)]
  <2> HIDE DEF S
  <2>1. QED
    BY <1>1, ConcatProperties
<1>3. /\ Len(s) \in Nat /\ DOMAIN s = 1 .. Len(s) /\ Len(t) \in Nat /\ DOMAIN t = 1 .. Len(t)
  BY SeqLen
<1>4. DOMAIN u = 1 .. Len(s) + Len(t)
  BY <1>2
<1> HIDE DEF u
<1>5. ASSUME NEW i \in DOMAIN s PROVE s[i] \in ToSet(u)
  <2>1. i \in DOMAIN u /\ u[i] = s[i]
    BY <1>2, <1>3, <1>4
  <2>2. QED
    BY <2>1 DEF ToSet
<1>6. ASSUME NEW i \in DOMAIN t PROVE t[i] \in ToSet(u)
  <2>1. Len(s) + i \in DOMAIN u /\ u[Len(s) + i] = t[i]
    BY <1>2, <1>3, <1>4
  <2>2. QED
    BY <2>1 DEF ToSet
<1>7. QED
  BY <1>2, <1>5, <1>6, RangeSeq DEF ToSet, u

\* The first documents and those that are left.
LEMMA SplitDocs ==
    ASSUME NEW s, IsSeq(s), NEW n \in 1 .. Len(s)
    PROVE  /\ IsSeq(SubSeq(s, n + 1, Len(s)))
           /\ ToSet(s) \subseteq ToSet(SubSeq(s, 1, n)) \cup ToSet(SubSeq(s, n + 1, Len(s)))
<1> DEFINE first == SubSeq(s, 1, n)
           rest == SubSeq(s, n + 1, Len(s))
           S == ToSet(s)
<1>1. s \in Seq(S) /\ Len(s) \in Nat /\ DOMAIN s = 1 .. Len(s) /\ n \in Nat
  BY SeqLen DEF IsSeq
<1>2. \A i \in 1 .. Len(s) : s[i] \in S
  BY <1>1
<1> HIDE DEF S
<1>3. /\ first \in Seq(S) /\ Len(first) = n /\ \A i \in 1 .. n : first[i] = s[i]
  <2>1. 1 \in Int /\ n \in Int /\ \A i \in 1 .. n : s[i] \in S
    BY <1>1, <1>2
  <2>2. /\ first \in Seq(S) /\ Len(first) = IF 1 <= n THEN n - 1 + 1 ELSE 0
        /\ \A i \in 1 .. n - 1 + 1 : first[i] = s[1 + i - 1]
    BY <2>1, SubSeqProperties
  <2> HIDE DEF first
  <2>3. QED
    BY <1>1, <2>2
<1>4. /\ rest \in Seq(S) /\ Len(rest) = Len(s) - n
      /\ \A i \in 1 .. Len(s) - n : rest[i] = s[n + i]
  <2>1. n + 1 \in Int /\ Len(s) \in Int /\ \A i \in n + 1 .. Len(s) : s[i] \in S
    BY <1>1, <1>2
  <2>2. /\ rest \in Seq(S) /\ Len(rest) = IF n + 1 <= Len(s) THEN Len(s) - (n + 1) + 1 ELSE 0
        /\ \A i \in 1 .. Len(s) - (n + 1) + 1 : rest[i] = s[n + 1 + i - 1]
    BY <2>1, SubSeqProperties
  <2>3. \A i \in 1 .. Len(s) - n : i \in 1 .. Len(s) - (n + 1) + 1 /\ n + 1 + i - 1 = n + i
    BY <1>1
  <2>4. (IF n + 1 <= Len(s) THEN Len(s) - (n + 1) + 1 ELSE 0) = Len(s) - n
    <3>1. ASSUME NEW m \in Nat, n <= m
          PROVE  (IF n + 1 <= m THEN m - (n + 1) + 1 ELSE 0) = m - n
      <4>1. n \in Nat
        BY <1>1
      <4>2. QED
        BY <3>1, <4>1
    <3>2. Len(s) \in Nat /\ n <= Len(s)
      BY <1>1
    <3>3. QED
      BY <3>1, <3>2
  <2> HIDE DEF rest
  <2>5. rest \in Seq(S) /\ Len(rest) = Len(s) - n
    BY <2>2, <2>4
  <2>6. \A i \in 1 .. Len(s) - n : rest[i] = s[n + i]
    BY <2>2, <2>3
  <2>7. QED
    BY <2>5, <2>6
<1>5. DOMAIN first = 1 .. n /\ DOMAIN rest = 1 .. Len(s) - n
  <2> HIDE DEF first, rest
  <2>1. QED
    BY <1>3, <1>4
<1> HIDE DEF first, rest
<1>6. ASSUME NEW i \in 1 .. Len(s) PROVE s[i] \in ToSet(first) \cup ToSet(rest)
  <2>1. CASE i <= n
    BY <1>1, <1>3, <1>5, <2>1 DEF ToSet
  <2>2. CASE i > n
    <3>1. i - n \in DOMAIN rest /\ rest[i - n] = s[i]
      BY <1>1, <1>4, <1>5, <2>2
    <3>2. QED
      BY <3>1 DEF ToSet
  <2>3. QED
    BY <1>1, <2>1, <2>2
<1>7. ToSet(s) \subseteq ToSet(first) \cup ToSet(rest)
  BY <1>1, <1>6 DEF ToSet
<1>8. QED
  BY <1>4, <1>7, RangeSeq DEF first, rest

\* The next ConfigMap takes at least one of the documents that are left.
LEMMA NextConfigMap ==
    ASSUME NEW docs, IsSeq(docs), docs # <<>>
    PROVE  InNextConfigMap(docs) \in 1 .. Len(docs)
<1> DEFINE fit == {n \in DOMAIN docs : n = 1 \/ Size(SubSeq(docs, 1, n)) <= MaxConfigMap}
<1>1. Len(docs) \in Nat /\ DOMAIN docs = 1 .. Len(docs) /\ Len(docs) # 0
  <2>1. docs \in Seq(ToSet(docs))
    BY DEF IsSeq
  <2>2. Len(docs) # 0
    BY <2>1, EmptySeq
  <2>3. QED
    BY <2>2, SeqLen
<1>2. 1 \in DOMAIN docs
  BY <1>1
<1>3. fit \subseteq 1 .. Len(docs) /\ fit # {}
  BY <1>1, <1>2
<1> HIDE DEF fit
<1>4. Max(fit) \in fit
  BY <1>1, <1>3, LargestIn
<1>5. QED
  BY <1>3, <1>4 DEF InNextConfigMap, fit

\* Every bundle of a catalog is a document of it.
LEMMA BundleDocs ==
    ASSUME NEW c, c # None, IsFiniteSet(c.packages), IsSeq(c.channels),
           IsFiniteSet({c.bundles[i] : i \in DOMAIN c.bundles})
    PROVE  IsSeq(Docs(c)) /\ \A i \in DOMAIN c.bundles : c.bundles[i] \in ToSet(Docs(c))
<1> DEFINE bundles == {c.bundles[i] : i \in DOMAIN c.bundles}
           packages == SetToSeq(c.packages)
           last == SetToSeq(bundles)
<1>1. IsSeq(packages)
  BY SetInOrder
<1>2. IsSeq(last) /\ ToSet(last) = bundles
  BY SetInOrder
<1>3. Docs(c) = (packages \o c.channels) \o last
  BY DEF Docs
<1> HIDE DEF bundles, packages, last
<1>4. IsSeq(packages \o c.channels)
  BY <1>1, JoinedSeqs
<1>5. IsSeq(Docs(c)) /\ bundles \subseteq ToSet(Docs(c))
  BY <1>2, <1>3, <1>4, JoinedSeqs
<1>6. QED
  BY <1>5 DEF bundles

LEMMA BlobNames ==
    ASSUME NEW b PROVE BundleBlob(b).name = b /\ BundleBlob(b).package = Package
BY DEF BundleBlob

\* A bundle that a sequence does not have under its name is not in it.
LEMMA NotOf ==
    ASSUME NEW bundles, NEW b, Of(bundles, b) = {}
    PROVE  BundleBlob(b) \notin ToSet(bundles)
<1> SUFFICES ASSUME NEW i \in DOMAIN bundles, bundles[i] = BundleBlob(b) PROVE FALSE
  BY DEF ToSet
<1>1. i \in Of(bundles, b)
  BY BlobNames DEF Of
<1>2. QED
  BY <1>1

\* A bundle of a catalog without duplicates that is appended was not in it.
LEMMA AppendedOnce ==
    ASSUME NEW bundles, IsSeq(bundles), NEW b, ~Duplicates(Append(bundles, BundleBlob(b)))
    PROVE  BundleBlob(b) \notin ToSet(bundles)
<1> DEFINE all == Append(bundles, BundleBlob(b))
           n == Len(bundles)
<1>1. /\ n \in Nat /\ DOMAIN bundles = 1 .. n /\ IsSeq(all) /\ Len(all) = n + 1
      /\ all[n + 1] = BundleBlob(b) /\ \A i \in 1 .. n : all[i] = bundles[i]
  BY AppendSeq, SeqLen
<1>2. DOMAIN all = 1 .. n + 1
  BY <1>1, SeqLen
<1> HIDE DEF all, n
<1> SUFFICES ASSUME NEW i \in DOMAIN bundles, bundles[i] = BundleBlob(b) PROVE FALSE
  BY DEF ToSet
<1>3. i \in DOMAIN all /\ n + 1 \in DOMAIN all /\ i # n + 1 /\ all[i] = all[n + 1]
  BY <1>1, <1>2
<1>4. Duplicates(all)
  BY <1>3 DEF Duplicates
<1>5. QED
  BY <1>4 DEF all

\* The catalogs of run bundle have the bundle, which the index image had not.
LEMMA NewCatalogAdds ==
    ASSUME NEW i \in DOMAIN Index, NEW b \in Bundles, Index[i].fbc, NewCatalog[i][b] # None
    PROVE  /\ BundleBlob(b) \notin ToSet(Index[i].catalog.bundles)
           /\ IsSeq(NewDocs[i][b]) /\ BundleBlob(b) \in ToSet(NewDocs[i][b])
<1> DEFINE index == Index[i].catalog
           made == IF i = Default THEN CreateFBC(b) ELSE GenerateFBC(index, b)
<1>1. NewCatalog[i][b] = GenerateFBCContent(i = Default, index, b)
  BY DEF NewCatalog
<1>2. made # None /\ NewCatalog[i][b] = made
  BY <1>1 DEF GenerateFBCContent, Validated
<1>3. NewDocs[i][b] = Docs(made)
  <2>1. NewDocs[i][b] = Docs(NewCatalog[i][b])
    BY DEF NewDocs
  <2>2. QED
    BY <1>2, <2>1
<1>4. /\ CreateFBC(b).packages = {PackageBlob(DefaultChannel)}
      /\ CreateFBC(b).channels = <<Channel(DefaultChannel, <<Entry(b, None)>>)>>
      /\ CreateFBC(b).bundles = <<BundleBlob(b)>>
  BY DEF CreateFBC
<1>5. CASE i = Default
  <2>1. ToSet(index.bundles) = {}
    <3>1. index.bundles = <<>>
      BY <1>5, IndexAssumption DEF EmptyCatalog
    <3>2. QED
      BY <3>1 DEF ToSet
  <2>2. made = CreateFBC(b)
    BY <1>5
  <2>3. IsFiniteSet(made.packages) /\ IsSeq(made.channels) /\ IsSeq(made.bundles)
    <3>1. /\ made.packages = {PackageBlob(DefaultChannel)}
          /\ made.channels = <<Channel(DefaultChannel, <<Entry(b, None)>>)>>
          /\ made.bundles = <<BundleBlob(b)>>
      BY <1>4, <2>2
    <3>2. QED
      BY <3>1, OneItem, FS_Singleton
  <2>4. 1 \in DOMAIN made.bundles /\ made.bundles[1] = BundleBlob(b)
    BY <1>4, <2>2
  <2> HIDE DEF made
  <2>5. IsFiniteSet({made.bundles[j] : j \in DOMAIN made.bundles})
    BY <2>3, RangeFinite DEF ToSet
  <2>6. IsSeq(Docs(made)) /\ made.bundles[1] \in ToSet(Docs(made))
    BY <1>2, <2>3, <2>4, <2>5, BundleDocs
  <2>7. QED
    BY <1>3, <2>1, <2>4, <2>6
<1>6. CASE i # Default
  <2>1. /\ IsFiniteSet(index.packages) /\ IsSeq(index.channels) /\ IsSeq(index.bundles)
    BY IndexAssumption DEF IsCatalog, IsSeq
  <2>2. /\ Of(index.bundles, b) = {}
        /\ made.packages \in {{}, index.packages \cup {PackageBlob(DefaultChannel)}}
        /\ made.channels = index.channels \o <<Channel(DefaultChannel, <<Entry(b, None)>>)>>
        /\ made.bundles = index.bundles \o <<BundleBlob(b)>>
    BY <1>2, <1>4, <1>6 DEF GenerateFBC
  <2>3. IsFiniteSet(made.packages)
    <3>1. IsFiniteSet({}) /\ IsFiniteSet(index.packages \cup {PackageBlob(DefaultChannel)})
      BY <2>1, FS_EmptySet, FS_AddElement
    <3> HIDE DEF made
    <3>2. QED
      BY <2>2, <3>1
  <2>4. IsSeq(made.channels) /\ IsSeq(made.bundles) /\ BundleBlob(b) \in ToSet(made.bundles)
    <3>1. ASSUME NEW x PROVE IsSeq(<<x>>) /\ x \in ToSet(<<x>>)
      <4>1. 1 \in DOMAIN <<x>> /\ <<x>>[1] = x
        OBVIOUS
      <4>2. QED
        BY <4>1, OneItem DEF ToSet
    <3> HIDE DEF index, made
    <3>2. QED
      BY <2>1, <2>2, <3>1, JoinedSeqs
  <2> HIDE DEF made
  <2>5. IsFiniteSet({made.bundles[j] : j \in DOMAIN made.bundles})
    BY <2>4, RangeFinite DEF ToSet
  <2>6. PICK j \in DOMAIN made.bundles : made.bundles[j] = BundleBlob(b)
    BY <2>4 DEF ToSet
  <2>7. IsSeq(Docs(made)) /\ made.bundles[j] \in ToSet(Docs(made))
    BY <1>2, <2>3, <2>4, <2>5, BundleDocs
  <2>8. BundleBlob(b) \notin ToSet(index.bundles)
    BY <2>2, NotOf
  <2>9. QED
    BY <1>3, <2>6, <2>7, <2>8
<1>7. QED
  BY <1>5, <1>6

\* A sequence of records one of which is changed, if it is there.
LEMMA ChangedSeq ==
    ASSUME NEW s, IsSeq(s), NEW i, NEW x
    PROVE  IsSeq([s EXCEPT ![i] = x])
<1>1. DOMAIN s = 1 .. Len(s)
  BY SeqLen
<1>2. CASE i \in 1 .. Len(s)
  BY <1>2, UpdateSeq
<1>3. CASE i \notin 1 .. Len(s)
  <2>1. s \in [1 .. Len(s) -> ToSet(s)]
    BY LenProperties DEF IsSeq
  <2>2. [s EXCEPT ![i] = x] = s
    BY <1>1, <1>3, <2>1
  <2>3. QED
    BY <2>2
<1>4. QED
  BY <1>2, <1>3

\* So have those of the first upgrade of what OLM installed.
LEMMA TraditionalAdds ==
    ASSUME NEW i \in DOMAIN Index, NEW b, NEW channel, NEW c, c # None,
           c \in HandleTraditionalUpgrade(Index[i].catalog, b, channel)
    PROVE  /\ BundleBlob(b) \notin ToSet(Index[i].catalog.bundles)
           /\ IsSeq(Docs(c)) /\ BundleBlob(b) \in ToSet(Docs(c))
<1> DEFINE index == Index[i].catalog
           added == [index EXCEPT !.bundles = Append(@, BundleBlob(b))]
<1>1. /\ IsFiniteSet(index.packages) /\ IsSeq(index.channels) /\ IsSeq(index.bundles)
      /\ DOMAIN index = {"packages", "channels", "bundles"}
  BY IndexAssumption DEF IsCatalog, IsSeq, EmptyCatalog
<1>2. /\ added.packages = index.packages /\ added.channels = index.channels
      /\ added.bundles = Append(index.bundles, BundleBlob(b))
      /\ DOMAIN added = {"packages", "channels", "bundles"}
  <2> DEFINE more == Append(index.bundles, BundleBlob(b))
  <2>1. added = [index EXCEPT !.bundles = more]
    OBVIOUS
  <2> HIDE DEF index, added, more
  <2>2. /\ added.packages = index.packages /\ added.channels = index.channels
        /\ added.bundles = more /\ DOMAIN added = {"packages", "channels", "bundles"}
    BY <1>1, <2>1
  <2>3. QED
    BY <2>2 DEF more
<1> HIDE DEF added
<1>3. \/ c = Validated(added)
      \/ \E j, x : c = Validated([added EXCEPT !.channels[j].entries = x])
  BY DEF HandleTraditionalUpgrade, added
<1>4. /\ Valid(c) /\ c.packages = added.packages /\ c.bundles = added.bundles
      /\ IsSeq(c.channels)
  <2>1. CASE c = Validated(added)
    BY <1>1, <1>2, <2>1 DEF Validated
  <2>2. ASSUME NEW j, NEW x, c = Validated([added EXCEPT !.channels[j].entries = x])
        PROVE  /\ Valid(c) /\ c.packages = added.packages /\ c.bundles = added.bundles
               /\ IsSeq(c.channels)
    <3> DEFINE channels == [added.channels EXCEPT ![j].entries = x]
    <3>1. c = [added EXCEPT !.channels = channels] /\ Valid(c)
      BY <2>2 DEF Validated
    <3>2. IsSeq(channels)
      BY <1>1, <1>2, ChangedSeq
    <3> HIDE DEF channels
    <3>3. QED
      BY <1>2, <3>1, <3>2
  <2>3. QED
    BY <1>3, <2>1, <2>2
<1>5. ~Duplicates(c.bundles)
  BY <1>4 DEF Valid
<1>6. BundleBlob(b) \notin ToSet(index.bundles)
  BY <1>1, <1>2, <1>4, <1>5, AppendedOnce
<1>7. /\ IsSeq(c.bundles) /\ Len(index.bundles) + 1 \in DOMAIN c.bundles
      /\ c.bundles[Len(index.bundles) + 1] = BundleBlob(b)
  <2>1. /\ IsSeq(c.bundles) /\ Len(c.bundles) = Len(index.bundles) + 1
        /\ c.bundles[Len(index.bundles) + 1] = BundleBlob(b) /\ Len(index.bundles) \in Nat
    BY <1>1, <1>2, <1>4, AppendSeq, SeqLen
  <2>2. QED
    BY <2>1, SeqLen
<1>8. IsFiniteSet({c.bundles[j] : j \in DOMAIN c.bundles})
  BY <1>7, RangeFinite DEF ToSet
<1>9. IsSeq(Docs(c)) /\ c.bundles[Len(index.bundles) + 1] \in ToSet(Docs(c))
  BY <1>1, <1>2, <1>4, <1>7, <1>8, BundleDocs
<1>10. QED
  BY <1>6, <1>7, <1>9

\* Every bundle of a chain has its entry.
LEMMA ChainNames ==
    ASSUME NEW refs, IsSeq(refs), refs # <<>>, NEW head
    PROVE  LET chain == ChainOf(refs, head) IN
           /\ refs[Len(refs)] \in NamesIn(chain)
           /\ refs[Len(refs)] \in NamesIn(<<Last(chain)>>)
<1> DEFINE chain == ChainOf(refs, head)
           n == Len(refs)
<1>1. n \in Nat /\ DOMAIN refs = 1 .. n /\ n # 0
  <2>1. refs \in Seq(ToSet(refs))
    BY DEF IsSeq
  <2>2. n # 0
    BY <2>1, EmptySeq
  <2>3. QED
    BY <2>2, SeqLen
<1>2. DOMAIN chain = 1 .. n /\ \A i \in 1 .. n : chain[i].name = refs[i]
  BY <1>1 DEF ChainOf, Entry
<1>3. chain \in Seq({chain[i] : i \in 1 .. n})
  <2>1. chain = [i \in 1 .. n |-> chain[i]]
    BY <1>1 DEF ChainOf
  <2> HIDE DEF chain, n
  <2>2. chain \in [1 .. n -> {chain[i] : i \in 1 .. n}]
    BY <2>1
  <2>3. QED
    BY <1>1, <2>2, SeqDef
<1> HIDE DEF chain, n
<1>4. Len(chain) = n
  BY <1>1, <1>2, <1>3
<1>5. n \in DOMAIN chain /\ chain[n].name = refs[n]
  BY <1>1, <1>2
<1>6. refs[n] \in NamesIn(chain)
  BY <1>5 DEF NamesIn
<1>7. refs[n] \in NamesIn(<<Last(chain)>>)
  <2>1. 1 \in DOMAIN <<Last(chain)>> /\ <<Last(chain)>>[1] = chain[n]
    BY <1>4 DEF Last
  <2>2. QED
    BY <1>5, <2>1 DEF NamesIn
<1>8. QED
  BY <1>6, <1>7 DEF chain, n

\* The catalog of a later upgrade has the bundles that were added so far and the
\* new one, none of which the index image has.
LEMMA UpgradeAdds ==
    ASSUME NEW i \in DOMAIN Index, NEW previous, IsSeq(previous), NEW b, NEW channel,
           NEW c, c # None,
           c \in RunFBCUpgrade(i = Default, Index[i].catalog, previous, b, channel),
           \A j \in DOMAIN previous : BundleBlob(previous[j]) \notin
                                          ToSet(Index[i].catalog.bundles)
    PROVE  /\ BundleBlob(b) \notin ToSet(Index[i].catalog.bundles)
           /\ IsSeq(Docs(c)) /\ BundleBlob(b) \in ToSet(Docs(c))
           /\ \A j \in DOMAIN previous : BundleBlob(previous[j]) \in ToSet(Docs(c))
<1> DEFINE index == IF i = Default THEN EmptyCatalog ELSE Index[i].catalog
           refs == Append(previous, b)
           n == Len(previous)
           kept == {j \in DOMAIN refs : BundleBlob(refs[j]) \notin ToSet(index.bundles)}
           bundles == [j \in kept |-> BundleBlob(refs[j])]
           catalog(entries) == [packages |-> {PackageBlob(channel)},
                                channels |-> <<Channel(channel, entries)>>,
                                bundles |-> bundles]
<1>1. index = Index[i].catalog
  BY IndexAssumption
<1>2. /\ n \in Nat /\ DOMAIN previous = 1 .. n /\ IsSeq(refs) /\ refs # <<>> /\ Len(refs) = n + 1
      /\ refs[n + 1] = b /\ \A j \in 1 .. n : refs[j] = previous[j]
  BY AppendSeq, SeqLen
<1>3. DOMAIN refs = 1 .. n + 1
  BY <1>2, SeqLen
<1> HIDE DEF index, refs, n
<1>4. PICK entries : b \in NamesIn(entries) /\ c = Validated(catalog(entries))
  <2>1. PICK d \in UpgradeFBC(index, refs, channel) : c = Validated(d)
    BY DEF RunFBCUpgrade, index, refs
  <2>2. d # None
    BY <2>1 DEF Validated
  <2>3. \/ d = catalog(ChainOf(refs, None))
        \/ \E head : d = catalog(<<Last(ChainOf(refs, head))>>)
    BY <2>1, <2>2 DEF UpgradeFBC
  <2> HIDE DEF catalog
  <2>4. ASSUME NEW head PROVE /\ b \in NamesIn(ChainOf(refs, head))
                              /\ b \in NamesIn(<<Last(ChainOf(refs, head))>>)
    BY <1>2, ChainNames
  <2>5. QED
    BY <2>1, <2>3, <2>4
<1>5. c = catalog(entries) /\ Valid(c)
  BY <1>4 DEF Validated
<1>6. /\ c.packages = {PackageBlob(channel)} /\ c.channels = <<Channel(channel, entries)>>
      /\ c.bundles = bundles
  BY <1>5
<1>7. b \in InChannels(c, Package)
  <2>1. /\ 1 \in DOMAIN c.channels /\ c.channels[1].package = Package
        /\ c.channels[1].entries = entries
    BY <1>6 DEF Channel
  <2> HIDE DEF catalog, bundles
  <2>2. QED
    BY <1>4, <2>1 DEF InChannels
<1>8. b \in {c.bundles[j].name : j \in {k \in DOMAIN c.bundles : c.bundles[k].package = Package}}
  <2>1. PackageBlob(channel) \in c.packages /\ PackageBlob(channel).name = Package
    BY <1>6 DEF PackageBlob
  <2> HIDE DEF catalog, bundles
  <2>2. InChannels(c, Package) = {c.bundles[j].name :
                                    j \in {k \in DOMAIN c.bundles : c.bundles[k].package = Package}}
    BY <1>5, <2>1 DEF Valid
  <2>3. QED
    BY <1>7, <2>2
<1>9. PICK at \in kept : refs[at] = b
  <2>1. PICK j \in DOMAIN c.bundles : c.bundles[j].name = b
    BY <1>8
  <2>2. j \in kept /\ c.bundles[j] = BundleBlob(refs[j])
    BY <1>6, <2>1
  <2>3. QED
    BY <2>1, <2>2, BlobNames
<1>10. BundleBlob(b) \notin ToSet(index.bundles)
  BY <1>9
<1>11. \A k \in 1 .. n + 1 : k \in kept
  <2>1. ASSUME NEW k \in 1 .. n PROVE k \in kept
    <3>1. k \in DOMAIN refs /\ refs[k] = previous[k] /\ k \in DOMAIN previous
      BY <1>2, <1>3
    <3>2. QED
      BY <1>1, <3>1
  <2>2. n + 1 \in kept
    BY <1>2, <1>3, <1>10
  <2>3. \A k \in 1 .. n + 1 : k \in 1 .. n \/ k = n + 1
    BY <1>2
  <2> HIDE DEF kept
  <2>4. QED
    BY <2>1, <2>2, <2>3
<1>12. IsFiniteSet({c.bundles[k] : k \in DOMAIN c.bundles})
  <2> DEFINE all == {c.bundles[k] : k \in DOMAIN c.bundles}
  <2>1. kept = 1 .. n + 1
    BY <1>3, <1>11
  <2>2. DOMAIN bundles = 1 .. n + 1 /\ bundles = [k \in 1 .. n + 1 |-> bundles[k]]
    BY <2>1
  <2> HIDE DEF bundles
  <2>3. bundles \in Surjection(1 .. n + 1, all)
    <3>1. bundles \in Surjection(1 .. n + 1, {bundles[k] : k \in 1 .. n + 1})
      BY <2>2, RangeOnto
    <3>2. all = {bundles[k] : k \in 1 .. n + 1}
      BY <1>6, <2>2
    <3>3. QED
      BY <3>1, <3>2
  <2>4. IsFiniteSet(1 .. n + 1)
    BY <1>2, FS_Interval
  <2> HIDE DEF all
  <2>5. IsFiniteSet(all)
    BY <2>3, <2>4, FS_Surjection
  <2>6. QED
    BY <2>5 DEF all
<1>13. IsSeq(Docs(c)) /\ \A k \in DOMAIN c.bundles : c.bundles[k] \in ToSet(Docs(c))
  <2>1. IsFiniteSet(c.packages) /\ IsSeq(c.channels)
    <3>1. IsFiniteSet({PackageBlob(channel)}) /\ IsSeq(<<Channel(channel, entries)>>)
      BY OneItem, FS_Singleton
    <3>2. QED
      BY <1>6, <3>1
  <2>2. c # None
    OBVIOUS
  <2> HIDE DEF catalog, bundles
  <2>3. QED
    BY <1>12, <2>1, <2>2, BundleDocs
<1>14. \A k \in 1 .. n + 1 : BundleBlob(refs[k]) \in ToSet(Docs(c))
  <2>1. \A k \in 1 .. n + 1 : k \in DOMAIN c.bundles /\ c.bundles[k] = BundleBlob(refs[k])
    BY <1>6, <1>11
  <2> HIDE DEF catalog, bundles
  <2>2. QED
    BY <1>13, <2>1
<1>15. /\ BundleBlob(b) \in ToSet(Docs(c))
       /\ \A j \in DOMAIN previous : BundleBlob(previous[j]) \in ToSet(Docs(c))
  <2>1. \A k \in 1 .. n : k \in 1 .. n + 1
    BY <1>2
  <2>2. n + 1 \in 1 .. n + 1
    BY <1>2
  <2>3. QED
    BY <1>2, <1>14, <2>1, <2>2
<1>16. QED
  BY <1>1, <1>10, <1>13, <1>15

----------------------------------------------------------------------------
(* Where the bundles of a file-based catalog are                           *)

Filling == {"source", "maps", "pod"}

LEMMA InitContent == Init => ContentInv
<1> SUFFICES ASSUME Init PROVE ContentInv
  OBVIOUS
<1>1. /\ pc = "idle" /\ maps = [i \in 1 .. MaxMaps |-> NoMap]
      /\ \/ catsrc = NoSource(0)
         \/ \E t \in Traditional :
               catsrc = [NoSource(0) EXCEPT !.exists = TRUE, !.image = t.index]
  BY DEF Init
<1>2. catsrc.items = <<>> /\ catsrc.pod = None /\ catsrc.image \in DOMAIN Index \cup {None}
  <2>1. CASE catsrc = NoSource(0)
    BY <2>1 DEF NoSource
  <2>2. ASSUME NEW t \in Traditional,
               catsrc = [NoSource(0) EXCEPT !.exists = TRUE, !.image = t.index]
        PROVE  catsrc.items = <<>> /\ catsrc.pod = None /\ catsrc.image \in DOMAIN Index
    BY <2>2, TraditionalAssumption DEF NoSource
  <2>3. QED
    BY <1>1, <2>1, <2>2
<1>3. CatalogServed
  BY <1>2, BundleAssumption DEF CatalogServed, PodOfSource
<1>4. DOMAIN maps = 1 .. MaxMaps
  BY <1>1
<1>5. QED
  BY <1>1, <1>2, <1>3, <1>4 DEF ContentInv

\* What is about other things than the catalog source, its pods and ConfigMaps.
LEMMA OtherThings ==
    ASSUME ContentInv, UNCHANGED <<op, pc, arg, catsrc, maps, pods>>
    PROVE  ContentInv'
BY DEF ContentInv, WrittenInv, Held, CatalogServed, PodOfSource

\* A command that does not make a catalog any more, or never does, goes on.
LEMMA GoesOn ==
    ASSUME ContentInv, UNCHANGED <<op, catsrc, maps, pods>>,
           arg'.index = arg.index, arg'.items = arg.items,
           pc' # "idle" => pc # "idle",
           pc' \in Filling \cup Making => op = "manifests"
    PROVE  ContentInv'
<1>1. CatalogServed'
  BY DEF ContentInv, CatalogServed, PodOfSource
<1>2. pc' # "idle" /\ op' # "manifests" => Added(arg'.index, arg'.items) /\ WrittenInv'
  BY DEF ContentInv, WrittenInv, Filling
<1>3. QED
  BY <1>1, <1>2 DEF ContentInv

LEMMA ContentGoesOn ==
    ASSUME InstallInv, ContentInv,
           \/ Fails \/ InstalledCSV \/ AwaitGone \/ EnsureOperatorGroup \/ CreateSubscription
           \/ WaitForInstallPlan \/ ApproveInstallPlan
           \/ CheckRegistry \/ DeleteStale \/ CreateData \/ CreateDeployment \/ CreateService
           \/ AwaitRollout
    PROVE  ContentInv'
<1>1. CASE Fails \/ InstalledCSV \/ AwaitGone \/ EnsureOperatorGroup
  BY <1>1, GoesOn DEF Fails, InstalledCSV, AwaitGone, EnsureOperatorGroup, End, Goto, cluster,
                      Filling, Making
<1>2. CASE CreateSubscription \/ ApproveInstallPlan
  BY <1>2, GoesOn DEF CreateSubscription, ApproveInstallPlan, End, Goto, Filling, Making
<1>3. CASE WaitForInstallPlan
  <2>1. /\ UNCHANGED <<op, catsrc, maps, pods>> /\ pc' = "approve" /\ pc = "plan"
        /\ arg' = [arg EXCEPT !.ref = sub.plan] /\ DOMAIN arg = DOMAIN NoArg
    BY <1>3 DEF WaitForInstallPlan, cluster, InstallInv, ShapeInv
  <2>2. arg'.index = arg.index /\ arg'.items = arg.items
    BY <2>1 DEF NoArg
  <2>3. QED
    BY <2>1, <2>2, GoesOn DEF Filling, Making
<1>4. CASE CheckRegistry \/ DeleteStale \/ CreateData \/ CreateDeployment \/ CreateService
             \/ AwaitRollout
  <2>1. /\ pc \in Registering /\ pc' \in Registering \cup {"link"}
        /\ UNCHANGED <<op, arg, catsrc, maps, pods>>
    BY <1>4 DEF CheckRegistry, DeleteStale, CreateData, CreateDeployment, CreateService,
                CreateObject, AwaitRollout, Goto, cluster, Registering
  <2>2. op = "manifests"
    BY <2>1 DEF InstallInv, StepsInv, Attached, Registering
  <2>3. QED
    BY <2>1, <2>2, GoesOn DEF Registering
<1>5. QED
  BY <1>1, <1>2, <1>3, <1>4

LEMMA ContentCreateSource ==
    ASSUME InstallInv, ContentInv, CreateSource PROVE ContentInv'
<1>1. pc = "source" /\ UNCHANGED <<op, arg, maps, pods>>
  BY DEF CreateSource, Goto, End
<1>2. CASE catsrc.exists
  BY <1>1, <1>2, GoesOn DEF CreateSource, End, Filling, Making
<1>3. CASE ~catsrc.exists
  <2>1. /\ catsrc' = [NoSource(catsrc.uid + 1) EXCEPT !.exists = TRUE]
        /\ pc' = IF op = "bundle" THEN "maps" ELSE "registry"
    BY <1>3 DEF CreateSource, Goto
  <2>2. catsrc'.items = <<>> /\ catsrc'.pod = None /\ catsrc'.image = None
    BY <2>1 DEF NoSource
  <2>3. CatalogServed'
    BY <2>2, BundleAssumption DEF CatalogServed, PodOfSource
  <2>4. op' # "manifests" => Added(arg'.index, arg'.items) /\ WrittenInv'
    <3>1. op # "manifests" => op = "bundle"
      BY <1>1 DEF InstallInv, StepsInv, Attached
    <3>2. QED
      BY <1>1, <2>1, <3>1 DEF ContentInv, WrittenInv, Held, Making
  <2>5. QED
    BY <1>1, <2>2, <2>3, <2>4 DEF ContentInv
<1>4. QED
  BY <1>2, <1>3

LEMMA ContentCreateConfigMap ==
    ASSUME InstallInv, ContentInv, CreateConfigMap PROVE ContentInv'
<1>1. /\ pc = "maps" /\ UNCHANGED <<op, catsrc, pods>> /\ op # "manifests"
      /\ DOMAIN arg = DOMAIN NoArg /\ DOMAIN maps = 1 .. MaxMaps /\ MaxMaps \in Nat
      /\ Added(arg.index, arg.items) /\ WrittenInv
  BY LimitsAssumption
     DEF CreateConfigMap, Goto, ContentInv, InstallInv, ShapeInv, StepsInv, Attached
<1>2. CatalogServed'
  BY <1>1 DEF ContentInv, CatalogServed, PodOfSource
<1>3. CASE arg.docs = <<>>
  <2>1. pc' = "pod" /\ UNCHANGED <<arg, maps>>
    BY <1>3 DEF CreateConfigMap, Goto
  <2>2. \A d : d \notin ToSet(arg.docs)
    BY <1>3 DEF ToSet
  <2>3. WrittenInv'
    BY <1>1, <2>1, <2>2 DEF WrittenInv, Held, Making
  <2>4. QED
    BY <1>1, <1>2, <2>1, <2>3 DEF ContentInv
<1>4. CASE arg.docs # <<>>
  <2> DEFINE i == arg.written + 1
             n == InNextConfigMap(arg.docs)
             first == SubSeq(arg.docs, 1, n)
             rest == SubSeq(arg.docs, n + 1, Len(arg.docs))
  <2>1. /\ pc' = pc /\ i <= MaxMaps
        /\ maps' = [maps EXCEPT ![i] = CreatedOrUpdated(@, first)]
        /\ arg' = [arg EXCEPT !.written = i, !.docs = rest]
    BY <1>4 DEF CreateConfigMap
  <2>2. /\ arg'.index = arg.index /\ arg'.items = arg.items
        /\ arg'.written = i /\ arg'.docs = rest
    BY <1>1, <2>1 DEF NoArg
  <2>3. DOMAIN maps' = 1 .. MaxMaps
    BY <1>1, <2>1
  <2>4. Index[arg.index].fbc => WrittenInv'
    <3> SUFFICES ASSUME Index[arg.index].fbc PROVE WrittenInv'
      OBVIOUS
    <3>1. /\ IsSeq(arg.docs) /\ arg.written \in Nat
          /\ \A d \in Blobs(arg.items) : d \in ToSet(arg.docs) \/ Held(d, arg.written)
      BY <1>1 DEF WrittenInv
    <3>2. n \in 1 .. Len(arg.docs)
      BY <1>4, <3>1, NextConfigMap
    <3>3. IsSeq(rest) /\ ToSet(arg.docs) \subseteq ToSet(first) \cup ToSet(rest)
      BY <3>1, <3>2, SplitDocs
    <3>4. i \in 1 .. MaxMaps /\ maps'[i].docs = first
      <4>1. i \in 1 .. MaxMaps
        BY <1>1, <2>1, <3>1
      <4>2. maps'[i] = CreatedOrUpdated(maps[i], first)
        BY <1>1, <2>1, <4>1
      <4> HIDE DEF i, first
      <4>3. QED
        BY <4>1, <4>2 DEF CreatedOrUpdated
    <3>5. \A k \in 1 .. arg.written : k \in 1 .. i /\ maps'[k] = maps[k]
      BY <1>1, <2>1, <2>3, <3>1
    <3> HIDE DEF n, first, rest
    <3>6. ASSUME NEW d \in Blobs(arg.items) 
                 PROVE  d \in ToSet(rest) \/ Held(d, arg.written)'
      <4>1. CASE d \in ToSet(first)
        <5>1. i \in 1 .. i
          BY <3>1
        <5>2. QED
          BY <3>4, <4>1, <5>1, <2>2 DEF Held
      <4>2. CASE Held(d, arg.written)
        <5>1. PICK k \in 1 .. arg.written : maps[k] = NoMap \/ d \in ToSet(maps[k].docs)
          BY <4>2 DEF Held
        <5>2. k \in 1 .. i /\ maps'[k] = maps[k]
          BY <3>5
        <5>3. QED
          BY <2>2, <5>1, <5>2 DEF Held
      <4>3. QED
        BY <3>1, <3>3, <4>1, <4>2
    <3>7. i \in Nat
      BY <3>1
    <3>8. /\ pc' = "maps" /\ IsSeq(arg'.docs) /\ arg'.written \in Nat
          /\ \A d \in Blobs(arg'.items) : d \in ToSet(arg'.docs) \/ Held(d, arg.written)'
      BY <1>1, <2>1, <2>2, <3>3, <3>6, <3>7
    <3>9. QED
      BY <3>8 DEF WrittenInv, Making
  <2>5. WrittenInv'
    BY <2>2, <2>4 DEF WrittenInv
  <2>6. QED
    BY <1>1, <1>2, <2>1, <2>2, <2>3, <2>5 DEF ContentInv
<1>5. QED
  BY <1>3, <1>4

LEMMA ContentCreatePod ==
    ASSUME InstallInv, InstallInv', ContentInv, CreatePod PROVE ContentInv'
<1>1. /\ pc = "pod" /\ UNCHANGED <<op, arg, maps, catsrc>> /\ op # "manifests"
      /\ arg.bundle \in Bundles /\ DOMAIN pods = Bundles
      /\ Added(arg.index, arg.items) /\ WrittenInv
  BY DEF CreatePod, Goto, End, InstallInv, ShapeInv, StepsInv, Attached, ContentInv
<1>2. CASE pods[arg.bundle] # NoPod
  BY <1>1, <1>2, GoesOn DEF CreatePod, End, Filling, Making
<1>3. CASE pods[arg.bundle] = NoPod
  <2>1. pods' = [pods EXCEPT ![arg.bundle] = NewPod] /\ pc' = "running"
    BY <1>3 DEF CreatePod, Goto
  <2>2. /\ pods'[arg.bundle] = NewPod
        /\ \A b \in Bundles : b # arg.bundle => pods'[b] = pods[b]
    BY <1>1, <2>1
  <2>3. NewPod.phase = "Pending" /\ NewPod.maps = arg.written
    BY DEF NewPod
  <2>4. catsrc.exists /\ catsrc.pod \in Bundles => catsrc.pod # arg.bundle
    BY <1>3, NamesAssumption DEF ContentInv, CatalogServed, PodOfSource, NoPod
  <2>5. CatalogServed'
    <3>1. PodOfSource'
      BY DEF InstallInv, SourceInv
    <3>2. QED
      BY <1>1, <2>2, <2>4, <3>1 DEF ContentInv, CatalogServed
  <2>6. WrittenInv'
    BY <1>1, <2>1, <2>2, <2>3 DEF WrittenInv, Held, Making
  <2>7. QED
    BY <1>1, <2>5, <2>6 DEF ContentInv
<1>4. QED
  BY <1>2, <1>3

LEMMA ContentAwaitPod == ASSUME InstallInv, ContentInv, AwaitPod PROVE ContentInv'
<1>1. pc = "running" /\ UNCHANGED <<op, arg, catsrc, maps, pods>>
  BY DEF AwaitPod, End, Goto, cluster
<1>2. CASE pc' = "idle"
  BY <1>1, <1>2, GoesOn DEF Filling, Making
<1>3. CASE pc' = "link"
  BY <1>1, <1>3 DEF ContentInv, WrittenInv, Held, Making, CatalogServed, PodOfSource
<1>4. pc' \in {"idle", "link"}
  BY DEF AwaitPod, End, Goto
<1>5. QED
  BY <1>2, <1>3, <1>4

LEMMA ContentLinkSource ==
    ASSUME InstallInv, InstallInv', ContentInv, LinkSource PROVE ContentInv'
<1>1. /\ pc = "link" /\ catsrc.exists /\ UNCHANGED <<op, arg, maps, pods>>
      /\ DOMAIN catsrc = DOMAIN NoSource(0)
  BY DEF LinkSource, Link, Goto, End, InstallInv, StepsInv, ShapeInv
<1>2. /\ catsrc' = IF op = "manifests" THEN [catsrc EXCEPT !.pod = "service"]
                   ELSE [catsrc EXCEPT !.pod = arg.bundle, !.index = arg.index,
                            !.items = arg.items, !.image = IF op = "upgrade" THEN None ELSE @]
      /\ pc' \in {"group", "plan", "old"}
  BY <1>1 DEF LinkSource, Link, Goto
<1>3. /\ op = "manifests" => /\ catsrc'.pod = "service" /\ catsrc'.items = catsrc.items
                             /\ catsrc'.index = catsrc.index /\ catsrc'.image = catsrc.image
      /\ op # "manifests" => /\ catsrc'.pod = arg.bundle /\ catsrc'.items = arg.items
                             /\ catsrc'.index = arg.index
                             /\ catsrc'.image \in {None, catsrc.image}
  BY <1>1, <1>2 DEF NoSource
<1>4. CatalogServed'
  <2>1. PodOfSource'
    BY DEF InstallInv, SourceInv
  <2>2. CASE op = "manifests"
    BY <1>3, <2>1, <2>2, NamesAssumption DEF CatalogServed
  <2>3. CASE op # "manifests"
    <3>1. /\ pods[arg.bundle].index = arg.index /\ pods[arg.bundle].items = arg.items
          /\ pods[arg.bundle].phase = "Running"
      BY <1>1, <2>3 DEF InstallInv, SourceInv, Making
    <3>2. Index[arg.index].fbc => Blobs(arg.items) \subseteq pods[arg.bundle].serves.bundles
      BY <1>1, <2>3, <3>1 DEF ContentInv, WrittenInv, Making
    <3>3. QED
      BY <1>1, <1>3, <2>1, <2>3, <3>1, <3>2 DEF CatalogServed
  <2>4. QED
    BY <2>2, <2>3
<1>5. op' # "manifests" => Added(arg'.index, arg'.items) /\ WrittenInv'
  BY <1>1, <1>2 DEF ContentInv, WrittenInv, Making
<1>6. QED
  BY <1>1, <1>3, <1>4, <1>5 DEF ContentInv

LEMMA ContentDeleteOld ==
    ASSUME InstallInv, InstallInv', ContentInv, DeleteOld PROVE ContentInv'
<1>1. /\ pc = "old" /\ UNCHANGED <<op, arg, catsrc, maps>> /\ DOMAIN pods = Bundles
      /\ catsrc.pod = arg.bundle /\ arg.old \in Bundles \ {arg.bundle}
  BY DEF DeleteOld, Goto, End, InstallInv, ShapeInv, StepsInv, SourceInv, Attached
<1>2. pc' \in {"idle", "gone"} /\ \A b \in Bundles : b # arg.old => pods'[b] = pods[b]
  BY <1>1 DEF DeleteOld, End, Goto
<1>3. CatalogServed'
  <2>1. PodOfSource'
    BY DEF InstallInv, SourceInv
  <2>2. QED
    BY <1>1, <1>2, <2>1 DEF ContentInv, CatalogServed
<1>4. pc' # "idle" /\ op' # "manifests" => Added(arg'.index, arg'.items) /\ WrittenInv'
  BY <1>1, <1>2 DEF ContentInv, WrittenInv, Making
<1>5. QED
  BY <1>1, <1>3, <1>4 DEF ContentInv

\* A pod that starts has every bundle of the ConfigMaps that it mounts.
LEMMA ContentStartPod ==
    ASSUME InstallInv, InstallInv', ContentInv, NEW b \in Bundles, StartPod(b)
    PROVE  ContentInv'
<1> DEFINE mounted == UNION {ToSet(maps[i].docs) : i \in 1 .. pods[b].maps}
<1>1. /\ pods[b].phase = "Pending" /\ UNCHANGED <<op, pc, arg, catsrc, maps>>
      /\ \A i \in 1 .. pods[b].maps : maps[i] # NoMap
      /\ DOMAIN pods = Bundles /\ DOMAIN pods[b] = DOMAIN NoPod
  BY DEF StartPod, command, InstallInv, ShapeInv
<1>2. PICK s : /\ pods' = [pods EXCEPT ![b].phase = "Running", ![b].serves = s]
               /\ Index[pods[b].index].fbc => s = Contents(mounted)
  BY DEF StartPod
<1> HIDE DEF mounted
<1>3. /\ pods'[b].phase = "Running" /\ pods'[b].serves = s
      /\ \A c \in Bundles : c # b => pods'[c] = pods[c]
  BY <1>1, <1>2 DEF NoPod
<1>4. CatalogServed'
  <2>1. PodOfSource'
    BY DEF InstallInv, SourceInv
  <2>2. catsrc.exists /\ catsrc.pod \in Bundles => catsrc.pod # b
    BY <1>1 DEF ContentInv, CatalogServed, PodOfSource
  <2>3. QED
    BY <1>1, <1>3, <2>1, <2>2 DEF ContentInv, CatalogServed
<1>5. ASSUME NEW d, IsBundle(d), Held(d, pods[b].maps) PROVE d \in Contents(mounted).bundles
  <2>1. PICK i \in 1 .. pods[b].maps : d \in ToSet(maps[i].docs)
    BY <1>1, <1>5 DEF Held
  <2>2. d \in mounted
    BY <2>1 DEF mounted
  <2>3. QED
    BY <1>5, <2>2 DEF Contents
<1>6. \A d \in Blobs(arg.items) : IsBundle(d)
  BY DEF Blobs, BundleBlob, IsBundle
<1>7. pc # "idle" /\ op # "manifests" => WrittenInv'
  <2> SUFFICES ASSUME pc # "idle", op # "manifests", Index[arg.index].fbc PROVE WrittenInv'
    BY <1>1 DEF WrittenInv
  <2>1. arg.bundle \in Bundles /\ WrittenInv
    BY DEF InstallInv, StepsInv, ContentInv
  <2>2. CASE pc \notin Making \/ b # arg.bundle
    BY <1>1, <1>3, <2>1, <2>2 DEF WrittenInv, Held
  <2>3. CASE pc \in Making /\ b = arg.bundle
    <3>1. s = Contents(mounted)
      BY <1>2, <2>3 DEF InstallInv, SourceInv
    <3>2. \A d \in Blobs(arg.items) : Held(d, pods[b].maps)
      BY <1>1, <2>1, <2>3 DEF WrittenInv
    <3>3. \A d \in Blobs(arg.items) : d \in s.bundles
      BY <1>5, <1>6, <3>1, <3>2
    <3>4. pc \notin {"source", "maps", "pod"}
      BY <2>3 DEF Making
    <3>5. QED
      BY <1>1, <1>3, <2>3, <3>3, <3>4 DEF WrittenInv
  <2>4. QED
    BY <2>2, <2>3
<1>8. QED
  BY <1>1, <1>4, <1>7 DEF ContentInv

LEMMA ContentPodGoes ==
    ASSUME InstallInv, InstallInv', ContentInv, NEW b \in Bundles, StopPod(b) \/ CollectPod(b)
    PROVE  ContentInv'
<1>1. /\ UNCHANGED <<op, pc, arg, catsrc, maps>> /\ DOMAIN pods = Bundles
      /\ pods' = [pods EXCEPT ![b] = NoPod]
      /\ pods[b].phase = "Terminating" \/ ~(catsrc.exists /\ pods[b].uid = catsrc.uid)
  BY DEF StopPod, CollectPod, Garbage, command, InstallInv, ShapeInv
<1>2. \A c \in Bundles : c # b => pods'[c] = pods[c]
  BY <1>1
<1>3. /\ catsrc.exists /\ catsrc.pod \in Bundles => b # catsrc.pod
      /\ op # "manifests" /\ pc \in Making => b # arg.bundle
  BY <1>1 DEF InstallInv, StepsInv, SourceInv, PodOfSource, Making
<1>4. CatalogServed'
  <2>1. PodOfSource'
    BY DEF InstallInv, SourceInv
  <2>2. QED
    BY <1>1, <1>2, <1>3, <2>1 DEF ContentInv, CatalogServed
<1>5. pc # "idle" /\ op # "manifests" => WrittenInv'
  BY <1>1, <1>2, <1>3 DEF ContentInv, InstallInv, StepsInv, WrittenInv, Held
<1>6. QED
  BY <1>1, <1>4, <1>5 DEF ContentInv

LEMMA ContentCollectConfigMap ==
    ASSUME ContentInv, NEW i \in DOMAIN maps, CollectConfigMap(i) PROVE ContentInv'
<1>1. /\ UNCHANGED <<op, pc, arg, catsrc, pods>> /\ maps' = [maps EXCEPT ![i] = NoMap]
  BY DEF CollectConfigMap, command
<1>2. DOMAIN maps' = DOMAIN maps /\ \A k : maps'[k] = NoMap \/ maps'[k] = maps[k]
  BY <1>1
<1>3. ASSUME NEW d, NEW n, Held(d, n)
      PROVE  \E k \in 1 .. n : maps'[k] = NoMap \/ d \in ToSet(maps'[k].docs)
  BY <1>2, <1>3 DEF Held
<1>4. CatalogServed'
  BY <1>1 DEF ContentInv, CatalogServed, PodOfSource
<1>5. pc # "idle" /\ op # "manifests" => WrittenInv'
  BY <1>1, <1>3 DEF ContentInv, WrittenInv, Held
<1>6. QED
  BY <1>1, <1>2, <1>4, <1>5 DEF ContentInv

LEMMA ContentCleanup == ASSUME ContentInv, Cleanup PROVE ContentInv'
<1>1. pc' = "idle" /\ catsrc' = NoSource(catsrc.uid) /\ UNCHANGED <<maps, pods>>
  BY DEF Cleanup
<1>2. catsrc'.items = <<>> /\ catsrc'.pod = None /\ catsrc'.image = None /\ ~catsrc'.exists
  BY <1>1 DEF NoSource
<1>3. QED
  BY <1>1, <1>2 DEF ContentInv, CatalogServed, PodOfSource

\* A command begins, and is refused unless what it adds is new and written.
LEMMA ContentBegins ==
    ASSUME ContentInv, UNCHANGED <<catsrc, maps, pods>>,
           \/ pc' = "idle"
           \/ op' = "manifests"
           \/ /\ pc' \in {"source", "maps"} /\ Added(arg'.index, arg'.items)
              /\ Index[arg'.index].fbc =>
                    /\ IsSeq(arg'.docs) /\ arg'.written = 0
                    /\ Blobs(arg'.items) \subseteq ToSet(arg'.docs)
    PROVE  ContentInv'
<1>1. CatalogServed'
  BY DEF ContentInv, CatalogServed, PodOfSource
<1>2. pc' # "idle" /\ op' # "manifests" => Added(arg'.index, arg'.items) /\ WrittenInv'
  BY DEF WrittenInv, Making
<1>3. QED
  BY <1>1, <1>2 DEF ContentInv

LEMMA ContentRunBundle ==
    ASSUME ContentInv, NEW b \in Bundles, NEW i \in DOMAIN Index, NEW m, RunBundle(b, i, m)
    PROVE  ContentInv'
<1> DEFINE given == [NoArg EXCEPT !.bundle = b, !.index = i, !.mode = m,
                         !.channel = IF Index[i].fbc THEN DefaultChannel ELSE LabelChannel,
                         !.items = <<Item(b, i)>>, !.docs = NewDocs[i][b]]
<1>1. /\ UNCHANGED <<catsrc, maps, pods>>
      /\ \/ Rejected("bundle", b)
         \/ /\ Accepted("bundle", given, "source")
            /\ Index[i].fbc => NewCatalog[i][b] # None
  BY DEF RunBundle, cluster
<1>2. /\ given.index = i /\ given.items = <<Item(b, i)>> /\ given.docs = NewDocs[i][b]
      /\ given.written = 0
  BY DEF NoArg
<1> HIDE DEF given
<1>3. Blobs(<<Item(b, i)>>) = {BundleBlob(b)}
  <2>1. DOMAIN <<Item(b, i)>> = {1} /\ <<Item(b, i)>>[1].bundle = b
    BY DEF Item
  <2>2. QED
    BY <2>1 DEF Blobs
<1>4. CASE Rejected("bundle", b)
  BY <1>1, <1>4, ContentBegins DEF Rejected
<1>5. CASE /\ Accepted("bundle", given, "source")
           /\ Index[i].fbc => NewCatalog[i][b] # None
  <2>1. pc' = "source" /\ arg' = given
    BY <1>5 DEF Accepted
  <2>2. Index[i].fbc => /\ BundleBlob(b) \notin ToSet(Index[i].catalog.bundles)
                        /\ IsSeq(NewDocs[i][b]) /\ BundleBlob(b) \in ToSet(NewDocs[i][b])
    BY <1>5, NewCatalogAdds
  <2>3. Added(i, <<Item(b, i)>>)
    BY <1>3, <2>2 DEF Added
  <2>4. QED
    BY <1>1, <1>2, <1>3, <2>1, <2>2, <2>3, ContentBegins
<1>6. QED
  BY <1>1, <1>4, <1>5

LEMMA ContentRunManifests ==
    ASSUME ContentInv, NEW d, NEW b, NEW m, RunManifests(d, b, m) PROVE ContentInv'
<1>1. op' = "manifests" /\ UNCHANGED <<catsrc, maps, pods>>
  BY DEF RunManifests, Accepted, Rejected, cluster
<1>2. QED
  BY <1>1, ContentBegins

\* The bundles of a list and one more.
LEMMA MoreBlobs ==
    ASSUME NEW items, IsSeq(items), NEW b, NEW i
    PROVE  Blobs(Append(items, Item(b, i))) = Blobs(items) \cup {BundleBlob(b)}
<1> DEFINE n == Len(items)
           more == Append(items, Item(b, i))
<1>1. /\ n \in Nat /\ DOMAIN items = 1 .. n /\ IsSeq(more) /\ Len(more) = n + 1
      /\ more[n + 1] = Item(b, i) /\ \A j \in 1 .. n : more[j] = items[j]
  BY AppendSeq, SeqLen
<1>2. DOMAIN more = 1 .. n + 1
  BY <1>1, SeqLen
<1>3. more[n + 1].bundle = b
  BY <1>1 DEF Item
<1> HIDE DEF n, more
<1>4. Blobs(more) \subseteq Blobs(items) \cup {BundleBlob(b)}
  <2> SUFFICES ASSUME NEW j \in 1 .. n + 1
               PROVE  BundleBlob(more[j].bundle) \in Blobs(items) \cup {BundleBlob(b)}
    BY <1>2 DEF Blobs
  <2>1. CASE j = n + 1
    BY <1>3, <2>1
  <2>2. CASE j \in 1 .. n
    BY <1>1, <2>2 DEF Blobs
  <2>3. QED
    BY <1>1, <2>1, <2>2
<1>5. Blobs(items) \subseteq Blobs(more)
  <2> SUFFICES ASSUME NEW j \in 1 .. n PROVE BundleBlob(items[j].bundle) \in Blobs(more)
    BY <1>1 DEF Blobs
  <2>1. j \in DOMAIN more /\ more[j] = items[j]
    BY <1>1, <1>2
  <2>2. QED
    BY <2>1 DEF Blobs
<1>6. BundleBlob(b) \in Blobs(more)
  <2>1. n + 1 \in DOMAIN more
    BY <1>1, <1>2
  <2>2. QED
    BY <1>3, <2>1 DEF Blobs
<1>7. QED
  BY <1>4, <1>5, <1>6 DEF more

LEMMA ContentUpgrade ==
    ASSUME InstallInv, ContentInv, NEW b \in Bundles, Upgrade(b) PROVE ContentInv'
<1> DEFINE items == catsrc.items
           index == IF items = <<>> THEN catsrc.image
                    ELSE IF catsrc.index # None THEN catsrc.index ELSE Default
           given(c) == [NoArg EXCEPT !.bundle = b, !.index = index, !.channel = sub.channel,
                            !.items = Append(items, Item(b, index)), !.docs = Docs(c),
                            !.old = IF items = <<>> THEN None ELSE catsrc.pod,
                            !.plan = sub.plan]
           previous == [j \in DOMAIN items |-> items[j].bundle]
<1>1. /\ UNCHANGED <<catsrc, maps, pods>>
      /\ \/ Rejected("upgrade", b)
         \/ /\ index # None
            /\ \E c \in UpgradedCatalogs(b, index, items) :
                  /\ Index[index].fbc => c # None
                  /\ Accepted("upgrade", given(c), "maps")
  BY DEF Upgrade, cluster
<1>2. CASE Rejected("upgrade", b)
  BY <1>1, <1>2, ContentBegins DEF Rejected
<1>3. ASSUME index # None, NEW c \in UpgradedCatalogs(b, index, items),
             Index[index].fbc => c # None, Accepted("upgrade", given(c), "maps")
      PROVE  ContentInv'
  <2>1. IsSeq(items)
    BY DEF InstallInv, ShapeInv
  <2>2. index \in DOMAIN Index /\ (items # <<>> => Added(index, items))
    <3>1. items # <<>> => Added(catsrc.index, items) /\ catsrc.index \in DOMAIN Index
      BY DEF ContentInv, Added
    <3>2. items # <<>> => catsrc.index # None
      BY <3>1, IndexAssumption
    <3>3. catsrc.image \in DOMAIN Index \cup {None}
      BY DEF ContentInv
    <3>4. QED
      BY <1>3, <3>1, <3>2, <3>3
  <2> HIDE DEF index, items
  <2>3. /\ given(c).index = index /\ given(c).items = Append(items, Item(b, index))
        /\ given(c).docs = Docs(c) /\ given(c).written = 0
    BY DEF NoArg
  <2>4. pc' = "maps" /\ arg' = given(c)
    BY <1>3 DEF Accepted
  <2> HIDE DEF given
  <2>5. Blobs(Append(items, Item(b, index))) = Blobs(items) \cup {BundleBlob(b)}
    BY <2>1, MoreBlobs
  <2>6. ASSUME Index[index].fbc
        PROVE  /\ (Blobs(items) \cup {BundleBlob(b)}) \cap ToSet(Index[index].catalog.bundles) = {}
               /\ IsSeq(Docs(c)) /\ Blobs(items) \cup {BundleBlob(b)} \subseteq ToSet(Docs(c))
    <3>1. CASE items = <<>>
      <4>1. Blobs(items) = {}
        BY <3>1 DEF Blobs
      <4>2. c \in HandleTraditionalUpgrade(Index[index].catalog, b, sub.channel) /\ c # None
        BY <1>3, <2>6, <3>1 DEF UpgradedCatalogs
      <4>3. /\ BundleBlob(b) \notin ToSet(Index[index].catalog.bundles)
            /\ IsSeq(Docs(c)) /\ BundleBlob(b) \in ToSet(Docs(c))
        BY <2>2, <4>2, TraditionalAdds
      <4>4. QED
        BY <4>1, <4>3
    <3>2. CASE items # <<>>
      <4>1. /\ c \in RunFBCUpgrade(index = Default, Index[index].catalog, previous, b, sub.channel)
            /\ c # None
        BY <1>3, <2>6, <3>2 DEF UpgradedCatalogs
      <4>2. IsSeq(previous) /\ DOMAIN previous = DOMAIN items
        <5>1. Len(items) \in Nat /\ DOMAIN items = 1 .. Len(items)
          BY <2>1, SeqLen
        <5>2. previous \in [1 .. Len(items) -> {items[j].bundle : j \in DOMAIN items}]
          BY <5>1
        <5>3. previous \in Seq({items[j].bundle : j \in DOMAIN items})
          BY <5>1, <5>2, SeqDef
        <5>4. QED
          BY <5>3, RangeSeq
      <4>3. Blobs(items) = {BundleBlob(previous[j]) : j \in DOMAIN previous}
        BY DEF Blobs
      <4> HIDE DEF previous
      <4>4. Blobs(items) \cap ToSet(Index[index].catalog.bundles) = {}
        BY <2>2, <2>6, <3>2 DEF Added
      <4>5. \A j \in DOMAIN previous :
               BundleBlob(previous[j]) \notin ToSet(Index[index].catalog.bundles)
        BY <4>3, <4>4
      <4>6. /\ BundleBlob(b) \notin ToSet(Index[index].catalog.bundles)
            /\ IsSeq(Docs(c)) /\ BundleBlob(b) \in ToSet(Docs(c))
            /\ \A j \in DOMAIN previous : BundleBlob(previous[j]) \in ToSet(Docs(c))
        BY <2>2, <4>1, <4>2, <4>5, UpgradeAdds
      <4>7. QED
        BY <4>3, <4>4, <4>6
    <3>3. QED
      BY <3>1, <3>2
  <2>7. Added(arg'.index, arg'.items)
    BY <2>2, <2>3, <2>4, <2>5, <2>6 DEF Added
  <2>8. Index[arg'.index].fbc => /\ IsSeq(arg'.docs) /\ arg'.written = 0
                                 /\ Blobs(arg'.items) \subseteq ToSet(arg'.docs)
    BY <2>3, <2>4, <2>5, <2>6
  <2>9. QED
    BY <1>1, <2>4, <2>7, <2>8, ContentBegins
<1>4. QED
  BY <1>1, <1>2, <1>3

LEMMA StepContent == InstallInv /\ ContentInv /\ [Next]_vars => ContentInv'
<1> SUFFICES ASSUME InstallInv, ContentInv, [Next]_vars PROVE ContentInv'
  OBVIOUS
<1>1. InstallInv'
  BY StepInstall
<1>2. CASE UNCHANGED vars
  BY <1>2, OtherThings DEF vars, command, cluster
<1>3. ASSUME NEW b \in Bundles, NEW i \in DOMAIN Index, NEW m, RunBundle(b, i, m)
      PROVE  ContentInv'
  BY <1>3, ContentRunBundle
<1>4. ASSUME NEW b \in Bundles, NEW d, NEW m, RunManifests(d, b, m) PROVE ContentInv'
  BY <1>4, ContentRunManifests
<1>5. ASSUME NEW b \in Bundles, Upgrade(b) PROVE ContentInv'
  BY <1>5, ContentUpgrade
<1>6. CASE Proceed
  BY <1>1, <1>6, ContentGoesOn, ContentCreateSource, ContentCreateConfigMap, ContentCreatePod,
     ContentAwaitPod, ContentLinkSource, ContentDeleteOld DEF Proceed
<1>7. CASE OLM
  <2>1. UNCHANGED <<op, pc, arg, catsrc, maps, pods>>
    BY <1>7 DEF OLM, Resolve, RunPlan, FinishCSV, command
  <2>2. QED
    BY <2>1, OtherThings
<1>8. CASE Kubernetes
  <2>1. ASSUME NEW r, CollectRegistry(r) PROVE ContentInv'
    BY <2>1, OtherThings DEF CollectRegistry, command
  <2>2. QED
    BY <1>1, <1>8, <2>1, ContentStartPod, ContentPodGoes, ContentCollectConfigMap DEF Kubernetes
<1>9. QED
  BY <1>2, <1>3, <1>4, <1>5, <1>6, <1>7, <1>8, ContentCleanup, ContentGoesOn DEF Next

\* Of the bundles that a command adds to a file-based index image, each is still
\* to be written, in a ConfigMap or in the pod, whatever the garbage collector
\* takes meanwhile; none was in the image (bundle/install.go, index_image.go,
\* fbcindex/fbc_registry_pod.go).
THEOREM ContentSound == Spec => []ContentInv
<1>1. Spec => [](InstallInv /\ ContentInv)
  <2>1. Init => InstallInv /\ ContentInv
    BY InitInstall, InitContent
  <2>2. (InstallInv /\ ContentInv) /\ [Next]_vars => (InstallInv /\ ContentInv)'
    BY StepInstall, StepContent
  <2>3. QED
    BY <2>1, <2>2, PTL DEF Spec
<1>2. QED
  BY <1>1, PTL

\* The registry pod that the catalog source names runs, and serves every bundle
\* of its annotations where the index image is file-based
\* (index_image.go:489, fbcindex/fbc_registry_pod.go:363).
THEOREM BundlesServed == Spec => []CatalogServed
<1>1. ContentInv => CatalogServed
  BY DEF ContentInv
<1>2. QED
  BY <1>1, ContentSound, PTL
=============================================================================
