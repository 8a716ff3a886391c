----------------------------- MODULE Scorecard ------------------------------
(***************************************************************************)
(* One run of `operator-sdk scorecard': internal/scorecard/scorecard.go's  *)
(* Run with its stages, the pods of testpod.go that execute the tests, the *)
(* gathering of their output (storage.go), the cleanup, and what           *)
(* internal/cmd/operator-sdk/scorecard/cmd.go prints.                      *)
(*                                                                         *)
(* A call to the API server may fail, and a creation that fails for the    *)
(* client may still take effect, at once or later.  The wait time is a     *)
(* deadline on the context of the tests, not on the gathering of their     *)
(* output and not on the cleanup, which has its own.                       *)
(***************************************************************************)
EXTENDS Naturals, Sequences, FiniteSets

CONSTANTS
    Tests,        \* the tests the selector matches
    Stages,       \* sequence of [parallel : BOOLEAN, tests : Seq(Tests)]
    Storage,      \* the tests with a mount path
    Drains,       \* those whose output can be gathered to the end
    Logs,         \* what a test's log may say
    SkipCleanup,  \* the flag --skip-cleanup
    LateCalls,    \* may a creation take effect after it failed?
    MaxFaults,    \* bound: failed calls
    None          \* no error

Listed(s) == {Stages[s].tests[i] : i \in 1 .. Len(Stages[s].tests)}

ASSUME StagesAssumption ==
    /\ Stages \in Seq([parallel : BOOLEAN, tests : Seq(Tests)])
    /\ Tests = UNION {Listed(s) : s \in 1 .. Len(Stages)}
    /\ \A s, r \in 1 .. Len(Stages) : s # r => Listed(s) \cap Listed(r) = {}
    /\ \A s \in 1 .. Len(Stages) : \A i, j \in 1 .. Len(Stages[s].tests) :
          i # j => Stages[s].tests[i] # Stages[s].tests[j]
ASSUME StorageAssumption == Drains \subseteq Storage /\ Storage \subseteq Tests
ASSUME LogsAssumption == Logs \subseteq {"pass", "fail", "garbage"}
ASSUME FlagsAssumption == SkipCleanup \in BOOLEAN /\ LateCalls \in BOOLEAN
ASSUME FaultsAssumption == MaxFaults \in Nat

Bundle == "bundle"  \* the ConfigMap, as a creation that may be late
ASSUME NamesAssumption ==
    /\ Bundle \notin Tests
    /\ None \notin {"pass", "fail", "error", "initialize", "deadline", "cleanup"}

VARIABLES
    pc,         \* where Run stands
    stage,      \* the stage it runs
    test,       \* where RunTest stands for each test
    result,     \* what RunTest returned for it
    output,     \* the channel of the stage's results
    items,      \* testOutput.Items
    expired,    \* is the wait time over?
    configMap,  \* does the bundle's ConfigMap exist?
    pods,       \* the tests whose pod exists
    ended,      \* the tests whose test container has terminated
    late,       \* of a creation that failed: may it still take effect, did it?
    err,        \* the error Run returns
    printed,    \* were the results printed?
    faults      \* failed calls so far

runVars == <<pc, stage, items, err, printed>>
testVars == <<test, result, output>>
cluster == <<configMap, pods, ended, late>>
vars == <<runVars, testVars, cluster, expired, faults>>

TestSteps == {"todo", "create", "wait", "gather", "status", "deliver", "done"}
Errors == {None, "initialize", "deadline", "cleanup"}

TypeOK ==
    /\ pc \in {"initialize", "stage", "run", "finish", "deletePods",
               "deleteConfigMap", "print", "done"}
    /\ stage \in 1 .. Len(Stages) + 1
    /\ test \in [Tests -> TestSteps]
    /\ result \in [Tests -> {None, "pass", "fail", "error"}]
    /\ output \in Seq(Tests) /\ items \in Seq(Tests)
    /\ expired \in BOOLEAN /\ printed \in BOOLEAN /\ configMap \in BOOLEAN
    /\ pods \in SUBSET Tests /\ ended \in SUBSET pods
    /\ late \in [Tests \cup {Bundle} -> {"no", "pending", "created"}]
    /\ err \in Errors
    /\ faults \in 0 .. MaxFaults

Init ==
    /\ pc = "initialize" /\ stage = 1
    /\ test = [t \in Tests |-> "todo"]
    /\ result = [t \in Tests |-> None]
    /\ output = <<>> /\ items = <<>>
    /\ expired = FALSE /\ printed = FALSE
    /\ configMap = FALSE /\ pods = {} /\ ended = {}
    /\ late = [c \in Tests \cup {Bundle} |-> "no"]
    /\ err = None /\ faults = 0

\* A call under the tests' context fails when the deadline is over, and may
\* fail before.
CallFails ==
    \/ expired /\ UNCHANGED faults
    \/ faults < MaxFaults /\ faults' = faults + 1

----------------------------------------------------------------------------
(* Run                                                                     *)

Initialize ==
    /\ pc = "initialize" /\ ~expired
    /\ configMap' = TRUE
    /\ pc' = "stage"
    /\ UNCHANGED <<stage, items, err, printed, testVars, pods, ended, late, expired, faults>>

\* A creation that fails for the client may have reached the API server.
MayComeLate(c) ==
    \/ UNCHANGED late
    \/ LateCalls /\ late' = [late EXCEPT ![c] = "pending"]

InitializeFails ==
    /\ pc = "initialize" /\ CallFails
    /\ err' = "initialize"
    /\ MayComeLate(Bundle)
    /\ pc' = "print"
    /\ UNCHANGED <<stage, items, printed, testVars, configMap, pods, ended, expired>>

\* A parallel stage starts its tests at once, the other its first.
StartStage ==
    /\ pc = "stage" /\ stage <= Len(Stages) /\ Stages[stage].tests # <<>>
    /\ test' = [t \in Tests |->
                  IF t \in Listed(stage)
                     /\ (Stages[stage].parallel \/ t = Stages[stage].tests[1])
                  THEN "create" ELSE test[t]]
    /\ pc' = "run"
    /\ UNCHANGED <<stage, items, err, printed, result, output, cluster, expired, faults>>

SkipStage ==
    /\ pc = "stage" /\ stage <= Len(Stages) /\ Stages[stage].tests = <<>>
    /\ stage' = stage + 1
    /\ UNCHANGED <<pc, items, err, printed, testVars, cluster, expired, faults>>

EndStage ==
    /\ pc = "run" /\ \A t \in Listed(stage) : test[t] = "done"
    /\ items' = items \o output
    /\ output' = <<>>
    /\ stage' = stage + 1
    /\ pc' = "stage"
    /\ UNCHANGED <<err, printed, test, result, cluster, expired, faults>>

AfterStages == IF SkipCleanup THEN "print" ELSE "deletePods"

\* Mutant of Finish: a run that timed out is cleaned up only after its results
\* are out.
FinishTimedOut ==
    /\ pc = "stage" /\ stage > Len(Stages)
    /\ err' = IF expired THEN "deadline" ELSE None
    /\ pc' = IF expired THEN "print" ELSE AfterStages
    /\ UNCHANGED <<stage, items, printed, testVars, cluster, expired, faults>>

Finish ==
    /\ pc = "stage" /\ stage > Len(Stages)
    /\ err' = IF expired THEN "deadline" ELSE None
    /\ pc' = AfterStages
    /\ UNCHANGED <<stage, items, printed, testVars, cluster, expired, faults>>

\* One call deletes the pods that carry the run's label.
DeletePods ==
    /\ pc = "deletePods"
    /\ pods' = {} /\ ended' = {}
    /\ pc' = "deleteConfigMap"
    /\ UNCHANGED <<stage, items, err, printed, testVars, configMap, late, expired, faults>>

DeleteConfigMap ==
    /\ pc = "deleteConfigMap"
    /\ configMap' = FALSE
    /\ pc' = "print"
    /\ UNCHANGED <<stage, items, err, printed, testVars, pods, ended, late, expired, faults>>

CleanupFails ==
    /\ pc \in {"deletePods", "deleteConfigMap"} /\ faults < MaxFaults
    /\ faults' = faults + 1
    /\ err' = "cleanup"
    /\ pc' = "print"
    /\ UNCHANGED <<stage, items, printed, testVars, cluster, expired>>

\* The command prints what Run returned unless its error is another than the
\* deadline.
PrintOutput ==
    /\ pc = "print"
    /\ printed' = (err \in {None, "deadline"})
    /\ pc' = "done"
    /\ UNCHANGED <<stage, items, err, testVars, cluster, expired, faults>>

----------------------------------------------------------------------------
(* RunTest                                                                 *)

Return(t, res) ==
    /\ result' = [result EXCEPT ![t] = res]
    /\ test' = [test EXCEPT ![t] = "deliver"]

CreatePod(t) ==
    /\ test[t] = "create" /\ ~expired
    /\ pods' = pods \cup {t}
    /\ test' = [test EXCEPT ![t] = "wait"]
    /\ UNCHANGED <<runVars, result, output, configMap, ended, late, expired, faults>>

CreatePodFails(t) ==
    /\ test[t] = "create" /\ CallFails
    /\ Return(t, "error")
    /\ MayComeLate(t)
    /\ UNCHANGED <<runVars, output, configMap, pods, ended, expired>>

\* Mutant of TestCompletes: any container that has terminated ends the wait.
TestCompletesInit(t) ==
    /\ test[t] = "wait" /\ ~expired
    /\ test' = [test EXCEPT ![t] = IF t \in Storage THEN "gather" ELSE "status"]
    /\ UNCHANGED <<runVars, result, output, cluster, expired, faults>>

\* waitForTestToComplete sees the test container terminated.
TestCompletes(t) ==
    /\ test[t] = "wait" /\ t \in ended /\ ~expired
    /\ test' = [test EXCEPT ![t] = IF t \in Storage THEN "gather" ELSE "status"]
    /\ UNCHANGED <<runVars, result, output, cluster, expired, faults>>

\* Mutant of WaitFails: the poll has a context of its own, without deadline.
WaitFailsUnbounded(t) ==
    /\ test[t] = "wait" /\ faults < MaxFaults /\ faults' = faults + 1
    /\ Return(t, "error")
    /\ UNCHANGED <<runVars, output, cluster, expired>>

WaitFails(t) ==
    /\ test[t] = "wait" /\ CallFails
    /\ Return(t, "error")
    /\ UNCHANGED <<runVars, output, cluster, expired>>

\* gatherTestOutput has no deadline: it ends when the streams do.
Gather(t) ==
    /\ test[t] = "gather" /\ t \in Drains
    /\ test' = [test EXCEPT ![t] = "status"]
    /\ UNCHANGED <<runVars, result, output, cluster, expired, faults>>

GatherFails(t) ==
    /\ test[t] = "gather" /\ faults < MaxFaults
    /\ faults' = faults + 1
    /\ Return(t, "error")
    /\ UNCHANGED <<runVars, output, cluster, expired>>

\* getTestStatus reads the test's log; one that is no status is an error.
GetTestStatus(t) ==
    /\ test[t] = "status" /\ ~expired
    /\ \E log \in Logs : Return(t, IF log = "garbage" THEN "error" ELSE log)
    /\ UNCHANGED <<runVars, output, cluster, expired, faults>>

GetTestStatusFails(t) ==
    /\ test[t] = "status" /\ CallFails
    /\ Return(t, "error")
    /\ UNCHANGED <<runVars, output, cluster, expired>>

\* In a sequential stage the next test starts when this one's result is out.
Successor(t) ==
    {u \in Listed(stage) :
        ~Stages[stage].parallel /\ \E i \in 1 .. Len(Stages[stage].tests) - 1 :
            Stages[stage].tests[i] = t /\ Stages[stage].tests[i + 1] = u}

\* Mutant of Deliver: a failed test is not reported.
DeliverPassed(t) ==
    /\ test[t] = "deliver"
    /\ output' = IF result[t] = "error" THEN output ELSE Append(output, t)
    /\ test' = [u \in Tests |-> IF u = t THEN "done"
                                ELSE IF u \in Successor(t) THEN "create" ELSE test[u]]
    /\ UNCHANGED <<runVars, result, cluster, expired, faults>>

Deliver(t) ==
    /\ test[t] = "deliver"
    /\ output' = Append(output, t)
    /\ test' = [u \in Tests |-> IF u = t THEN "done"
                                ELSE IF u \in Successor(t) THEN "create" ELSE test[u]]
    /\ UNCHANGED <<runVars, result, cluster, expired, faults>>

----------------------------------------------------------------------------
(* The cluster and the clock                                               *)

TestContainerEnds(t) ==
    /\ t \in pods \ ended
    /\ ended' = ended \cup {t}
    /\ UNCHANGED <<runVars, testVars, configMap, pods, late, expired, faults>>

\* A creation that failed for the client takes effect after all.
LateCreate(c) ==
    /\ late[c] = "pending"
    /\ late' = [late EXCEPT ![c] = "created"]
    /\ IF c = Bundle
       THEN configMap' = TRUE /\ UNCHANGED pods
       ELSE pods' = pods \cup {c} /\ UNCHANGED configMap
    /\ UNCHANGED <<runVars, testVars, ended, expired, faults>>

Expire ==
    /\ ~expired
    /\ expired' = TRUE
    /\ UNCHANGED <<runVars, testVars, cluster, faults>>

Run ==
    \/ Initialize \/ InitializeFails \/ StartStage \/ SkipStage \/ EndStage
    \/ Finish \/ DeletePods \/ DeleteConfigMap \/ CleanupFails \/ PrintOutput

RunTest(t) ==
    \/ CreatePod(t) \/ CreatePodFails(t) \/ TestCompletes(t) \/ WaitFails(t)
    \/ Gather(t) \/ GatherFails(t) \/ GetTestStatus(t) \/ GetTestStatusFails(t)
    \/ Deliver(t)

Next ==
    \/ Run \/ Expire
    \/ \E t \in Tests : RunTest(t) \/ TestContainerEnds(t)
    \/ \E c \in Tests \cup {Bundle} : LateCreate(c)

Spec == Init /\ [][Next]_vars

\* The goroutines run and the clock ticks; no call has to fail before the
\* deadline, and a test may run for ever.
FairSpec ==
    /\ Spec
    /\ WF_vars(Run /\ UNCHANGED faults) /\ WF_vars(Expire)
    /\ \A t \in Tests : WF_vars(RunTest(t) /\ UNCHANGED faults)

----------------------------------------------------------------------------
(* Properties                                                              *)

Positions(seq, t) == {i \in 1 .. Len(seq) : seq[i] = t}

\* Is u reported before t in every run that reports both?
Precedes(u, t) ==
    \E s, r \in 1 .. Len(Stages) :
        /\ u \in Listed(s) /\ t \in Listed(r)
        /\ \/ s < r
           \/ /\ s = r /\ ~Stages[s].parallel
              /\ \E i, j \in 1 .. Len(Stages[s].tests) :
                    i < j /\ Stages[s].tests[i] = u /\ Stages[s].tests[j] = t

\* The results Run collects are those of the tests started, each once, stage
\* after stage and, in a sequential stage, in the order of the configuration,
\* although parallel tests deliver in any order.
ResultsInOrder ==
    /\ \A t \in Tests : Cardinality(Positions(items, t)) <= 1
    /\ \A i, j \in 1 .. Len(items) : i < j => ~Precedes(items[j], items[i])

\* A run whose initialization succeeded reports every selected test once and in
\* order, however it failed and whenever the deadline came.
AllReported ==
    /\ ResultsInOrder
    /\ pc = "done" /\ err # "initialize" =>
           \A t \in Tests : Positions(items, t) # {} /\ result[t] # None

\* A test is reported as passed or failed by its own log only after its
\* container terminated.
VerdictFromTest ==
    [][\A t \in Tests : result[t] = None /\ result'[t] \in {"pass", "fail"} => t \in ended]_vars


\* A run that did not report a failed cleanup leaves neither a pod nor the
\* ConfigMap behind, after a timeout too, but for a pod whose creation failed
\* and took effect when the run was cleaned up.
NothingLeftBehind ==
    pc = "done" /\ err \notin {"cleanup", "initialize"} /\ ~SkipCleanup =>
        ~configMap /\ \A t \in pods : late[t] = "created"

\* Where Run and the tests stand: the stages before this one are done, those
\* after it untouched, and in a sequential stage one test begins when those
\* before it are done.
Before == {"initialize", "stage", "run"}
RunInv ==
    /\ pc \in Before => err = None
    /\ err = "initialize" => pc \in {"print", "done"}
    /\ pc \notin Before /\ err # "initialize" => stage = Len(Stages) + 1
    /\ pc = "initialize" => stage = 1
    /\ pc = "run" => stage <= Len(Stages)
    /\ pc # "run" => output = <<>>
StagesInv ==
    /\ \A s \in 1 .. Len(Stages) : \A t \in Listed(s) :
          /\ s < stage => test[t] = "done"
          /\ s > stage \/ (s = stage /\ pc # "run") => test[t] = "todo"
    /\ \A s \in 1 .. Len(Stages) : \A i, j \in 1 .. Len(Stages[s].tests) :
          ~Stages[s].parallel /\ i < j /\ test[Stages[s].tests[j]] # "todo"
              => test[Stages[s].tests[i]] = "done"
    /\ \A t \in Tests : result[t] # None <=> test[t] \in {"deliver", "done"}

\* What a sequence of results must be, and what is in Run's and the channel's.
Once(seq) == \A i, j \in 1 .. Len(seq) : i # j => seq[i] # seq[j]
InOrder(seq) == \A i, j \in 1 .. Len(seq) : i < j => ~Precedes(seq[j], seq[i])
ItemsInv ==
    /\ Once(items) /\ InOrder(items) /\ Once(output) /\ InOrder(output)
    /\ \A t \in Tests : Positions(items, t) # {} <=>
          \E s \in 1 .. Len(Stages) : s < stage /\ t \in Listed(s)
    /\ \A t \in Tests : Positions(output, t) # {} <=>
          pc = "run" /\ t \in Listed(stage) /\ test[t] = "done"

\* Whose containers ran, and what a cleanup has left.
PodsInv ==
    /\ \A t \in Tests : test[t] \in {"gather", "status"} => t \in ended
    /\ late[Bundle] # "no" => err = "initialize"
    /\ \/ pc = "deleteConfigMap"
       \/ pc \in {"print", "done"} /\ err \notin {"cleanup", "initialize"} /\ ~SkipCleanup
       => \A t \in pods : late[t] = "created"
    /\ pc \in {"print", "done"} /\ err \notin {"cleanup", "initialize"} /\ ~SkipCleanup
       => ~configMap
ScorecardInv == TypeOK /\ RunInv /\ StagesInv /\ ItemsInv /\ PodsInv

\* Every run ends, whatever its tests do: the deadline bounds them.
RunEnds == <>(pc = "done")

Active(t) == test[t] \in {"create", "wait", "gather", "status", "deliver"}

\* Not satisfied: the pods of two tests of a sequential stage never run at the
\* same time. A failed poll ends the wait (scorecard.go:297).
OneAtATime ==
    \A t, u \in pods \ ended : Precedes(u, t) => ~Active(t)

\* Not satisfied: the results are printed also when the deadline passed. The
\* error of a failed cleanup hides the deadline's (scorecard.go:110).
ResultsPrinted == pc = "done" /\ expired /\ items # <<>> => printed
=============================================================================
