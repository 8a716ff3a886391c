-------------------------- MODULE ScorecardProofs ---------------------------
(***************************************************************************)
(* Proofs about Scorecard, for any stages, tests, faults and lateness:     *)
(* ScorecardInv is inductive, every selected test is reported once and in  *)
(* order, a verdict comes from a container that terminated, and a run      *)
(* cleans up behind itself.                                                *)
(***************************************************************************)
EXTENDS Scorecard, FiniteSetTheorems, TLAPS

----------------------------------------------------------------------------
(* The stages and the sequences of results                                 *)

LEMMA StageTests ==
    ASSUME NEW s \in 1 .. Len(Stages)
    PROVE  /\ Stages[s].parallel \in BOOLEAN
           /\ Stages[s].tests \in Seq(Tests)
           /\ Len(Stages[s].tests) \in Nat
           /\ Listed(s) \subseteq Tests
           /\ \A i \in 1 .. Len(Stages[s].tests) : Stages[s].tests[i] \in Listed(s)
<1> DEFINE Stage == [parallel : BOOLEAN, tests : Seq(Tests)]
<1>1. Stages \in Seq(Stage)
  BY StagesAssumption
<1> HIDE DEF Stage
<1>2. Stages[s] \in Stage
  BY <1>1
<1>3. Stages[s].parallel \in BOOLEAN /\ Stages[s].tests \in Seq(Tests)
  BY <1>2 DEF Stage
<1>4. QED
  BY <1>3 DEF Listed

\* Every test is in one stage.
LEMMA OwnStage ==
    /\ \A t \in Tests : \E s \in 1 .. Len(Stages) : t \in Listed(s)
    /\ \A s, r \in 1 .. Len(Stages) : \A t \in Listed(s) : t \in Listed(r) => s = r
<1>1. \A t \in Tests : \E s \in 1 .. Len(Stages) : t \in Listed(s)
  BY StagesAssumption
<1>2. QED
  BY <1>1, StagesAssumption

\* What Precedes says of two tests whose stages are known.
LEMMA PrecedesInStages ==
    ASSUME NEW s \in 1 .. Len(Stages), NEW r \in 1 .. Len(Stages),
           NEW u \in Listed(s), NEW t \in Listed(r), Precedes(u, t)
    PROVE  \/ s < r
           \/ /\ s = r /\ ~Stages[s].parallel
              /\ \E i, j \in 1 .. Len(Stages[s].tests) :
                    i < j /\ Stages[s].tests[i] = u /\ Stages[s].tests[j] = t
BY OwnStage DEF Precedes

LEMMA EmptyResults == Once(<<>>) /\ InOrder(<<>>) /\ \A t : Positions(<<>>, t) = {}
BY DEF Once, InOrder, Positions

\* A result that is new and is preceded by none may be appended.
LEMMA AppendResult ==
    ASSUME NEW seq \in Seq(Tests), NEW t \in Tests, Once(seq), InOrder(seq),
           Positions(seq, t) = {},
           \A i \in 1 .. Len(seq) : ~Precedes(t, seq[i])
    PROVE  /\ Append(seq, t) \in Seq(Tests)
           /\ Once(Append(seq, t)) /\ InOrder(Append(seq, t))
           /\ \A u \in Tests : Positions(Append(seq, t), u) # {}
                                  <=> u = t \/ Positions(seq, u) # {}
<1> DEFINE new == Append(seq, t)
<1>1. /\ new \in Seq(Tests) /\ Len(new) = Len(seq) + 1 /\ Len(seq) \in Nat
      /\ new[Len(seq) + 1] = t
      /\ \A i \in 1 .. Len(seq) : new[i] = seq[i]
  OBVIOUS
<1>2. \A i \in 1 .. Len(seq) : seq[i] # t
  BY DEF Positions
<1> HIDE DEF new
<1>3. \A i \in 1 .. Len(new) : i \in 1 .. Len(seq) \/ i = Len(seq) + 1
  BY <1>1
<1>4. Once(new)
  BY <1>1, <1>2, <1>3 DEF Once
<1>5. InOrder(new)
  <2>1. SUFFICES ASSUME NEW i \in 1 .. Len(new), NEW j \in 1 .. Len(new), i < j,
                        Precedes(new[j], new[i])
                 PROVE  FALSE
    BY DEF InOrder
  <2>2. i \in 1 .. Len(seq)
    BY <1>1, <2>1
  <2>3. CASE j \in 1 .. Len(seq)
    BY <1>1, <2>1, <2>2, <2>3 DEF InOrder
  <2>4. CASE j = Len(seq) + 1
    BY <1>1, <2>1, <2>2, <2>4
  <2>5. QED
    BY <1>3, <2>3, <2>4
<1>6. ASSUME NEW u \in Tests
      PROVE  Positions(new, u) # {} <=> u = t \/ Positions(seq, u) # {}
  <2>1. Positions(new, u) # {} => u = t \/ Positions(seq, u) # {}
    BY <1>1, <1>3 DEF Positions
  <2>2. u = t => Positions(new, u) # {}
    <3>1. Len(seq) + 1 \in 1 .. Len(new)
      BY <1>1
    <3>2. QED
      BY <1>1, <3>1 DEF Positions
  <2>3. Positions(seq, u) # {} => Positions(new, u) # {}
    BY <1>1 DEF Positions
  <2>4. QED
    BY <2>1, <2>2, <2>3
<1>7. QED
  BY <1>1, <1>4, <1>5, <1>6 DEF new

\* The results of a stage may follow those of the stages before it.
LEMMA ConcatResults ==
    ASSUME NEW p \in Seq(Tests), NEW q \in Seq(Tests),
           Once(p), InOrder(p), Once(q), InOrder(q),
           \A i \in 1 .. Len(p), j \in 1 .. Len(q) : p[i] # q[j] /\ ~Precedes(q[j], p[i])
    PROVE  /\ p \o q \in Seq(Tests)
           /\ Once(p \o q) /\ InOrder(p \o q)
           /\ \A u \in Tests : Positions(p \o q, u) # {}
                                  <=> Positions(p, u) # {} \/ Positions(q, u) # {}
<1> DEFINE new == p \o q
<1>1. /\ new \in Seq(Tests) /\ Len(new) = Len(p) + Len(q)
      /\ Len(p) \in Nat /\ Len(q) \in Nat
      /\ \A i \in 1 .. Len(p) : new[i] = p[i]
      /\ \A i \in 1 .. Len(new) : i > Len(p) => new[i] = q[i - Len(p)]
  OBVIOUS
<1> HIDE DEF new
<1>2. \A i \in 1 .. Len(new) : \/ i \in 1 .. Len(p)
                               \/ i > Len(p) /\ i - Len(p) \in 1 .. Len(q)
  BY <1>1
<1>3. Once(new)
  <2>1. SUFFICES ASSUME NEW i \in 1 .. Len(new), NEW j \in 1 .. Len(new), i < j, new[i] = new[j]
                 PROVE  FALSE
    BY <1>1 DEF Once
  <2>2. CASE j \in 1 .. Len(p)
    <3>1. i \in 1 .. Len(p) /\ p[i] = p[j]
      BY <1>1, <2>1, <2>2
    <3>2. QED
      BY <2>1, <2>2, <3>1 DEF Once
  <2>3. CASE i \in 1 .. Len(p) /\ j - Len(p) \in 1 .. Len(q) /\ j > Len(p)
    BY <1>1, <2>1, <2>3
  <2>4. CASE i > Len(p) /\ i - Len(p) \in 1 .. Len(q) /\ j - Len(p) \in 1 .. Len(q) /\ j > Len(p)
    <3>1. i - Len(p) # j - Len(p)
      BY <1>1, <2>1
    <3>2. q[i - Len(p)] = q[j - Len(p)]
      BY <1>1, <2>1, <2>4
    <3>3. QED
      BY <2>4, <3>1, <3>2 DEF Once
  <2>5. QED
    BY <1>1, <1>2, <2>1, <2>2, <2>3, <2>4
<1>4. InOrder(new)
  <2>1. SUFFICES ASSUME NEW i \in 1 .. Len(new), NEW j \in 1 .. Len(new), i < j,
                        Precedes(new[j], new[i])
                 PROVE  FALSE
    BY DEF InOrder
  <2>2. CASE j \in 1 .. Len(p)
    <3>1. i \in 1 .. Len(p) /\ Precedes(p[j], p[i])
      BY <1>1, <2>1, <2>2
    <3>2. QED
      BY <2>1, <2>2, <3>1 DEF InOrder
  <2>3. CASE i \in 1 .. Len(p) /\ j - Len(p) \in 1 .. Len(q) /\ j > Len(p)
    BY <1>1, <2>1, <2>3
  <2>4. CASE i > Len(p) /\ i - Len(p) \in 1 .. Len(q) /\ j - Len(p) \in 1 .. Len(q) /\ j > Len(p)
    <3>1. i - Len(p) < j - Len(p)
      BY <1>1, <2>1
    <3>2. QED
      BY <1>1, <2>1, <2>4, <3>1 DEF InOrder
  <2>5. QED
    BY <1>1, <1>2, <2>1, <2>2, <2>3, <2>4
<1>5. ASSUME NEW u \in Tests
      PROVE  Positions(new, u) # {} <=> Positions(p, u) # {} \/ Positions(q, u) # {}
  <2>1. ASSUME NEW i \in Positions(new, u)
        PROVE  Positions(p, u) # {} \/ Positions(q, u) # {}
    <3>1. i \in 1 .. Len(new) /\ new[i] = u
      BY DEF Positions
    <3>2. CASE i \in 1 .. Len(p)
      BY <1>1, <3>1, <3>2 DEF Positions
    <3>3. CASE i > Len(p) /\ i - Len(p) \in 1 .. Len(q)
      <4>1. q[i - Len(p)] = u
        BY <1>1, <3>1, <3>3
      <4>2. QED
        BY <3>3, <4>1 DEF Positions
    <3>4. QED
      BY <1>2, <3>1, <3>2, <3>3
  <2>2. Positions(p, u) # {} => Positions(new, u) # {}
    BY <1>1 DEF Positions
  <2>3. ASSUME NEW j \in Positions(q, u) PROVE Positions(new, u) # {}
    <3>1. j + Len(p) \in 1 .. Len(new) /\ j + Len(p) > Len(p) /\ (j + Len(p)) - Len(p) = j
      BY <1>1 DEF Positions
    <3>2. new[j + Len(p)] = u
      BY <1>1, <3>1 DEF Positions
    <3>3. QED
      BY <3>1, <3>2 DEF Positions
  <2>4. QED
    BY <2>1, <2>2, <2>3
<1>6. QED
  BY <1>1, <1>3, <1>4, <1>5 DEF new

\* A sequence that has nothing twice has every test at one position at most.
LEMMA OncePositions ==
    ASSUME NEW seq \in Seq(Tests), Once(seq), NEW t \in Tests
    PROVE  Cardinality(Positions(seq, t)) <= 1
<1>1. CASE Positions(seq, t) = {}
  BY <1>1, FS_EmptySet
<1>2. CASE Positions(seq, t) # {}
  <2>1. PICK i : i \in Positions(seq, t)
    BY <1>2
  <2>2. Positions(seq, t) = {i}
    BY <2>1 DEF Positions, Once
  <2>3. Cardinality({i}) = 1
    BY FS_Singleton
  <2>4. QED
    BY <2>2, <2>3
<1>3. QED
  BY <1>1, <1>2

----------------------------------------------------------------------------
(* The invariant                                                           *)

LEMMA InitScorecardInv == Init => ScorecardInv
<1> SUFFICES ASSUME Init PROVE ScorecardInv
  OBVIOUS
<1>1. Len(Stages) \in Nat
  BY StagesAssumption
<1>2. TypeOK
  <2>1. output \in Seq(Tests) /\ items \in Seq(Tests)
    BY DEF Init
  <2>2. stage \in 1 .. Len(Stages) + 1 /\ faults \in 0 .. MaxFaults
    BY <1>1, FaultsAssumption DEF Init
  <2>3. /\ test \in [Tests -> TestSteps]
        /\ result \in [Tests -> {None, "pass", "fail", "error"}]
        /\ late \in [Tests \cup {Bundle} -> {"no", "pending", "created"}]
    BY DEF Init, TestSteps
  <2>4. QED
    BY <2>1, <2>2, <2>3 DEF Init, TypeOK, Errors
<1>3. RunInv
  BY <1>1, NamesAssumption DEF Init, RunInv, Before
<1>4. StagesInv
  BY <1>1, StageTests DEF Init, StagesInv
<1>5. ItemsInv
  BY <1>1, EmptyResults DEF Init, ItemsInv
<1>6. PodsInv
  BY DEF Init, PodsInv
<1>7. QED
  BY <1>2, <1>3, <1>4, <1>5, <1>6 DEF ScorecardInv

\* RunTest is under way for tests of the stage that runs.
LEMMA ActiveInRun ==
    ASSUME ScorecardInv, NEW t \in Tests, test[t] \notin {"todo", "done"}
    PROVE  pc = "run" /\ stage \in 1 .. Len(Stages) /\ t \in Listed(stage)
<1>1. PICK s \in 1 .. Len(Stages) : t \in Listed(s)
  BY OwnStage
<1>2. ~(s < stage) /\ ~(s > stage)
  BY <1>1 DEF ScorecardInv, StagesInv
<1>3. s = stage /\ pc = "run"
  BY <1>1, <1>2 DEF ScorecardInv, StagesInv, TypeOK
<1>4. QED
  BY <1>1, <1>3

\* A test that moves on, and is not done yet, disturbs neither the stages nor
\* the results.
LEMMA TestMoves ==
    ASSUME ScorecardInv, NEW t \in Tests, test[t] \notin {"todo", "done"},
           NEW step \in TestSteps \ {"todo", "done"},
           test' = [test EXCEPT ![t] = step],
           result' \in [Tests -> {None, "pass", "fail", "error"}],
           \A u \in Tests \ {t} : result'[u] = result[u],
           result'[t] # None <=> step = "deliver",
           UNCHANGED <<runVars, output>>
    PROVE  RunInv' /\ StagesInv' /\ ItemsInv'
<1>1. pc = "run" /\ stage \in 1 .. Len(Stages) /\ t \in Listed(stage)
  BY ActiveInRun
<1>2. test \in [Tests -> TestSteps]
  BY DEF ScorecardInv, TypeOK
<1>3. /\ \A u \in Tests \ {t} : test'[u] = test[u]
      /\ test'[t] = step /\ step \notin {"todo", "done"}
  BY <1>2
<1>4. RunInv'
  BY DEF ScorecardInv, RunInv, Before, runVars
<1>5. StagesInv'
  <2>1. ASSUME NEW s \in 1 .. Len(Stages), NEW u \in Listed(s)
        PROVE  /\ s < stage' => test'[u] = "done"
               /\ s > stage' \/ (s = stage' /\ pc' # "run") => test'[u] = "todo"
    <3>1. u \in Tests /\ (u = t => s = stage)
      BY <1>1, <2>1, StageTests, OwnStage
    <3>2. QED
      BY <1>1, <1>3, <3>1 DEF ScorecardInv, StagesInv, runVars, TypeOK
  <2>2. ASSUME NEW s \in 1 .. Len(Stages),
               NEW i \in 1 .. Len(Stages[s].tests), NEW j \in 1 .. Len(Stages[s].tests),
               ~Stages[s].parallel, i < j, test'[Stages[s].tests[j]] # "todo"
        PROVE  test'[Stages[s].tests[i]] = "done"
    <3>1. Stages[s].tests[i] \in Tests /\ Stages[s].tests[j] \in Tests
      BY StageTests
    <3>2. test[Stages[s].tests[j]] # "todo"
      BY <1>3, <2>2, <3>1
    <3>3. test[Stages[s].tests[i]] = "done"
      BY <2>2, <3>2 DEF ScorecardInv, StagesInv
    <3>4. QED
      BY <1>3, <3>1, <3>3
  <2>3. \A u \in Tests : result'[u] # None <=> test'[u] \in {"deliver", "done"}
    BY <1>3 DEF ScorecardInv, StagesInv
  <2>4. QED
    BY <2>1, <2>2, <2>3 DEF StagesInv
<1>6. ItemsInv'
  BY <1>1, <1>3 DEF ScorecardInv, ItemsInv, runVars
<1>7. QED
  BY <1>4, <1>5, <1>6

\* Run's steps.
LEMMA InitializeStep == ScorecardInv /\ Initialize => ScorecardInv'
<1> SUFFICES ASSUME ScorecardInv, Initialize PROVE ScorecardInv'
  OBVIOUS
<1>1. TypeOK'
  BY DEF Initialize, testVars, ScorecardInv, TypeOK
<1>2. RunInv'
  BY DEF Initialize, testVars, ScorecardInv, RunInv, Before
<1>3. StagesInv'
  BY DEF Initialize, testVars, ScorecardInv, StagesInv
<1>4. ItemsInv'
  BY DEF Initialize, testVars, ScorecardInv, ItemsInv
<1>5. PodsInv'
  BY DEF Initialize, testVars, ScorecardInv, PodsInv
<1>6. QED
  BY <1>1, <1>2, <1>3, <1>4, <1>5 DEF ScorecardInv

LEMMA InitializeFailsStep == ScorecardInv /\ InitializeFails => ScorecardInv'
<1> SUFFICES ASSUME ScorecardInv, InitializeFails PROVE ScorecardInv'
  OBVIOUS
<1>1. TypeOK'
  <2>1. faults' \in 0 .. MaxFaults
    BY FaultsAssumption DEF InitializeFails, CallFails, ScorecardInv, TypeOK
  <2>2. late' \in [Tests \cup {Bundle} -> {"no", "pending", "created"}]
    BY DEF InitializeFails, MayComeLate, ScorecardInv, TypeOK
  <2>3. QED
    BY <2>1, <2>2 DEF InitializeFails, testVars, ScorecardInv, TypeOK, Errors
<1>2. RunInv'
  BY DEF InitializeFails, testVars, ScorecardInv, RunInv, Before
<1>3. StagesInv'
  BY DEF InitializeFails, testVars, ScorecardInv, StagesInv
<1>4. ItemsInv'
  BY DEF InitializeFails, testVars, ScorecardInv, ItemsInv
<1>5. PodsInv'
  BY DEF InitializeFails, testVars, ScorecardInv, PodsInv
<1>6. QED
  BY <1>1, <1>2, <1>3, <1>4, <1>5 DEF ScorecardInv

LEMMA StartStageStep == ScorecardInv /\ StartStage => ScorecardInv'
<1> SUFFICES ASSUME ScorecardInv, StartStage PROVE ScorecardInv'
  OBVIOUS
<1> DEFINE starts == {t \in Listed(stage) :
                        Stages[stage].parallel \/ t = Stages[stage].tests[1]}
<1>1. /\ stage \in 1 .. Len(Stages) /\ pc = "stage"
      /\ test' = [t \in Tests |-> IF t \in starts THEN "create" ELSE test[t]]
  BY DEF StartStage, ScorecardInv, TypeOK
<1>2. \A t \in Listed(stage) : t \in Tests /\ test[t] = "todo"
  BY <1>1, StageTests DEF ScorecardInv, StagesInv
<1>3. \A t \in starts : t \in Listed(stage)
  OBVIOUS
<1>4. ~Stages[stage].parallel => starts \subseteq {Stages[stage].tests[1]}
  OBVIOUS
<1> HIDE DEF starts
<1>5. TypeOK'
  BY <1>1 DEF StartStage, cluster, ScorecardInv, TypeOK, TestSteps
<1>6. RunInv'
  BY <1>1 DEF StartStage, ScorecardInv, RunInv, Before
<1>7. StagesInv'
  <2>1. ASSUME NEW s \in 1 .. Len(Stages), NEW t \in Listed(s)
        PROVE  /\ s < stage' => test'[t] = "done"
               /\ s > stage' \/ (s = stage' /\ pc' # "run") => test'[t] = "todo"
    <3>1. t \in Tests /\ (t \in starts => s = stage)
      BY <1>1, <1>3, StageTests, OwnStage
    <3>2. QED
      BY <1>1, <3>1 DEF StartStage, ScorecardInv, StagesInv, TypeOK
  <2>2. ASSUME NEW s \in 1 .. Len(Stages),
               NEW i \in 1 .. Len(Stages[s].tests), NEW j \in 1 .. Len(Stages[s].tests),
               ~Stages[s].parallel, i < j, test'[Stages[s].tests[j]] # "todo"
        PROVE  test'[Stages[s].tests[i]] = "done"
    <3>1. Stages[s].tests[i] \in Listed(s) /\ Stages[s].tests[j] \in Listed(s) /\ Listed(s) \subseteq Tests
      BY StageTests
    <3>2. Stages[s].tests[j] \notin starts
      <4>1. SUFFICES ASSUME Stages[s].tests[j] \in starts PROVE FALSE
        OBVIOUS
      <4>2. s = stage
        BY <1>1, <1>3, <3>1, <4>1, OwnStage
      <4>3. Stages[s].tests[j] = Stages[s].tests[1]
        BY <1>4, <2>2, <4>1, <4>2
      <4>4. j # 1 /\ 1 \in 1 .. Len(Stages[s].tests)
        BY <2>2, StageTests
      <4>5. QED
        BY <4>3, <4>4, StagesAssumption
    <3>3. test[Stages[s].tests[j]] # "todo"
      BY <1>1, <2>2, <3>1, <3>2
    <3>4. test[Stages[s].tests[i]] = "done"
      BY <2>2, <3>3 DEF ScorecardInv, StagesInv
    <3>5. Stages[s].tests[i] \notin starts
      BY <1>2, <1>3, <3>4
    <3>6. QED
      BY <1>1, <3>1, <3>4, <3>5
  <2>3. \A t \in Tests : result'[t] # None <=> test'[t] \in {"deliver", "done"}
    BY <1>1, <1>2, <1>3 DEF StartStage, ScorecardInv, StagesInv
  <2>4. QED
    BY <2>1, <2>2, <2>3 DEF StagesInv
<1>8. ItemsInv'
  <2>1. \A t \in Tests : t \in Listed(stage) => test'[t] # "done"
    BY <1>1, <1>2
  <2>2. QED
    BY <1>1, <2>1 DEF StartStage, ScorecardInv, ItemsInv
<1>9. PodsInv'
  BY <1>1 DEF StartStage, cluster, ScorecardInv, PodsInv
<1>10. QED
  BY <1>5, <1>6, <1>7, <1>8, <1>9 DEF ScorecardInv

LEMMA SkipStageStep == ScorecardInv /\ SkipStage => ScorecardInv'
<1> SUFFICES ASSUME ScorecardInv, SkipStage PROVE ScorecardInv'
  OBVIOUS
<1>1. stage \in 1 .. Len(Stages) /\ pc = "stage" /\ stage' = stage + 1 /\ Len(Stages) \in Nat
  BY StagesAssumption DEF SkipStage, ScorecardInv, TypeOK
<1>2. Listed(stage) = {}
  BY DEF SkipStage, Listed
<1>3. TypeOK'
  BY <1>1 DEF SkipStage, testVars, cluster, ScorecardInv, TypeOK
<1>4. RunInv'
  BY <1>1 DEF SkipStage, testVars, ScorecardInv, RunInv, Before
<1>5. StagesInv'
  <2>1. ASSUME NEW s \in 1 .. Len(Stages), NEW t \in Listed(s)
        PROVE  /\ s < stage' => test'[t] = "done"
               /\ s > stage' \/ (s = stage' /\ pc' # "run") => test'[t] = "todo"
    <3>1. s # stage
      BY <1>2, <2>1
    <3>2. QED
      BY <1>1, <3>1 DEF SkipStage, testVars, ScorecardInv, StagesInv, TypeOK
  <2>2. QED
    BY <2>1 DEF SkipStage, testVars, ScorecardInv, StagesInv
<1>6. ItemsInv'
  <2>1. \A t : (\E s \in 1 .. Len(Stages) : s < stage' /\ t \in Listed(s))
               <=> \E s \in 1 .. Len(Stages) : s < stage /\ t \in Listed(s)
    BY <1>1, <1>2
  <2>2. QED
    BY <1>1, <2>1 DEF SkipStage, testVars, ScorecardInv, ItemsInv
<1>7. PodsInv'
  BY <1>1 DEF SkipStage, testVars, cluster, ScorecardInv, PodsInv
<1>8. QED
  BY <1>3, <1>4, <1>5, <1>6, <1>7 DEF ScorecardInv

LEMMA EndStageStep == ScorecardInv /\ EndStage => ScorecardInv'
<1> SUFFICES ASSUME ScorecardInv, EndStage PROVE ScorecardInv'
  OBVIOUS
<1>1. /\ pc = "run" /\ stage \in 1 .. Len(Stages) /\ stage' = stage + 1 /\ Len(Stages) \in Nat
      /\ items' = items \o output /\ output' = <<>> /\ pc' = "stage"
      /\ items \in Seq(Tests) /\ output \in Seq(Tests)
      /\ \A t \in Listed(stage) : test[t] = "done"
  BY StagesAssumption DEF EndStage, ScorecardInv, TypeOK, RunInv
<1>2. ASSUME NEW i \in 1 .. Len(items)
      PROVE  \E s \in 1 .. Len(Stages) : s < stage /\ items[i] \in Listed(s)
  <2>1. items[i] \in Tests /\ i \in Positions(items, items[i])
    BY <1>1 DEF Positions
  <2>2. QED
    BY <2>1 DEF ScorecardInv, ItemsInv
<1>3. ASSUME NEW j \in 1 .. Len(output)
      PROVE  output[j] \in Listed(stage)
  <2>1. output[j] \in Tests /\ j \in Positions(output, output[j])
    BY <1>1 DEF Positions
  <2>2. QED
    BY <2>1 DEF ScorecardInv, ItemsInv
<1>4. ASSUME NEW i \in 1 .. Len(items), NEW j \in 1 .. Len(output)
      PROVE  items[i] # output[j] /\ ~Precedes(output[j], items[i])
  <2>1. PICK s \in 1 .. Len(Stages) : s < stage /\ items[i] \in Listed(s)
    BY <1>2
  <2>2. output[j] \in Listed(stage)
    BY <1>3
  <2>3. s # stage /\ ~(stage < s)
    BY <1>1, <2>1
  <2>4. QED
    BY <1>1, <2>1, <2>2, <2>3, OwnStage, PrecedesInStages
<1>5. Once(items) /\ InOrder(items) /\ Once(output) /\ InOrder(output)
  BY DEF ScorecardInv, ItemsInv
<1>6. /\ items' \in Seq(Tests) /\ Once(items') /\ InOrder(items')
      /\ \A u \in Tests : Positions(items', u) # {}
                            <=> Positions(items, u) # {} \/ Positions(output, u) # {}
  BY <1>1, <1>4, <1>5, ConcatResults
<1>7. TypeOK'
  <2>1. output' \in Seq(Tests)
    BY <1>1
  <2>2. stage' \in 1 .. Len(Stages) + 1
    BY <1>1
  <2>3. QED
    BY <1>1, <1>6, <2>1, <2>2 DEF EndStage, cluster, ScorecardInv, TypeOK
<1>8. RunInv'
  BY <1>1 DEF EndStage, ScorecardInv, RunInv, Before
<1>9. StagesInv'
  <2>1. ASSUME NEW s \in 1 .. Len(Stages), NEW t \in Listed(s)
        PROVE  /\ s < stage' => test'[t] = "done"
               /\ s > stage' \/ (s = stage' /\ pc' # "run") => test'[t] = "todo"
    BY <1>1, <2>1 DEF EndStage, ScorecardInv, StagesInv, TypeOK
  <2>2. QED
    BY <2>1 DEF EndStage, ScorecardInv, StagesInv
<1>10. ItemsInv'
  <2>1. \A t : (\E s \in 1 .. Len(Stages) : s < stage' /\ t \in Listed(s))
               <=> \/ \E s \in 1 .. Len(Stages) : s < stage /\ t \in Listed(s)
                   \/ t \in Listed(stage)
    BY <1>1
  <2>2. \A t \in Tests : Positions(output, t) # {} <=> t \in Listed(stage)
    BY <1>1 DEF ScorecardInv, ItemsInv
  <2>3. \A t \in Tests : Positions(items', t) # {} <=>
          \E s \in 1 .. Len(Stages) : s < stage' /\ t \in Listed(s)
    BY <1>6, <2>1, <2>2 DEF ScorecardInv, ItemsInv
  <2>4. Once(output') /\ InOrder(output') /\ \A t \in Tests : Positions(output', t) = {}
    BY <1>1, EmptyResults
  <2>5. QED
    BY <1>1, <1>6, <2>3, <2>4 DEF ItemsInv
<1>11. PodsInv'
  BY <1>1 DEF EndStage, cluster, ScorecardInv, PodsInv
<1>12. QED
  BY <1>7, <1>8, <1>9, <1>10, <1>11 DEF ScorecardInv

\* The steps of Run after its stages, and the clock's, touch neither tests nor
\* results.
LEMMA Settled ==
    ASSUME ScorecardInv, UNCHANGED <<testVars, items, stage>>,
           pc # "run", pc' # "run",
           pc' = "stage" => pc = "stage"
    PROVE  StagesInv' /\ ItemsInv'
<1>1. StagesInv'
  BY DEF testVars, ScorecardInv, StagesInv
<1>2. ItemsInv'
  BY DEF testVars, ScorecardInv, ItemsInv
<1>3. QED
  BY <1>1, <1>2

LEMMA FinishStep == ScorecardInv /\ Finish => ScorecardInv'
<1> SUFFICES ASSUME ScorecardInv, Finish PROVE ScorecardInv'
  OBVIOUS
<1>1. /\ pc = "stage" /\ stage = Len(Stages) + 1 /\ err = None
      /\ pc' = (IF SkipCleanup THEN "print" ELSE "deletePods")
      /\ err' \in {None, "deadline"} /\ stage' = stage
  BY StagesAssumption DEF Finish, AfterStages, ScorecardInv, TypeOK, RunInv, Before
<1>2. TypeOK'
  BY <1>1 DEF Finish, testVars, cluster, ScorecardInv, TypeOK, Errors
<1>3. RunInv'
  BY <1>1, NamesAssumption DEF Finish, testVars, ScorecardInv, RunInv, Before
<1>4. StagesInv' /\ ItemsInv'
  BY <1>1, Settled DEF Finish
<1>5. PodsInv'
  BY <1>1, NamesAssumption DEF Finish, testVars, cluster, ScorecardInv, PodsInv
<1>6. QED
  BY <1>2, <1>3, <1>4, <1>5 DEF ScorecardInv

LEMMA DeletePodsStep == ScorecardInv /\ DeletePods => ScorecardInv'
<1> SUFFICES ASSUME ScorecardInv, DeletePods PROVE ScorecardInv'
  OBVIOUS
<1>1. TypeOK'
  BY DEF DeletePods, testVars, ScorecardInv, TypeOK
<1>2. RunInv'
  BY DEF DeletePods, testVars, ScorecardInv, RunInv, Before
<1>3. StagesInv' /\ ItemsInv'
  BY Settled DEF DeletePods
<1>4. PodsInv'
  BY ActiveInRun DEF DeletePods, testVars, ScorecardInv, PodsInv
<1>5. QED
  BY <1>1, <1>2, <1>3, <1>4 DEF ScorecardInv

LEMMA DeleteConfigMapStep == ScorecardInv /\ DeleteConfigMap => ScorecardInv'
<1> SUFFICES ASSUME ScorecardInv, DeleteConfigMap PROVE ScorecardInv'
  OBVIOUS
<1>1. TypeOK'
  BY DEF DeleteConfigMap, testVars, ScorecardInv, TypeOK
<1>2. RunInv'
  BY DEF DeleteConfigMap, testVars, ScorecardInv, RunInv, Before
<1>3. StagesInv' /\ ItemsInv'
  BY Settled DEF DeleteConfigMap
<1>4. PodsInv'
  BY DEF DeleteConfigMap, testVars, ScorecardInv, PodsInv
<1>5. QED
  BY <1>1, <1>2, <1>3, <1>4 DEF ScorecardInv

LEMMA CleanupFailsStep == ScorecardInv /\ CleanupFails => ScorecardInv'
<1> SUFFICES ASSUME ScorecardInv, CleanupFails PROVE ScorecardInv'
  OBVIOUS
<1>1. TypeOK'
  BY FaultsAssumption DEF CleanupFails, testVars, cluster, ScorecardInv, TypeOK, Errors
<1>2. RunInv'
  BY DEF CleanupFails, testVars, ScorecardInv, RunInv, Before
<1>3. StagesInv' /\ ItemsInv'
  BY Settled DEF CleanupFails
<1>4. PodsInv'
  BY DEF CleanupFails, testVars, cluster, ScorecardInv, RunInv, Before, PodsInv
<1>5. QED
  BY <1>1, <1>2, <1>3, <1>4 DEF ScorecardInv

LEMMA PrintOutputStep == ScorecardInv /\ PrintOutput => ScorecardInv'
<1> SUFFICES ASSUME ScorecardInv, PrintOutput PROVE ScorecardInv'
  OBVIOUS
<1>1. TypeOK'
  BY DEF PrintOutput, testVars, cluster, ScorecardInv, TypeOK
<1>2. RunInv'
  BY DEF PrintOutput, testVars, ScorecardInv, RunInv, Before
<1>3. StagesInv' /\ ItemsInv'
  BY Settled DEF PrintOutput
<1>4. PodsInv'
  BY DEF PrintOutput, testVars, cluster, ScorecardInv, PodsInv
<1>5. QED
  BY <1>1, <1>2, <1>3, <1>4 DEF ScorecardInv

\* RunTest's steps.  They leave alone what the cleanup has removed: no test is
\* under way by then.
LEMMA CreatePodStep ==
    ASSUME ScorecardInv, NEW t \in Tests, CreatePod(t)
    PROVE  ScorecardInv'
<1>1. pc = "run" /\ test \in [Tests -> TestSteps] /\ "wait" \in TestSteps
  BY ActiveInRun DEF CreatePod, ScorecardInv, TypeOK, TestSteps
<1>2. TypeOK'
  BY <1>1 DEF CreatePod, runVars, ScorecardInv, TypeOK
<1>3. RunInv' /\ StagesInv' /\ ItemsInv'
  <2>1. result[t] = None
    BY DEF CreatePod, ScorecardInv, StagesInv
  <2>2. result' \in [Tests -> {None, "pass", "fail", "error"}]
    BY <1>2 DEF TypeOK
  <2>3. QED
    BY <1>1, <2>1, <2>2, TestMoves DEF CreatePod
<1>4. PodsInv'
  BY <1>1 DEF CreatePod, runVars, ScorecardInv, PodsInv
<1>5. QED
  BY <1>2, <1>3, <1>4 DEF ScorecardInv

\* A test that returns an error, or its verdict, goes on to deliver it.
LEMMA Returns ==
    ASSUME ScorecardInv, NEW t \in Tests, test[t] \notin {"todo", "done"},
           NEW res \in {"pass", "fail", "error"}, Return(t, res),
           UNCHANGED <<runVars, output>>
    PROVE  /\ RunInv' /\ StagesInv' /\ ItemsInv'
           /\ test' \in [Tests -> TestSteps]
           /\ result' \in [Tests -> {None, "pass", "fail", "error"}]
           /\ \A u \in Tests : test'[u] \in {"gather", "status"} => u \in ended
<1>1. /\ test \in [Tests -> TestSteps]
      /\ result \in [Tests -> {None, "pass", "fail", "error"}]
      /\ test' = [test EXCEPT ![t] = "deliver"]
      /\ "deliver" \in TestSteps \ {"todo", "done"}
  BY DEF ScorecardInv, TypeOK, Return, TestSteps
<1>2. /\ result' \in [Tests -> {None, "pass", "fail", "error"}]
      /\ \A u \in Tests \ {t} : result'[u] = result[u]
      /\ result'[t] # None
  BY <1>1, NamesAssumption DEF Return
<1>3. RunInv' /\ StagesInv' /\ ItemsInv'
  BY <1>1, <1>2, TestMoves
<1>4. test' \in [Tests -> TestSteps]
  BY <1>1
<1>5. \A u \in Tests : test'[u] \in {"gather", "status"} => u \in ended
  BY <1>1 DEF ScorecardInv, PodsInv
<1>6. QED
  BY <1>2, <1>3, <1>4, <1>5

\* What a failed call leaves of the types.
LEMMA CallFailsTypes ==
    ASSUME TypeOK, CallFails
    PROVE  faults' \in 0 .. MaxFaults
BY FaultsAssumption DEF TypeOK, CallFails

LEMMA CreatePodFailsStep ==
    ASSUME ScorecardInv, NEW t \in Tests, CreatePodFails(t)
    PROVE  ScorecardInv'
<1>1. /\ pc = "run" /\ Return(t, "error") /\ test[t] \notin {"todo", "done"}
      /\ UNCHANGED <<runVars, output>> /\ TypeOK
  BY ActiveInRun DEF CreatePodFails, ScorecardInv
<1>2. /\ RunInv' /\ StagesInv' /\ ItemsInv'
      /\ test' \in [Tests -> TestSteps]
      /\ result' \in [Tests -> {None, "pass", "fail", "error"}]
      /\ \A u \in Tests : test'[u] \in {"gather", "status"} => u \in ended
  BY <1>1, Returns
<1>3. faults' \in 0 .. MaxFaults
  BY <1>1, CallFailsTypes DEF CreatePodFails
<1>4. /\ late' \in [Tests \cup {Bundle} -> {"no", "pending", "created"}]
      /\ late'[Bundle] = late[Bundle]
  BY NamesAssumption DEF CreatePodFails, MayComeLate, ScorecardInv, TypeOK
<1>5. TypeOK'
  BY <1>2, <1>3, <1>4 DEF CreatePodFails, runVars, ScorecardInv, TypeOK
<1>6. PodsInv'
  BY <1>1, <1>2, <1>4 DEF CreatePodFails, runVars, ScorecardInv, PodsInv
<1>7. QED
  BY <1>2, <1>5, <1>6 DEF ScorecardInv

LEMMA WaitFailsStep ==
    ASSUME ScorecardInv, NEW t \in Tests, WaitFails(t)
    PROVE  ScorecardInv'
<1>1. /\ pc = "run" /\ Return(t, "error") /\ test[t] \notin {"todo", "done"}
      /\ UNCHANGED <<runVars, output>> /\ TypeOK
  BY ActiveInRun DEF WaitFails, ScorecardInv
<1>2. /\ RunInv' /\ StagesInv' /\ ItemsInv'
      /\ test' \in [Tests -> TestSteps]
      /\ result' \in [Tests -> {None, "pass", "fail", "error"}]
      /\ \A u \in Tests : test'[u] \in {"gather", "status"} => u \in ended
  BY <1>1, Returns
<1>3. faults' \in 0 .. MaxFaults
  BY <1>1, CallFailsTypes DEF WaitFails
<1>4. TypeOK'
  BY <1>2, <1>3 DEF WaitFails, runVars, cluster, ScorecardInv, TypeOK
<1>5. PodsInv'
  BY <1>1, <1>2 DEF WaitFails, runVars, cluster, ScorecardInv, PodsInv
<1>6. QED
  BY <1>2, <1>4, <1>5 DEF ScorecardInv

LEMMA GatherFailsStep ==
    ASSUME ScorecardInv, NEW t \in Tests, GatherFails(t)
    PROVE  ScorecardInv'
<1>1. /\ pc = "run" /\ Return(t, "error") /\ test[t] \notin {"todo", "done"}
      /\ UNCHANGED <<runVars, output>> /\ TypeOK
  BY ActiveInRun DEF GatherFails, ScorecardInv
<1>2. /\ RunInv' /\ StagesInv' /\ ItemsInv'
      /\ test' \in [Tests -> TestSteps]
      /\ result' \in [Tests -> {None, "pass", "fail", "error"}]
      /\ \A u \in Tests : test'[u] \in {"gather", "status"} => u \in ended
  BY <1>1, Returns
<1>3. faults' \in 0 .. MaxFaults
  BY <1>1, FaultsAssumption DEF GatherFails, TypeOK
<1>4. TypeOK'
  BY <1>2, <1>3 DEF GatherFails, runVars, cluster, ScorecardInv, TypeOK
<1>5. PodsInv'
  BY <1>1, <1>2 DEF GatherFails, runVars, cluster, ScorecardInv, PodsInv
<1>6. QED
  BY <1>2, <1>4, <1>5 DEF ScorecardInv

LEMMA GetTestStatusFailsStep ==
    ASSUME ScorecardInv, NEW t \in Tests, GetTestStatusFails(t)
    PROVE  ScorecardInv'
<1>1. /\ pc = "run" /\ Return(t, "error") /\ test[t] \notin {"todo", "done"}
      /\ UNCHANGED <<runVars, output>> /\ TypeOK
  BY ActiveInRun DEF GetTestStatusFails, ScorecardInv
<1>2. /\ RunInv' /\ StagesInv' /\ ItemsInv'
      /\ test' \in [Tests -> TestSteps]
      /\ result' \in [Tests -> {None, "pass", "fail", "error"}]
      /\ \A u \in Tests : test'[u] \in {"gather", "status"} => u \in ended
  BY <1>1, Returns
<1>3. faults' \in 0 .. MaxFaults
  BY <1>1, CallFailsTypes DEF GetTestStatusFails
<1>4. TypeOK'
  BY <1>2, <1>3 DEF GetTestStatusFails, runVars, cluster, ScorecardInv, TypeOK
<1>5. PodsInv'
  BY <1>1, <1>2 DEF GetTestStatusFails, runVars, cluster, ScorecardInv, PodsInv
<1>6. QED
  BY <1>2, <1>4, <1>5 DEF ScorecardInv

LEMMA GetTestStatusStep ==
    ASSUME ScorecardInv, NEW t \in Tests, GetTestStatus(t)
    PROVE  ScorecardInv'
<1>1. PICK res \in {"pass", "fail", "error"} : Return(t, res)
  BY LogsAssumption DEF GetTestStatus
<1>2. /\ pc = "run" /\ test[t] \notin {"todo", "done"}
      /\ UNCHANGED <<runVars, output>>
  BY ActiveInRun DEF GetTestStatus
<1>3. /\ RunInv' /\ StagesInv' /\ ItemsInv'
      /\ test' \in [Tests -> TestSteps]
      /\ result' \in [Tests -> {None, "pass", "fail", "error"}]
      /\ \A u \in Tests : test'[u] \in {"gather", "status"} => u \in ended
  BY <1>1, <1>2, Returns
<1>4. TypeOK'
  BY <1>3 DEF GetTestStatus, runVars, cluster, ScorecardInv, TypeOK
<1>5. PodsInv'
  BY <1>2, <1>3 DEF GetTestStatus, runVars, cluster, ScorecardInv, PodsInv
<1>6. QED
  BY <1>3, <1>4, <1>5 DEF ScorecardInv

LEMMA TestCompletesStep ==
    ASSUME ScorecardInv, NEW t \in Tests, TestCompletes(t)
    PROVE  ScorecardInv'
<1>1. pc = "run" /\ test \in [Tests -> TestSteps] /\ t \in ended
  BY ActiveInRun DEF TestCompletes, ScorecardInv, TypeOK, PodsInv
<1>2. PICK step \in TestSteps \ {"todo", "done"} :
        step \in {"gather", "status"} /\ test' = [test EXCEPT ![t] = step]
  BY DEF TestCompletes, TestSteps
<1>3. TypeOK'
  BY <1>1, <1>2 DEF TestCompletes, runVars, cluster, ScorecardInv, TypeOK
<1>4. RunInv' /\ StagesInv' /\ ItemsInv'
  <2>1. result[t] = None
    BY DEF TestCompletes, ScorecardInv, StagesInv
  <2>2. result' \in [Tests -> {None, "pass", "fail", "error"}]
    BY <1>3 DEF TypeOK
  <2>3. QED
    BY <1>2, <2>1, <2>2, TestMoves DEF TestCompletes
<1>5. PodsInv'
  BY <1>1, <1>2 DEF TestCompletes, runVars, cluster, ScorecardInv, PodsInv
<1>6. QED
  BY <1>3, <1>4, <1>5 DEF ScorecardInv

LEMMA GatherStep ==
    ASSUME ScorecardInv, NEW t \in Tests, Gather(t)
    PROVE  ScorecardInv'
<1>1. pc = "run" /\ test \in [Tests -> TestSteps] /\ t \in ended
  BY ActiveInRun DEF Gather, ScorecardInv, TypeOK, PodsInv
<1>2. PICK step \in TestSteps \ {"todo", "done"} :
        step \in {"gather", "status"} /\ test' = [test EXCEPT ![t] = step]
  BY DEF Gather, TestSteps
<1>3. TypeOK'
  BY <1>1, <1>2 DEF Gather, runVars, cluster, ScorecardInv, TypeOK
<1>4. RunInv' /\ StagesInv' /\ ItemsInv'
  <2>1. result[t] = None
    BY DEF Gather, ScorecardInv, StagesInv
  <2>2. result' \in [Tests -> {None, "pass", "fail", "error"}]
    BY <1>3 DEF TypeOK
  <2>3. QED
    BY <1>2, <2>1, <2>2, TestMoves DEF Gather
<1>5. PodsInv'
  BY <1>1, <1>2 DEF Gather, runVars, cluster, ScorecardInv, PodsInv
<1>6. QED
  BY <1>3, <1>4, <1>5 DEF ScorecardInv

\* In a sequential stage the successor of a test that delivers has not begun.
LEMMA SuccessorTodo ==
    ASSUME ScorecardInv, NEW t \in Tests, test[t] # "done", stage \in 1 .. Len(Stages),
           NEW u \in Successor(t)
    PROVE  /\ u \in Listed(stage) /\ u \in Tests /\ ~Stages[stage].parallel
           /\ test[u] = "todo"
           /\ \E i \in 1 .. Len(Stages[stage].tests) - 1 :
                 Stages[stage].tests[i] = t /\ Stages[stage].tests[i + 1] = u
<1>1. /\ u \in Listed(stage) /\ ~Stages[stage].parallel
      /\ \E i \in 1 .. Len(Stages[stage].tests) - 1 :
            Stages[stage].tests[i] = t /\ Stages[stage].tests[i + 1] = u
  BY DEF Successor
<1>2. PICK i \in 1 .. Len(Stages[stage].tests) - 1 :
        Stages[stage].tests[i] = t /\ Stages[stage].tests[i + 1] = u
  BY <1>1
<1>3. i \in 1 .. Len(Stages[stage].tests) /\ i + 1 \in 1 .. Len(Stages[stage].tests) /\ i < i + 1
  BY StageTests
<1>4. test[u] = "todo"
  BY <1>1, <1>2, <1>3 DEF ScorecardInv, StagesInv
<1>5. QED
  BY <1>1, <1>4, StageTests

LEMMA DeliverStep ==
    ASSUME ScorecardInv, NEW t \in Tests, Deliver(t)
    PROVE  ScorecardInv'
<1>1. /\ pc = "run" /\ stage \in 1 .. Len(Stages) /\ t \in Listed(stage)
      /\ test[t] = "deliver"
  BY ActiveInRun DEF Deliver
<1>2. /\ test \in [Tests -> TestSteps]
      /\ \A u \in Tests : test'[u] = (IF u = t THEN "done"
                                    ELSE IF u \in Successor(t) THEN "create" ELSE test[u])
      /\ test' \in [Tests -> TestSteps]
  BY DEF Deliver, ScorecardInv, TypeOK, TestSteps
<1>3. /\ UNCHANGED <<pc, stage, items, err, printed, result, cluster, expired, faults>>
      /\ output' = Append(output, t)
      /\ output \in Seq(Tests)
  BY DEF Deliver, runVars, ScorecardInv, TypeOK
<1>4. \A u \in Successor(t) :
        /\ u \in Listed(stage) /\ u \in Tests /\ ~Stages[stage].parallel
        /\ test[u] = "todo"
        /\ \E i \in 1 .. Len(Stages[stage].tests) - 1 :
              Stages[stage].tests[i] = t /\ Stages[stage].tests[i + 1] = u
  BY <1>1, SuccessorTodo
\* The new result comes after those that are out.
<1>5. Positions(output, t) = {}
  BY <1>1 DEF ScorecardInv, ItemsInv
<1>6. ASSUME NEW i \in 1 .. Len(output) PROVE ~Precedes(t, output[i])
  <2>1. output[i] \in Tests /\ i \in Positions(output, output[i])
    BY <1>3 DEF Positions
  <2>2. output[i] \in Listed(stage) /\ test[output[i]] = "done"
    BY <2>1 DEF ScorecardInv, ItemsInv
  <2>3. SUFFICES ASSUME Precedes(t, output[i]) PROVE FALSE
    OBVIOUS
  <2>4. PICK k, l \in 1 .. Len(Stages[stage].tests) :
          /\ ~Stages[stage].parallel /\ k < l
          /\ Stages[stage].tests[k] = t /\ Stages[stage].tests[l] = output[i]
    BY <1>1, <2>2, <2>3, PrecedesInStages
  <2>5. test[t] = "done"
    BY <1>1, <2>2, <2>4 DEF ScorecardInv, StagesInv
  <2>6. QED
    BY <1>1, <2>5
<1>7. /\ output' \in Seq(Tests) /\ Once(output') /\ InOrder(output')
      /\ \A u \in Tests : Positions(output', u) # {} <=> u = t \/ Positions(output, u) # {}
  BY <1>3, <1>5, <1>6, AppendResult DEF ScorecardInv, ItemsInv
<1>8. TypeOK'
  BY <1>2, <1>3, <1>7 DEF cluster, ScorecardInv, TypeOK
<1>9. RunInv'
  BY <1>1, <1>3 DEF ScorecardInv, RunInv, Before
<1>10. StagesInv'
  <2>1. ASSUME NEW s \in 1 .. Len(Stages), NEW u \in Listed(s)
        PROVE  /\ s < stage' => test'[u] = "done"
               /\ s > stage' \/ (s = stage' /\ pc' # "run") => test'[u] = "todo"
    <3>1. u \in Tests /\ (u = t \/ u \in Successor(t) => s = stage)
      BY <1>1, <1>4, <2>1, StageTests, OwnStage
    <3>2. QED
      BY <1>1, <1>2, <1>3, <3>1 DEF ScorecardInv, StagesInv
  <2>2. ASSUME NEW s \in 1 .. Len(Stages),
               NEW i \in 1 .. Len(Stages[s].tests), NEW j \in 1 .. Len(Stages[s].tests),
               ~Stages[s].parallel, i < j, test'[Stages[s].tests[j]] # "todo"
        PROVE  test'[Stages[s].tests[i]] = "done"
    <3> DEFINE x == Stages[s].tests[i]
               y == Stages[s].tests[j]
    <3>1. x \in Listed(s) /\ y \in Listed(s) /\ x \in Tests /\ y \in Tests
      BY StageTests
    <3>2. CASE test[y] # "todo"
      \* x is done already, and so is neither t nor a successor of it.
      <4>1. test[x] = "done"
        BY <2>2, <3>2 DEF ScorecardInv, StagesInv
      <4>2. x \notin Successor(t)
        BY <1>4, <4>1
      <4>3. QED
        BY <1>2, <3>1, <4>1, <4>2
    <3>3. CASE test[y] = "todo"
      <4>1. y \in Successor(t) /\ y # t
        BY <1>1, <1>2, <2>2, <3>1, <3>3
      <4>2. PICK k \in 1 .. Len(Stages[stage].tests) - 1 :
              Stages[stage].tests[k] = t /\ Stages[stage].tests[k + 1] = y
        BY <1>4, <4>1
      <4>3. s = stage
        BY <1>1, <1>4, <3>1, <4>1, OwnStage
      <4>4. k \in 1 .. Len(Stages[s].tests) /\ k + 1 \in 1 .. Len(Stages[s].tests)
        BY <4>3, StageTests
      <4>5. j = k + 1
        BY <4>2, <4>3, <4>4, StagesAssumption
      <4>6. CASE i = k
        BY <1>2, <3>1, <4>2, <4>3, <4>6
      <4>7. CASE i < k
        <5>1. test[x] = "done"
          BY <1>1, <2>2, <4>2, <4>3, <4>4, <4>7 DEF ScorecardInv, StagesInv
        <5>2. x \notin Successor(t)
          BY <1>4, <5>1
        <5>3. QED
          BY <1>2, <3>1, <5>1, <5>2
      <4>8. QED
        BY <2>2, <4>4, <4>5, <4>6, <4>7
    <3>4. QED
      BY <3>2, <3>3
  <2>3. \A u \in Tests : result'[u] # None <=> test'[u] \in {"deliver", "done"}
    BY <1>1, <1>2, <1>3, <1>4 DEF ScorecardInv, StagesInv
  <2>4. QED
    BY <2>1, <2>2, <2>3 DEF StagesInv
<1>11. ItemsInv'
  <2>1. \A u \in Tests : Positions(output', u) # {} <=>
          pc' = "run" /\ u \in Listed(stage') /\ test'[u] = "done"
    BY <1>1, <1>2, <1>3, <1>4, <1>7 DEF ScorecardInv, ItemsInv
  <2>2. Once(items') /\ InOrder(items') /\ \A u : Positions(items', u) = Positions(items, u)
    BY <1>3 DEF ScorecardInv, ItemsInv
  <2>3. QED
    BY <1>3, <1>7, <2>1, <2>2 DEF ScorecardInv, ItemsInv
<1>12. PodsInv'
  BY <1>1, <1>2, <1>3, <1>4 DEF cluster, ScorecardInv, PodsInv
<1>13. QED
  BY <1>8, <1>9, <1>10, <1>11, <1>12 DEF ScorecardInv

\* The cluster's steps and the clock's leave Run and the tests alone.
LEMMA RunUntouched ==
    ASSUME ScorecardInv, UNCHANGED <<runVars, testVars>>
    PROVE  RunInv' /\ StagesInv' /\ ItemsInv'
<1>1. RunInv'
  BY DEF runVars, testVars, ScorecardInv, RunInv, Before
<1>2. StagesInv'
  BY DEF runVars, testVars, ScorecardInv, StagesInv
<1>3. ItemsInv'
  BY DEF runVars, testVars, ScorecardInv, ItemsInv
<1>4. QED
  BY <1>1, <1>2, <1>3

LEMMA TestContainerEndsStep ==
    ASSUME ScorecardInv, NEW t \in Tests, TestContainerEnds(t)
    PROVE  ScorecardInv'
<1>1. TypeOK'
  BY DEF TestContainerEnds, runVars, testVars, ScorecardInv, TypeOK
<1>2. PodsInv'
  BY DEF TestContainerEnds, runVars, testVars, ScorecardInv, PodsInv
<1>3. QED
  BY <1>1, <1>2, RunUntouched DEF TestContainerEnds, ScorecardInv

LEMMA LateCreateStep ==
    ASSUME ScorecardInv, NEW c \in Tests \cup {Bundle}, LateCreate(c)
    PROVE  ScorecardInv'
<1>1. /\ late \in [Tests \cup {Bundle} -> {"no", "pending", "created"}]
      /\ late' = [late EXCEPT ![c] = "created"]
      /\ c = Bundle => configMap' = TRUE /\ pods' = pods
      /\ c # Bundle => c \in Tests /\ pods' = pods \cup {c} /\ configMap' = configMap
      /\ UNCHANGED <<runVars, testVars, ended, expired, faults>>
  BY DEF LateCreate, ScorecardInv, TypeOK
<1>2. TypeOK'
  BY <1>1 DEF runVars, testVars, ScorecardInv, TypeOK
<1>3. PodsInv'
  <2>1. late[c] = "pending"
    BY DEF LateCreate
  <2>2. \A u \in Tests \cup {Bundle} : late'[u] = IF u = c THEN "created" ELSE late[u]
    BY <1>1
  <2>3. late'[Bundle] # "no" => late[Bundle] # "no"
    BY <2>1, <2>2
  <2>4. configMap' => configMap \/ err = "initialize"
    BY <1>1, <2>1 DEF ScorecardInv, PodsInv
  <2>5. \A u \in pods' : (u \in pods => late[u] = "created") => late'[u] = "created"
    BY <1>1, <2>2 DEF ScorecardInv, TypeOK
  <2>6. err = "initialize" => pc \in {"print", "done"}
    BY DEF ScorecardInv, RunInv
  <2>7. QED
    BY <1>1, <2>3, <2>4, <2>5, <2>6 DEF runVars, testVars, ScorecardInv, PodsInv
<1>4. QED
  BY <1>1, <1>2, <1>3, RunUntouched DEF ScorecardInv

LEMMA ExpireStep == ScorecardInv /\ Expire => ScorecardInv'
<1> SUFFICES ASSUME ScorecardInv, Expire PROVE ScorecardInv'
  OBVIOUS
<1>1. TypeOK'
  BY DEF Expire, runVars, testVars, cluster, ScorecardInv, TypeOK
<1>2. PodsInv'
  BY DEF Expire, runVars, testVars, cluster, ScorecardInv, PodsInv
<1>3. QED
  BY <1>1, <1>2, RunUntouched DEF Expire, ScorecardInv

LEMMA StepScorecardInv == ScorecardInv /\ [Next]_vars => ScorecardInv'
<1> SUFFICES ASSUME ScorecardInv, [Next]_vars PROVE ScorecardInv'
  OBVIOUS
<1>1. CASE Run
  BY <1>1, InitializeStep, InitializeFailsStep, StartStageStep, SkipStageStep, EndStageStep,
     FinishStep, DeletePodsStep, DeleteConfigMapStep, CleanupFailsStep, PrintOutputStep DEF Run
<1>2. ASSUME NEW t \in Tests, RunTest(t) PROVE ScorecardInv'
  BY <1>2, CreatePodStep, CreatePodFailsStep, TestCompletesStep, WaitFailsStep, GatherStep,
     GatherFailsStep, GetTestStatusStep, GetTestStatusFailsStep, DeliverStep DEF RunTest
<1>3. CASE UNCHANGED vars
  <2>1. TypeOK' /\ PodsInv'
    BY <1>3 DEF vars, runVars, testVars, cluster, ScorecardInv, TypeOK, PodsInv
  <2>2. QED
    BY <1>3, <2>1, RunUntouched DEF vars, ScorecardInv
<1>4. QED
  BY <1>1, <1>2, <1>3, ExpireStep, TestContainerEndsStep, LateCreateStep DEF Next

----------------------------------------------------------------------------
(* Theorems                                                                *)

\* In every reachable state the stages, the tests, the results and the cluster
\* stand to one another as ScorecardInv says.
THEOREM ScorecardSound == Spec => []ScorecardInv
BY InitScorecardInv, StepScorecardInv, PTL DEF Spec

\* Every selected test is reported once, in the order of the stages and of a
\* sequential stage, whatever fails and whenever the deadline comes, unless the
\* initialization failed.
THEOREM Reported == Spec => []AllReported
<1>1. ASSUME ScorecardInv PROVE AllReported
  <2>1. ResultsInOrder
    BY <1>1, OncePositions DEF ScorecardInv, TypeOK, ItemsInv, InOrder, ResultsInOrder
  <2>2. ASSUME pc = "done", err # "initialize", NEW t \in Tests
        PROVE  Positions(items, t) # {} /\ result[t] # None
    <3>1. stage = Len(Stages) + 1 /\ Len(Stages) \in Nat
      BY <1>1, <2>2, StagesAssumption DEF ScorecardInv, RunInv, Before
    <3>2. PICK s \in 1 .. Len(Stages) : t \in Listed(s)
      BY OwnStage
    <3>3. s < stage
      BY <3>1
    <3>4. test[t] = "done"
      BY <1>1, <3>2, <3>3 DEF ScorecardInv, StagesInv
    <3>5. QED
      BY <1>1, <3>2, <3>3, <3>4 DEF ScorecardInv, StagesInv, ItemsInv
  <2>3. QED
    BY <2>1, <2>2 DEF AllReported
<1>2. QED
  BY <1>1, ScorecardSound, PTL

\* A verdict is read from the log of a test whose container has terminated.
THEOREM VerdictSound == Spec => VerdictFromTest
<1>1. ASSUME ScorecardInv, [Next]_vars, NEW t \in Tests,
             result[t] = None, result'[t] \in {"pass", "fail"}
      PROVE  t \in ended
  <2>1. result \in [Tests -> {None, "pass", "fail", "error"}]
    BY <1>1 DEF ScorecardInv, TypeOK
  <2>2. GetTestStatus(t)
    BY <1>1, <2>1, NamesAssumption
       DEF Next, Run, RunTest, vars, runVars, testVars, Initialize, InitializeFails, StartStage,
           SkipStage, EndStage, Finish, DeletePods, DeleteConfigMap, CleanupFails, PrintOutput,
           CreatePod, CreatePodFails, TestCompletes, WaitFails, Gather, GatherFails, GetTestStatus,
           GetTestStatusFails, Deliver, Return, TestContainerEnds, LateCreate, Expire
  <2>3. QED
    BY <1>1, <2>2 DEF GetTestStatus, ScorecardInv, PodsInv
<1>2. ScorecardInv /\ [Next]_vars
      => [\A t \in Tests : result[t] = None /\ result'[t] \in {"pass", "fail"} => t \in ended]_vars
  BY <1>1
<1>3. QED
  BY <1>2, ScorecardSound, PTL DEF Spec, VerdictFromTest

\* A run that did not report a failed cleanup has left nothing behind but pods
\* whose failed creation took effect late.
THEOREM CleanBehind == Spec => []NothingLeftBehind
<1>1. ScorecardInv => NothingLeftBehind
  BY DEF ScorecardInv, PodsInv, NothingLeftBehind
<1>2. QED
  BY <1>1, ScorecardSound, PTL
=============================================================================
