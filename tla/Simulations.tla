---------------------------- MODULE Simulations -----------------------------
(***************************************************************************)
(* The three simulations of a plan: with canned answers, with failures     *)
(* injected at random, and on a shadow of its resources.                   *)
(***************************************************************************)
EXTENDS Integers, FiniteSets, SequencesExt

-----------------------------------------------------------------------------
(***************************************************************************)
(* The simulation of a plan before it is executed (simulation/index.ts).   *)
(* Steps are named by their position in the plan.  A simulated step cannot *)
(* fail: its outputs are canned.  What can go wrong is the order of the    *)
(* steps, the time limit, the depth of a plan whose steps depend on each   *)
(* other in a circle, and the database.                                    *)
(***************************************************************************)

CONSTANTS
    SimulatedPlans,   \* [steps, cost]; a step is [deps, risk, sideEffect, compensated,
                      \*  external, mocked, costly], an unknown dependency is 0
    MaxSimulations    \* bound

VARIABLES simulations   \* the table simulations

simulationVars == <<simulations>>

SimulationInit == simulations = <<>>

-----------------------------------------------------------------------------
RECURSIVE SortVisit(_, _, _)
SortVisit(steps, acc, s) ==
    IF s \in acc.visited THEN acc
    ELSE LET below == FoldLeft(LAMBDA a, d : IF d \in DOMAIN steps THEN SortVisit(steps, a, d)
                                             ELSE a,
                               [acc EXCEPT !.visited = @ \cup {s}], steps[s].deps)
         IN [below EXCEPT !.order = Append(@, s)]

\* topologicalSort
SimulationOrder(steps) ==
    FoldLeft(LAMBDA a, s : SortVisit(steps, a, s), [visited |-> {}, order |-> <<>>],
             [s \in DOMAIN steps |-> s]).order

DependsOn(steps, s) == Range(steps[s].deps) \cap DOMAIN steps

RECURSIVE Reaches(_, _, _)
Reaches(steps, S, n) ==
    IF n = 0 THEN S ELSE Reaches(steps, S \cup UNION {DependsOn(steps, s) : s \in S}, n - 1)

Circular(steps) ==
    \E s \in DOMAIN steps : s \in Reaches(steps, DependsOn(steps, s), Len(steps))

\* getDepth, where it returns: an unknown dependency has depth 0.
RECURSIVE DepthOf(_, _)
DepthOf(steps, s) ==
    IF s \notin DOMAIN steps \/ steps[s].deps = <<>> THEN 0
    ELSE 1 + CHOOSE d \in {DepthOf(steps, t) : t \in Range(steps[s].deps)} :
                \A t \in Range(steps[s].deps) : DepthOf(steps, t) <= d

DependencyDepth(steps) ==
    FoldLeft(LAMBDA most, s : IF DepthOf(steps, s) > most THEN DepthOf(steps, s) ELSE most,
             0, [s \in DOMAIN steps |-> s])

HowMany(steps, P(_)) == Cardinality({s \in DOMAIN steps : P(steps[s])})

Gap(step) == step.sideEffect /\ ~step.compensated

SimulatedRisk(plan) ==
    LET score == 5 * HowMany(plan.steps, LAMBDA s : s.sideEffect)
                 + 25 * HowMany(plan.steps, LAMBDA s : s.risk = "destructive")
                 + 15 * HowMany(plan.steps, LAMBDA s : s.risk = "high")
                 + 3 * HowMany(plan.steps, LAMBDA s : s.external)
                 + (IF plan.cost > 100 THEN 10 ELSE 0) + (IF plan.cost > 500 THEN 15 ELSE 0)
                 + (IF plan.cost > 1000 THEN 20 ELSE 0)
                 + (IF HowMany(plan.steps, Gap) > 0 THEN 20 ELSE 0)
                 + 2 * DependencyDepth(plan.steps)
    IN IF score > 100 THEN 100 ELSE score

PlanBlast(steps) ==
    LET effects == HowMany(steps, LAMBDA s : s.sideEffect) IN
    CASE HowMany(steps, LAMBDA s : s.risk = "destructive") > 0 \/ effects > 5 -> "high"
      [] effects > 2 -> "medium"
      [] OTHER -> "low"

-----------------------------------------------------------------------------
\* The loop of simulate: a step whose dependencies have not all succeeded is skipped.
Ready(steps, results, s) ==
    \A d \in Range(steps[s].deps) : \E i \in DOMAIN results : results[i] = <<d, "success">>

Simulated(steps, order) ==
    FoldLeft(LAMBDA results, s :
                Append(results, <<s, IF Ready(steps, results, s) THEN "success" ELSE "skipped">>),
             <<>>, order)

\* simulateStep has something to say of a step.
Warns(step, mock) == (mock /\ ~step.mocked) \/ Gap(step) \/ step.costly

\* What simulate makes of a plan of which `cut' steps were reached before the timeout.
\* Nothing ever fails, so only a plan without steps, whose failed steps are all of it, does.
SimulationOf(plan, mock, cut) ==
    LET steps == plan.steps
        results == Simulated(steps, SubSeq(SimulationOrder(steps), 1, cut))
        warned == \E i \in DOMAIN results :
                     results[i][2] = "success" /\ Warns(steps[results[i][1]], mock)
        status == IF Len(steps) = 0 THEN "fail" ELSE "success"
    IN [plan |-> plan, results |-> results, status |-> status, blast |-> PlanBlast(steps),
        risk |-> SimulatedRisk(plan), anomalies |-> warned \/ cut < Len(steps),
        review |-> SimulatedRisk(plan) > 50 \/ PlanBlast(steps) = "high" \/ status # "success"
                   \/ warned \/ cut < Len(steps)]

FailedSimulation(plan, cut) ==
    [plan |-> plan, status |-> "fail", blast |-> "high", risk |-> 100, anomalies |-> TRUE,
     results |-> Simulated(plan.steps, SubSeq(SimulationOrder(plan.steps), 1, cut)),
     review |-> TRUE]

Persist(result) == simulations' = Append(simulations, result)

Simulate(plan, mock, cut) ==
    /\ Len(simulations) < MaxSimulations
    /\ ~Circular(plan.steps) /\ Persist(SimulationOf(plan, mock, cut))

\* The catch: a circle overflows the stack, or the record could not be written; then the
\* record of the failure may still be.
SimulationFails(plan, cut) ==
    /\ Len(simulations) < MaxSimulations
    /\ Persist(FailedSimulation(plan, cut))

SimulationNext ==
    \E plan \in SimulatedPlans, mock \in BOOLEAN :
        \E cut \in 0 .. Len(plan.steps) : Simulate(plan, mock, cut) \/ SimulationFails(plan, cut)

-----------------------------------------------------------------------------
\* Type invariant.
SimulationTypeOK ==
    \A i \in DOMAIN simulations : simulations[i].plan \in SimulatedPlans
                                  /\ simulations[i].risk \in 0 .. 100

\* A simulated step comes after all it depends on, and nobody is spared a review of a plan
\* with a circle in it, a destructive step, a side effect without compensation that was
\* reached, or steps that were not.
SimulationsAreHonest ==
    \A i \in DOMAIN simulations :
        LET sim == simulations[i]
            steps == sim.plan.steps
            at(s) == CHOOSE k \in DOMAIN sim.results : sim.results[k][1] = s
        IN
        /\ \A k \in DOMAIN sim.results : sim.results[k][2] = "success" =>
              \A d \in Range(steps[sim.results[k][1]].deps) :
                 d \in DOMAIN steps /\ at(d) < k /\ sim.results[at(d)][2] = "success"
        /\ ~sim.review =>
              /\ ~Circular(steps) /\ Len(sim.results) = Len(steps)
              /\ \A s \in DOMAIN steps : steps[s].risk # "destructive"
              /\ \A k \in DOMAIN sim.results :
                    sim.results[k][2] = "success" => ~Gap(steps[sim.results[k][1]])

-----------------------------------------------------------------------------
(***************************************************************************)
(* The Monte Carlo simulation of failures (simulation/                     *)
(* adversarial-simulator.ts): iterations over a plan in which failures are *)
(* injected at random, then statistics, and a recommendation.  What the    *)
(* generator of random numbers answers is left open.  A scenario is what   *)
(* the evaluation tells apart: whether it is critical, and whether one can *)
(* recover from it.  Times and costs are left out.                         *)
(***************************************************************************)

CONSTANTS
    AttackedPlans,     \* [steps, iterations]; a step also has `retries' (a retry policy)
    FailureScenarios   \* [critical, recoverable]

VARIABLES
    attacked,     \* the plan
    iterations,   \* iteration_results
    injected,     \* injected_failures of the iteration: [step, critical, recovered]
    stepResults,  \* of the iteration: <<step, status>>
    failedSteps,  \* of the iteration, with the steps that a cascade fails
    verdict       \* the recommendation, when it is there

attackVars == <<attacked, iterations, injected, stepResults, failedSteps, verdict>>

AttackInit ==
    /\ attacked \in AttackedPlans /\ iterations = <<>> /\ injected = {} /\ stepResults = <<>>
    /\ failedSteps = {} /\ verdict = "none"

-----------------------------------------------------------------------------
(* runIteration                                                            *)

AttackSteps == attacked.steps

AttackOrder == SimulationOrder(AttackSteps)

Dependents(s) == {t \in DOMAIN AttackSteps : s \in Range(AttackSteps[t].deps)}

Completed == {s \in DOMAIN AttackSteps : <<s, "success">> \in Range(stepResults)}

NextToRun == AttackOrder[Len(stepResults) + 1]

InIteration == verdict = "none" /\ Len(iterations) < attacked.iterations

CanRun(s) == Range(AttackSteps[s].deps) \subseteq Completed

SkipStep ==
    /\ InIteration /\ Len(stepResults) < Len(AttackSteps) /\ ~CanRun(NextToRun)
    /\ stepResults' = Append(stepResults, <<NextToRun, "skipped">>)
    /\ UNCHANGED <<attacked, iterations, injected, failedSteps, verdict>>

RunsUndisturbed ==
    /\ InIteration /\ Len(stepResults) < Len(AttackSteps) /\ CanRun(NextToRun)
    /\ stepResults' = Append(stepResults, <<NextToRun, "success">>)
    /\ UNCHANGED <<attacked, iterations, injected, failedSteps, verdict>>

\* A failure is injected.  Whether the step succeeds after retries, and whether the failure
\* counts as recovered, are two draws that know nothing of each other.  A step that failed
\* may take its dependents with it.
InjectFailure(scenario, succeeds, recovered, cascades) ==
    /\ InIteration /\ Len(stepResults) < Len(AttackSteps) /\ CanRun(NextToRun)
    /\ (succeeds \/ recovered) => scenario.recoverable
    /\ cascades => ~succeeds
    /\ stepResults' = Append(stepResults, <<NextToRun, IF succeeds THEN "success" ELSE "failed">>)
    /\ injected' = injected \cup {[step |-> NextToRun, critical |-> scenario.critical,
                                   recovered |-> recovered]}
    /\ failedSteps' = IF succeeds THEN failedSteps
                      ELSE failedSteps \cup {NextToRun}
                              \cup (IF cascades THEN Dependents(NextToRun) ELSE {})
    /\ UNCHANGED <<attacked, iterations, verdict>>

BaseScore == [low |-> 10, medium |-> 30, high |-> 60, destructive |-> 80]

Sum(S, F(_)) == FoldLeft(LAMBDA total, x : total + F(x), 0, SetToSeq(S))

\* calculateIterationRiskScore
IterationScore ==
    LET failures == {s \in DOMAIN AttackSteps : <<s, "failed">> \in Range(stepResults)}
        score == Sum(failures, LAMBDA s : BaseScore[AttackSteps[s].risk])
                 + 25 * Cardinality({f \in injected : f.critical})
                 + 15 * Cardinality({f \in injected : ~f.recovered})
                 + (30 * (Len(AttackSteps) - Cardinality(Completed))) \div Len(AttackSteps)
    IN IF score > 100 THEN 100 ELSE score

IterationStatus ==
    CASE failedSteps = {} -> "success"
      [] Cardinality(failedSteps) = Len(AttackSteps) -> "fail"
      [] OTHER -> "partial_fail"

Triggered ==
    \E s \in DOMAIN AttackSteps : <<s, "failed">> \in Range(stepResults)
                                 /\ AttackSteps[s].sideEffect /\ AttackSteps[s].compensated

EndIteration ==
    /\ InIteration /\ Len(stepResults) = Len(AttackSteps)
    /\ iterations' = Append(iterations,
          [status |-> IterationStatus, score |-> IterationScore, steps |-> Range(stepResults),
           failures |-> injected, compensation |-> Triggered])
    /\ injected' = {} /\ stepResults' = <<>> /\ failedSteps' = {}
    /\ UNCHANGED <<attacked, verdict>>

-----------------------------------------------------------------------------
(* calculateStatistics, analyzeFailures.  A rate is compared as a fraction *)
(* of the iterations; without iterations rates are 0 and means not numbers.  *)

Runs == DOMAIN iterations

Count == Len(iterations)

With(status) == Cardinality({i \in Runs : iterations[i].status = status})

MaxScore == FoldLeft(LAMBDA most, r : IF r.score > most THEN r.score ELSE most, 0, iterations)

TotalScore == Sum(Runs, LAMBDA i : iterations[i].score)

\* The mean is at least `bound'; never so when there is none.
MeanAtLeast(bound) == Count > 0 /\ TotalScore >= bound * Count

\* The square of Count times the variance.
Variance == Count * Sum(Runs, LAMBDA i : iterations[i].score * iterations[i].score)
            - TotalScore * TotalScore

RateAbove(count, percent) == 100 * count > percent * Count

FailedIn(s) == {i \in Runs : <<s, "failed">> \in iterations[i].steps}

Vulnerable(s) == FailedIn(s) # {}

Criticality(s) ==
    LET rate(percent) == RateAbove(Cardinality(FailedIn(s)), percent)
        risk == AttackSteps[s].risk
    IN CASE risk = "destructive" \/ rate(50) -> "critical"
         [] risk = "high" \/ rate(30)        -> "high"
         [] risk = "medium" \/ rate(10)      -> "medium"
         [] OTHER                            -> "low"

\* findFailureCorrelations: the sign and the square of the coefficient.
Correlated(s, t) ==
    LET a == Cardinality(FailedIn(s))
        b == Cardinality(FailedIn(t))
        cross == Cardinality(FailedIn(s) \cap FailedIn(t)) * Count - a * b
        square == a * (Count - a) * b * (Count - b)
    IN a > 0 /\ b > 0 /\ square > 0 /\ 100 * cross * cross > 9 * square

\* identifyCascadePatterns: the iterations in which a step failed and all its dependents
\* failed or were skipped.
CascadedIn(s) ==
    {i \in FailedIn(s) : \A t \in Dependents(s) : <<t, "success">> \notin iterations[i].steps}

CascadePattern(s) ==
    Dependents(s) # {} /\ RateAbove(Cardinality(CascadedIn(s)), 10)

WideCascade(s) ==
    CascadePattern(s) /\ 10 * Cardinality(Dependents(s)) > 3 * Len(AttackSteps)

SinglePoint(s) == 10 * Cardinality(Dependents(s)) >= 3 * Len(AttackSteps)

SinglePoints == {s \in DOMAIN AttackSteps : SinglePoint(s)}

InjectedFailures == Sum(Runs, LAMBDA i : Cardinality(iterations[i].failures))

RecoveredFailures ==
    Sum(Runs, LAMBDA i : Cardinality({f \in iterations[i].failures : f.recovered}))

\* Recovery is effective where there is nothing to recover from.
RecoveryAtLeast(percent) ==
    InjectedFailures = 0 \/ 100 * RecoveredFailures >= percent * InjectedFailures

\* assessResilience
FaultTolerance ==
    LET retries == \E s \in DOMAIN AttackSteps : AttackSteps[s].retries
        compensation == \E s \in DOMAIN AttackSteps : AttackSteps[s].compensated
    IN CASE ~retries /\ ~compensation -> "none"
         [] retries /\ ~compensation  -> "basic"
         [] compensation /\ ~RecoveryAtLeast(50) -> "moderate"
         [] compensation /\ RecoveryAtLeast(80)  -> "very_high"
         [] OTHER -> "high"

\* generateRecommendations: what they are about.
Recommendations ==
    {c \in {"reliability", "architecture", "compensation", "retry", "cascade", "recovery",
            "predictability"} :
        \/ c = "reliability" /\ RateAbove(With("fail"), 10)
        \/ c = "architecture" /\ SinglePoints # {}
        \/ c = "compensation" /\ HowMany(AttackSteps, Gap) > 0
        \/ c = "retry" /\ 2 * HowMany(AttackSteps, LAMBDA s : ~s.retries) > Len(AttackSteps)
        \/ c = "cascade" /\ \E s \in DOMAIN AttackSteps : WideCascade(s)
        \/ c = "recovery" /\ ~RecoveryAtLeast(50)
        \/ c = "predictability" /\ Variance > 400 * Count * Count}

WorstCase ==
    CASE MaxScore >= 80 -> "destructive" [] MaxScore >= 60 -> "high" [] MaxScore >= 30 -> "medium"
      [] OTHER -> "low"

Expected ==
    CASE MeanAtLeast(60) -> "destructive" [] MeanAtLeast(40) -> "high" [] MeanAtLeast(20) -> "medium"
      [] OTHER -> "low"

\* assessRisk.  An expected risk that is destructive is asked for nowhere.
Assessment ==
    CASE RateAbove(With("fail"), 20) \/ WorstCase = "destructive" \/ SinglePoints # {} -> "block"
      [] RateAbove(With("fail"), 10) \/ Expected = "high"
            \/ RateAbove(With("partial_fail"), 30) -> "require_review"
      [] RateAbove(With("partial_fail"), 10) \/ Expected = "medium" -> "proceed_with_caution"
      [] OTHER -> "proceed"

\* The iterations are done, or max_simulation_time_ms is over between two of them.
Assess ==
    /\ verdict = "none" /\ stepResults = <<>> /\ verdict' = Assessment
    /\ UNCHANGED <<attacked, iterations, injected, stepResults, failedSteps>>

AttackNext ==
    \/ SkipStep \/ RunsUndisturbed \/ EndIteration \/ Assess
    \/ \E scenario \in FailureScenarios, succeeds, recovered, cascades \in BOOLEAN :
          InjectFailure(scenario, succeeds, recovered, cascades)

-----------------------------------------------------------------------------
\* Type invariant.
AttackTypeOK ==
    /\ attacked \in AttackedPlans /\ Len(iterations) <= attacked.iterations
    /\ Len(stepResults) <= Len(AttackSteps) /\ failedSteps \subseteq DOMAIN AttackSteps
    /\ \A i \in Runs : iterations[i].score \in 0 .. 100

Sortable ==
    /\ ~Circular(AttackSteps)
    /\ \A s \in DOMAIN AttackSteps : Range(AttackSteps[s].deps) \subseteq DOMAIN AttackSteps

\* In an iteration no step both completes and counts as failed, each step that ran had its
\* dependencies completed before, and an iteration in which nothing failed left no step out
\* of an acyclic plan without unknown dependencies.
IterationsAreSound ==
    /\ Completed \cap failedSteps = {}
    /\ \A k \in DOMAIN stepResults : stepResults[k][2] # "skipped" =>
          \A d \in Range(AttackSteps[stepResults[k][1]].deps) :
             \E j \in 1 .. k - 1 : stepResults[j] = <<d, "success">>
    /\ \A i \in Runs :
          /\ iterations[i].status = "success" /\ Sortable =>
                \A s \in DOMAIN AttackSteps : <<s, "success">> \in iterations[i].steps
          /\ iterations[i].score = 0 => iterations[i].status = "success"

\* A plan is not recommended in which a destructive step failed once, nor one in which
\* compensations were needed in most iterations; whoever lets a plan proceed without caution
\* has seen hardly anything fail; steps that failed together and only together are correlated;
\* and a plan that is told to recover better is not called tolerant.
RecommendationIsCautious ==
    /\ verdict \notin {"none", "block"} =>
          \A s \in DOMAIN AttackSteps : AttackSteps[s].risk = "destructive" => ~Vulnerable(s)
    /\ verdict \in {"proceed", "proceed_with_caution"} =>
          2 * Cardinality({i \in Runs : iterations[i].compensation}) <= Count
    /\ verdict = "proceed" =>
          /\ \A s \in DOMAIN AttackSteps : ~WideCascade(s)
                /\ Criticality(s) = "critical" => AttackSteps[s].risk = "destructive"
          /\ Recommendations \cap {"reliability", "architecture"} = {}
    /\ verdict # "none" => \A s, t \in DOMAIN AttackSteps :
          FailedIn(s) = FailedIn(t) /\ FailedIn(s) \notin {{}, Runs} => Correlated(s, t)
    /\ "recovery" \in Recommendations => FaultTolerance \notin {"high", "very_high"}

-----------------------------------------------------------------------------
(***************************************************************************)
(* Plans executed on a shadow of the resources (simulation/                *)
(* shadow-executor.ts) and the scenarios that compare a changed plan with  *)
(* the one it was made of (what-if-scenarios.ts).  Whether a step succeeds *)
(* is drawn at random.  An execution waits once in each step, after its    *)
(* mutation; in that time somebody may take its resources back to the      *)
(* snapshot of a step.  Executions share nothing but the map they are      *)
(* found in.                                                               *)
(***************************************************************************)

CONSTANTS
    ShadowResources,
    Scenarios,       \* [base, mods]: a plan, a sequence of [id, resource, risk, sideEffect,
                     \*  compensated, free], and a sequence of [type, target, resource]
    ShadowCalls,     \* calls of the scenario engine
    ShadowConfig,    \* [snapshots, track]
    MaxRollbacks     \* bound

VARIABLES
    shadowCalls,   \* call -> what it has still to execute, and what came of the rest
    execution,     \* call -> activeExecutions: its execution under way
    stored,        \* results: scenario -> the last result
    rollbacks

shadowVars == <<shadowCalls, execution, stored, rollbacks>>

Untouched == "untouched"   \* no step has written to the resource

NoResult == [known |-> FALSE]

\* The start of execute; the code's callers give no initial state.
Started(plan) ==
    [active |-> TRUE, plan |-> plan, state |-> [r \in ShadowResources |-> Untouched],
     snapshots |-> <<>>, trace |-> <<>>, waiting |-> FALSE, last |-> TRUE, rolledBack |-> FALSE]

NoExecution == [Started(<<>>) EXCEPT !.active = FALSE]

ShadowInit ==
    /\ shadowCalls = [c \in ShadowCalls |-> [jobs |-> <<>>, results |-> <<>>, begun |-> FALSE]]
    /\ execution = [c \in ShadowCalls |-> NoExecution]
    /\ stored = [s \in Scenarios |-> NoResult] /\ rollbacks = 0

-----------------------------------------------------------------------------
(* applyModifications.  A step that is told to fail is not: nothing reads  *)
(* the parameter that says so.                                             *)

Modified(plan, mod) ==
    CASE mod.type = "skip_step" -> SelectSeq(plan, LAMBDA s : s.id # mod.target)
      [] mod.type = "modify_parameter" ->
            [k \in DOMAIN plan |->
                IF plan[k].id = mod.target THEN [plan[k] EXCEPT !.resource = mod.resource]
                ELSE plan[k]]
      [] mod.type = "change_order" ->
            SelectSeq(plan, LAMBDA s : s.free) \o SelectSeq(plan, LAMBDA s : ~s.free)
      [] OTHER -> plan

Variant(s) == FoldLeft(Modified, s.base, s.mods)

-----------------------------------------------------------------------------
(* ShadowExecutor                                                          *)

Executed(e) == Len(e.trace)

\* The loop ends at the end of the plan, or when a risky step has failed.
Ended(e) ==
    \/ Executed(e) = Len(e.plan)
    \/ Executed(e) > 0 /\ ~Last(e.trace) /\ e.plan[Executed(e)].risk \in {"high", "destructive"}

\* The snapshot that is taken before a step shows the resources as they are then.
Snapshot(e) == Append(e.snapshots, e.state)

Mutated(e, success) ==
    IF success /\ ShadowConfig.track
    THEN [e.state EXCEPT ![e.plan[Executed(e) + 1].resource] = e.plan[Executed(e) + 1].id]
    ELSE e.state

\* The snapshot and executeStep, up to its wait.
ShadowStep(c, success) ==
    LET e == execution[c] IN
    /\ e.active /\ ~e.waiting /\ ~Ended(e)
    /\ execution' = [execution EXCEPT ![c].waiting = TRUE, ![c].last = success,
          ![c].state = Mutated(e, success),
          ![c].snapshots = IF ShadowConfig.snapshots THEN Snapshot(e) ELSE <<>>]
    /\ UNCHANGED <<shadowCalls, stored, rollbacks>>

ShadowReturn(c) ==
    /\ execution[c].active /\ execution[c].waiting
    /\ execution' = [execution EXCEPT ![c].waiting = FALSE,
                                      ![c].trace = Append(@, execution[c].last)]
    /\ UNCHANGED <<shadowCalls, stored, rollbacks>>

\* rollbackToSnapshot: the execution goes on with what is restored.
Restored(e, k) == e.snapshots[k]

RollbackToSnapshot(c, k) ==
    /\ rollbacks < MaxRollbacks /\ rollbacks' = rollbacks + 1
    /\ execution[c].active /\ execution[c].waiting /\ k \in DOMAIN execution[c].snapshots
    /\ execution' = [execution EXCEPT ![c].state = Restored(execution[c], k),
                                      ![c].rolledBack = TRUE]
    /\ UNCHANGED <<shadowCalls, stored>>

-----------------------------------------------------------------------------
(* What is said of an execution that has ended                             *)

Succeeded(e) == {k \in DOMAIN e.trace : e.trace[k]}

\* Each step that is executed leaves an audit record, which cannot be undone.
IrreversibleEffects(e) ==
    Executed(e) + Cardinality({k \in DOMAIN e.trace : e.plan[k].sideEffect /\ ~e.plan[k].compensated})

Effects(e) == Executed(e) + Cardinality({k \in DOMAIN e.trace : e.plan[k].sideEffect})

Writers(e, r) == {k \in Succeeded(e) : e.plan[k].resource = r}

\* detectResourceConflicts: none is ever critical.
Contended(e, more) ==
    IF ShadowConfig.track
    THEN {r \in ShadowResources : Cardinality(Writers(e, r)) > more}
    ELSE {}

\* calculateConfidenceScore, in thousandths.
Confidence(e) ==
    LET failed == Executed(e) - Cardinality(Succeeded(e))
        score == 1000 - (IF Executed(e) = 0 THEN 0
                         ELSE (500 * failed) \div Executed(e) + (200 * IrreversibleEffects(e)) \div Effects(e))
                      - 100 * Cardinality(Contended(e, 3))
    IN IF score < 0 THEN 0 ELSE score

ResultOf(e) ==
    LET failed == Executed(e) - Cardinality(Succeeded(e)) IN
    [status |-> CASE failed = 0 -> "success" [] failed = Executed(e) -> "failure" [] OTHER -> "partial",
     planned |-> Len(e.plan), executed |-> Executed(e), failed |-> failed,
     mayProceed |-> failed = 0 /\ 10 * IrreversibleEffects(e) <= 3 * Len(e.plan),
     conflicts |-> Cardinality(Contended(e, 1)), confidence |-> Confidence(e),
     resources |-> IF ShadowConfig.track
                   THEN Cardinality({e.plan[k].resource : k \in Succeeded(e)}) ELSE 0]

\* compareResults.  Rates are compared by cross-multiplication; without an executed step
\* they are not numbers, and nothing is more than they are.
RateExceeds(a, b) ==
    /\ a.executed > 0 /\ b.executed > 0
    /\ 10 * ((a.executed - a.failed) * b.executed - (b.executed - b.failed) * a.executed)
          > a.executed * b.executed

BetterChoice(variant, base) ==
    CASE variant.status = "success" /\ base.status # "success" -> "scenario"
      [] base.status = "success" /\ variant.status # "success" -> "baseline"
      [] RateExceeds(variant, base) -> "scenario"
      [] RateExceeds(base, variant) -> "baseline"
      [] OTHER -> "equivalent"

-----------------------------------------------------------------------------
(* WhatIfScenarioEngine                                                    *)

Job(s, plan, kind) == [scenario |-> s, plan |-> plan, kind |-> kind]

\* runScenario, with or without the execution of the plan it was made of.
RunJobs(s, compare) ==
    IF compare THEN <<Job(s, Variant(s), "first"), Job(s, s.base, "baseline")>>
    ELSE <<Job(s, Variant(s), "alone")>>

BeginJobs(c, jobs) ==
    /\ ~shadowCalls[c].begun
    /\ shadowCalls' = [shadowCalls EXCEPT ![c] = [jobs |-> jobs, results |-> <<>>, begun |-> TRUE]]
    /\ execution' = [execution EXCEPT ![c] = Started(Head(jobs).plan)]
    /\ UNCHANGED <<stored, rollbacks>>

RunScenario(c, s, compare) == BeginJobs(c, RunJobs(s, compare))

CompareScenarios(c, s, t) == BeginJobs(c, RunJobs(s, FALSE) \o RunJobs(t, FALSE))

\* What compareScenarios says of two results.
Recommendation(a, b) ==
    CASE a.status = "success" /\ b.status # "success" -> "first"
      [] b.status = "success" /\ a.status # "success" -> "second"
      [] OTHER -> "similar"

\* What is kept of a scenario.
Summary(job, results) ==
    IF job.kind = "baseline"
    THEN [known |-> TRUE, outcome |-> Head(results).status,
          choice |-> BetterChoice(Head(results), Last(results))]
    ELSE [known |-> TRUE, outcome |-> Last(results).status, choice |-> "none"]

\* The rest of execute, and what its caller does with the result.
ShadowFinish(c) ==
    LET e == execution[c]
        jobs == shadowCalls[c].jobs
        results == Append(shadowCalls[c].results, ResultOf(e))
    IN
    /\ e.active /\ ~e.waiting /\ Ended(e)
    /\ shadowCalls' = [shadowCalls EXCEPT ![c].jobs = Tail(jobs), ![c].results = results]
    /\ execution' = [execution EXCEPT ![c] = IF Len(jobs) > 1 THEN Started(jobs[2].plan)
                                             ELSE NoExecution]
    /\ stored' = IF Head(jobs).kind = "first" THEN stored
                 ELSE [stored EXCEPT ![Head(jobs).scenario] = Summary(Head(jobs), results)]
    /\ UNCHANGED rollbacks

ShadowNext ==
    \E c \in ShadowCalls :
        \/ \E s \in Scenarios, compare \in BOOLEAN : RunScenario(c, s, compare)
        \/ \E s, t \in Scenarios : CompareScenarios(c, s, t)
        \/ \E success \in BOOLEAN : ShadowStep(c, success)
        \/ ShadowReturn(c)
        \/ \E k \in DOMAIN execution[c].snapshots : RollbackToSnapshot(c, k)
        \/ ShadowFinish(c)

ShadowSpec == ShadowInit /\ [][ShadowNext]_shadowVars

\* What each wait of a step, a timer, leads to.
Proceeds(c) == (\E success \in BOOLEAN : ShadowStep(c, success)) \/ ShadowReturn(c) \/ ShadowFinish(c)

-----------------------------------------------------------------------------
\* Type invariant.
ShadowTypeOK ==
    /\ \A c \in ShadowCalls : Len(execution[c].trace) <= Len(execution[c].plan)
    /\ \A s \in Scenarios : stored[s].known \in BOOLEAN
    /\ rollbacks \in 0 .. MaxRollbacks

Position(e, id) == CHOOSE k \in DOMAIN e.plan : e.plan[k].id = id

\* A snapshot holds nothing that its own step or a later one has written, whatever was
\* restored in between; and each value of a resource comes from a step that succeeded on it,
\* the last such step unless somebody went back.
ShadowIsExplained ==
    \A c \in ShadowCalls :
        LET e == execution[c]
            Wrote(k) == (k \in Succeeded(e) \/ (e.waiting /\ e.last /\ k = Executed(e) + 1))
            On(r) == {k \in DOMAIN e.plan : Wrote(k) /\ e.plan[k].resource = r}
        IN
        /\ \A k \in DOMAIN e.snapshots, r \in ShadowResources :
              e.snapshots[k][r] # Untouched => Position(e, e.snapshots[k][r]) < k
        /\ \A r \in ShadowResources :
              /\ e.state[r] # Untouched => Position(e, e.state[r]) \in On(r)
              /\ ShadowConfig.track /\ ~e.rolledBack /\ On(r) # {} =>
                    e.state[r] = e.plan[CHOOSE k \in On(r) : \A j \in On(r) : j <= k].id

\* A plan that may proceed was executed to its end, and everything it did can be undone;
\* and what is recommended over something else has not done worse.
ShadowVerdictsAreEarned ==
    \A c \in ShadowCalls :
        LET rs == shadowCalls[c].results IN
        /\ \A i \in DOMAIN rs :
              /\ rs[i].mayProceed => rs[i].executed = rs[i].planned /\ rs[i].status = "success"
                                      /\ rs[i].confidence = 1000
              /\ rs[i].status = "success" => rs[i].executed = rs[i].planned
        /\ Len(rs) = 2 =>
              /\ BetterChoice(rs[1], rs[2]) = "scenario" =>
                    rs[1].failed * rs[2].executed <= rs[2].failed * rs[1].executed
              /\ Recommendation(rs[1], rs[2]) = "first" => rs[1].failed < rs[2].failed

\* Every scenario that is run has its result.
ScenariosEnd == \A c \in ShadowCalls : shadowCalls[c].begun ~> shadowCalls[c].jobs = <<>>
=============================================================================
