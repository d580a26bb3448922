----------------------------- MODULE PlanChecks -----------------------------
(***************************************************************************)
(* What is said of a plan: whether its compensations will do, how risky it *)
(* is, and whether it is the plan that was made.                           *)
(***************************************************************************)
EXTENDS Integers, FiniteSetsExt, SequencesExt, FiniteSets

-----------------------------------------------------------------------------
(***************************************************************************)
(* The two checkers of the compensations of a plan: the verifier of        *)
(* workflow/compensation-verifier.ts and the feasibility validator of      *)
(* planner/compensation-feasibility-validator.ts, with the question that   *)
(* the planner's validatePlan asks of them.  A step is what they tell      *)
(* apart: its risk, whether it has a side effect, whether its action or    *)
(* adapter is of a kind that needs a compensation anyway, and the          *)
(* compensation: what each of the checks finds in its texts.               *)
(***************************************************************************)

CONSTANTS
    PlanSteps,        \* [risk, sideEffect, destructiveKind, comp]
    NoCompensation,
    MaxPlanSteps,     \* bound
    MaxRules          \* bound

(* A compensation: [key, timeout ("short", "fit", "long"), parameters (all that the  *)
(* adapter needs are there), undoes, pair ("known", "mismatch", "unknown" to the      *)
(* semantic pairs), sameIds, permitted, runs (the dry run succeeds), response (its    *)
(* parameters refer to a response)].                                                  *)

VARIABLES
    checkedPlan,
    strict,        \* strict_mode of both
    rules,         \* custom_rules: severities of rules that ask every step for a compensation
    pairsLoaded    \* the validator has been initialized

checkVars == <<checkedPlan, strict, rules, pairsLoaded>>

CheckInit ==
    /\ checkedPlan \in BoundedSeq(PlanSteps, MaxPlanSteps)
    /\ strict \in BOOLEAN /\ rules = <<>> /\ pairsLoaded = FALSE

Has(step) == step.comp # NoCompensation

UpdateConfig ==
    /\ strict' = ~strict /\ UNCHANGED <<checkedPlan, rules, pairsLoaded>>

AddRule ==
    /\ Len(rules) < MaxRules
    /\ \E severity \in {"warning", "error"} : rules' = Append(rules, severity)
    /\ UNCHANGED <<checkedPlan, strict, pairsLoaded>>

LoadPairs ==
    /\ ~pairsLoaded /\ pairsLoaded' = TRUE /\ UNCHANGED <<checkedPlan, strict, rules>>

CheckNext == UpdateConfig \/ AddRule \/ LoadPairs

CheckSpec == CheckInit /\ [][CheckNext]_checkVars

-----------------------------------------------------------------------------
(* The verifier                                                            *)

HighRisk(step) == step.risk \in {"high", "destructive"}

NeedsCompensation(step) == step.sideEffect \/ HighRisk(step) \/ step.destructiveKind

\* getSeverityForMissingCompensation
MissingSeverity(step) ==
    CASE step.risk = "destructive" -> "critical" [] step.risk = "high" -> "error"
      [] OTHER -> "warning"

Issue(about, n, severity) == [about |-> about, n |-> n, severity |-> severity]

CompensationIssues(comp) ==
    {i \in {Issue("missing_idempotency", 0, "error")} : ~comp.key}
        \cup {i \in {Issue("timeout_issue", 0, "warning")} : comp.timeout # "fit"}
        \cup {i \in {Issue("parameter_issue", 0, "warning")} : ~comp.parameters}
        \cup {i \in {Issue("invalid_compensation", 0, "error")} : ~comp.undoes}

\* verifyStep: a rule that asks for a compensation has its own severity.
StepIssues(step) ==
    IF Has(step) THEN CompensationIssues(step.comp)
    ELSE {i \in {Issue("missing_compensation", 0, MissingSeverity(step))} : NeedsCompensation(step)}
             \cup {Issue("rule", n, rules[n]) : n \in DOMAIN rules}

Compensated(plan) == {k \in DOMAIN plan : Has(plan[k])}

\* checkCircularDependencies: an error for each ordered pair of compensations that both
\* refer to a response, whosever it is.
CircularPairs(plan) ==
    {p \in Compensated(plan) \X Compensated(plan) :
        p[1] # p[2] /\ plan[p[1]].comp.response /\ plan[p[2]].comp.response}

IssueFrom(k, j, issue) == [at |-> k, with |-> j, issue |-> issue]

StepsIssues(plan) == UNION {{IssueFrom(k, k, i) : i \in StepIssues(plan[k])} : k \in DOMAIN plan}

CircularIssues(plan) ==
    {IssueFrom(p[1], p[2], Issue("circular_dependency", 0, "error")) : p \in CircularPairs(plan)}

Issues(plan) == StepsIssues(plan) \cup CircularIssues(plan)

IsValid(issues, isStrict) ==
    IF isStrict THEN issues = {}
    ELSE \A f \in issues : f.issue.severity \notin {"critical", "error"}

Gaps(plan) == {k \in DOMAIN plan : NeedsCompensation(plan[k]) /\ ~Has(plan[k])}

\* calculateCoverage: percentages; nothing to cover is covered.
Covered(plan, which) ==
    IF which = {} THEN 100
    ELSE (100 * Cardinality(which \cap Compensated(plan))) \div Cardinality(which)

Coverage(plan) ==
    [effects     |-> Covered(plan, {k \in DOMAIN plan : plan[k].sideEffect}),
     high        |-> Covered(plan, {k \in DOMAIN plan : HighRisk(plan[k])}),
     destructive |-> Covered(plan, {k \in DOMAIN plan : plan[k].risk = "destructive"})]

\* assessRisk: the weighted sum of what is missing, in percent of a percent.
RiskScore(plan) ==
    LET c == Coverage(plan)
        poor == {k \in Compensated(plan) : ~plan[k].comp.undoes \/ ~plan[k].comp.key}
        quality == IF Compensated(plan) = {} THEN 0
                   ELSE (100 * Cardinality(poor)) \div Cardinality(Compensated(plan))
    IN 25 * (100 - c.effects) + 30 * (100 - c.high) + 30 * (100 - c.destructive) + 15 * quality

OverallRisk(plan) ==
    LET c == Coverage(plan) IN
    CASE RiskScore(plan) >= 6000 \/ c.destructive < 100 -> "critical"
      [] RiskScore(plan) >= 4000 \/ c.high < 100        -> "high"
      [] RiskScore(plan) >= 2000                        -> "medium"
      [] OTHER                                          -> "low"

\* calculateScore: gaps and issues are taken off and coverage is added, within 0 and 100.
GapPoints(plan) ==
    LET of(risk) == Cardinality({k \in Gaps(plan) : plan[k].risk = risk}) IN
    20 * of("destructive") + 10 * of("high") + 5 * of("medium") + 2 * of("low")

IssuePoints(issues) ==
    LET of(severity) == Cardinality({f \in issues : f.issue.severity = severity}) IN
    15 * of("critical") + 8 * of("error") + 3 * of("warning")

Bonus(c) ==
    (IF c.effects >= 90 THEN 5 ELSE 0) + (IF c.high >= 100 THEN 5 ELSE 0)
        + (IF c.destructive >= 100 THEN 5 ELSE 0)

Score(plan) ==
    LET raw == 100 - GapPoints(plan) - IssuePoints(Issues(plan)) + Bonus(Coverage(plan)) IN
    Max({0, Min({100, raw})})

-----------------------------------------------------------------------------
(* The feasibility validator                                               *)

\* Mutation: an unknown pair is accepted by the strict validator, and by no other.
SemanticsWithoutPairs(comp) ==
    IF ~pairsLoaded \/ comp.pair = "unknown" THEN strict ELSE comp.pair = "known"

\* verifySemantics: before initialize no verb has a pair.
SemanticsVerified(comp) ==
    IF ~pairsLoaded \/ comp.pair = "unknown" THEN ~strict ELSE comp.pair = "known"

\* validateStepCompensation: what goes wrong first.  The dry run is a wait of its own, but
\* reads the step alone.
Failure(step) ==
    CASE ~Has(step) /\ step.sideEffect                 -> "NO_COMPENSATION_DEFINED"
      [] ~Has(step) /\ ~step.sideEffect                -> "none"
      [] Has(step) /\ strict /\ ~SemanticsVerified(step.comp) -> "SEMANTIC_MISMATCH"
      [] Has(step) /\ strict /\ SemanticsVerified(step.comp) /\ ~step.comp.sameIds
                                                       -> "PARAMETER_MISMATCH"
      [] OTHER -> IF ~step.comp.permitted THEN "PERMISSION_DENIED"
                  ELSE IF ~step.comp.runs THEN "SANDBOX_EXECUTION_FAILED" ELSE "none"

AllFeasible(plan) == \A k \in DOMAIN plan : Failure(plan[k]) = "none"

\* What validatePlan asks.
EffectsHaveCompensation(plan) == \A k \in DOMAIN plan : plan[k].sideEffect => Has(plan[k])

-----------------------------------------------------------------------------
\* Type invariant.
CheckTypeOK ==
    /\ checkedPlan \in Seq(PlanSteps) /\ {strict, pairsLoaded} \subseteq BOOLEAN
    /\ rules \in Seq({"warning", "error"})

\* The checkers never contradict each other where they ask the same: a plan that the
\* verifier passes has every high-risk step compensated by something that undoes it and
\* can be repeated; one that it passes strictly satisfies validatePlan, and so does one
\* that the validator finds feasible; what is called a low risk has no gap that calls for
\* more; and no gap stays hidden behind full coverage.
CheckersAgree ==
    LET plan == checkedPlan  issues == Issues(plan) IN
    /\ IsValid(issues, strict) =>
          \A k \in DOMAIN plan :
             /\ HighRisk(plan[k]) => Has(plan[k])
             /\ Has(plan[k]) => plan[k].comp.undoes /\ plan[k].comp.key
    /\ IsValid(issues, TRUE) => Gaps(plan) = {} /\ EffectsHaveCompensation(plan)
    /\ IsValid(issues, TRUE) => IsValid(issues, FALSE)
    /\ AllFeasible(plan) => EffectsHaveCompensation(plan)
    /\ OverallRisk(plan) = "low" => \A k \in Gaps(plan) : ~HighRisk(plan[k])
    /\ Gaps(plan) = {} => Coverage(plan) = [effects |-> 100, high |-> 100, destructive |-> 100]
    /\ Score(plan) \in 0 .. 100
    /\ (IsValid(issues, TRUE) /\ plan # <<>>) => Score(plan) = 100 /\ RiskScore(plan) = 0

\* Strictness only takes away: a step that is feasible strictly is feasible.  Before its
\* pairs are loaded a strict validator passes no compensation at all.
StrictnessTakesAway ==
    [][UpdateConfig /\ strict =>
         \A k \in DOMAIN checkedPlan :
            /\ Failure(checkedPlan[k]) = "none" => Failure(checkedPlan[k])' = "none"
            /\ ~pairsLoaded /\ Has(checkedPlan[k]) => Failure(checkedPlan[k]) # "none"]_checkVars

\* What the checkers say of a plan is consistent, between them and from one configuration to
\* the next.
CompensationsAreChecked == []CheckersAgree /\ StrictnessTakesAway

-----------------------------------------------------------------------------
(***************************************************************************)
(* The dynamic risk scorer (simulation/dynamic-risk-scorer.ts): ten        *)
(* weighted factors and some adjustments give a score, thresholds give its *)
(* level, and each scoring is itself put on record as an action, which the *)
(* next ones look at.  What is scored is an intent, a plan or a step, with *)
(* what the factors read of it.  Weights are percents, so a score is       *)
(* counted in hundredths of a point, fractions dropped.                    *)
(***************************************************************************)

CONSTANTS
    ScorerUsers, Roles, Times,
    Scored,          \* [kind, action, verb, sensitivity, count, risk, effects, compensated,
                     \*  depth, destructive, caps, approval]
    MaxHistory,      \* max_history_entries
    HistoryWindow,   \* history_window_ms
    Recent,          \* the last actions that the trend compares to the older ones (5)
    TrustAfter,      \* actions without failure before a user is trusted (10)
    DoubtAfter,      \* actions before failures count against a user (5)
    RapidAfter,      \* risky actions before the next is held against the user (3)
    MaxScorings, MaxScorerTime   \* bounds

ASSUME ScorerAssumption ==
    /\ {MaxHistory, Recent} \subseteq Nat \ {0}
    /\ {HistoryWindow, TrustAfter, DoubtAfter, RapidAfter, MaxScorings, MaxScorerTime}
          \subseteq Nat
    /\ Times \subseteq Nat
    /\ Scored \subseteq
          [kind : {"intent", "plan", "step"}, action : {e.action : e \in Scored},
           verb : 0 .. 100, sensitivity : 0 .. 100, count : Nat, effects : Nat, compensated : Nat,
           depth : Nat, destructive : Nat, risk : {"low", "medium", "high", "destructive"},
           caps : SUBSET (0 .. 100), approval : BOOLEAN]

VARIABLES
    history,       \* actionHistory: [user, action, level, at, success]
    adaptive,      \* adaptive_thresholds
    scorings, scorerClock

scorerVars == <<history, adaptive, scorings, scorerClock>>

ScorerInit ==
    /\ history = <<>> /\ adaptive = TRUE /\ scorings = 0 /\ scorerClock = 0

AtMost(bound, n) == IF n < bound THEN n ELSE bound

AtLeast(bound, n) == IF n > bound THEN n ELSE bound

-----------------------------------------------------------------------------
(* analyzeHistory                                                          *)

\* The actions of one user, in their order.
Of(h, user) ==
    LET theirs[n \in 0 .. Len(h)] ==
            IF n = 0 THEN <<>>
            ELSE IF h[n].user = user THEN Append(theirs[n - 1], h[n])
            ELSE theirs[n - 1]
    IN theirs[Len(h)]

Successes(as) == Cardinality({k \in DOMAIN as : as[k].success})

LevelScore == [low |-> 25, medium |-> 50, high |-> 75, destructive |-> 100]

Levels(as) == [k \in DOMAIN as |-> as[k].level]

Total(levels) == FoldLeft(LAMBDA sum, level : sum + LevelScore[level], 0, levels)

\* The average of some levels, 0 where there are none, is more than ten points above that of others.
FarAbove(some, others) ==
    LET m == AtLeast(1, Len(some))
        n == AtLeast(1, Len(others))
    IN n * Total(some) > m * Total(others) + 10 * m * n

\* While there are no older actions, any recent ones are an increase.
TrendPoints(levels) ==
    LET cut    == AtLeast(0, Len(levels) - Recent)
        recent == SubSeq(levels, cut + 1, Len(levels))
        older  == SubSeq(levels, 1, cut)
    IN CASE FarAbove(recent, older) -> 20 [] FarAbove(older, recent) -> -10 [] OTHER -> 0

\* The last action is more than two standard deviations off the average.  (It adds 60 at
\* least to the factor, which has its limit at 100: how much more is not looked at.)
Anomalous(levels) ==
    levels # <<>> /\
    LET n == Len(levels)
        Off(level) == n * LevelScore[level] - Total(levels)
        squares == FoldLeft(LAMBDA sum, level : sum + Off(level) * Off(level), 0, levels)
    IN squares > 0 /\ n * Off(Last(levels)) * Off(Last(levels)) > 4 * squares

-----------------------------------------------------------------------------
(* The factors: raw values                                                 *)

\* A plan is at least of medium risk; the verbs of its steps may be unknown.
ActionRisk(e) == IF e.kind = "plan" THEN AtLeast(50, e.verb) ELSE e.verb

DataRisk(e) == IF e.kind = "plan" THEN 30 ELSE e.sensitivity

CountRisk(e) ==
    IF e.kind = "step" \/ e.count <= 1 THEN 10
    ELSE IF e.count <= 5 THEN 20 ELSE IF e.count <= 10 THEN 40
    ELSE IF e.count <= 50 THEN 60 ELSE IF e.count <= 100 THEN 80 ELSE 100

RiskOf(e, low, medium, high, destructive) ==
    CASE e.risk = "destructive" -> destructive [] e.risk = "high" -> high
      [] e.risk = "medium" -> medium [] OTHER -> low

BlastRisk(e) ==
    CASE e.kind = "plan"   -> AtMost(100, 10 * e.depth + 20 * e.destructive
                                              + (50 * e.effects) \div e.count)
      [] e.kind = "step"   -> RiskOf(e, 20, 40, 70, 90)
      [] e.kind = "intent" -> RiskOf(e, 15, 35, 65, 85)

\* Of a plan: compensations that belong to no side effect count as well.
Irreversible(e) ==
    IF e.effects = 0 THEN IF e.kind = "intent" THEN 20 ELSE 10
    ELSE IF e.kind = "intent" THEN 60
    ELSE IF e.kind = "plan" THEN 100 - (80 * e.compensated) \div e.effects
    ELSE IF e.compensated > 0 THEN 30
    ELSE IF e.risk = "destructive" THEN 95 ELSE 70

Trust(user, roles, h) ==
    LET as == Of(h, user)
        base == IF roles \cap {"system", "admin"} # {} THEN 20
                ELSE IF roles \cap {"operator", "developer"} # {} THEN 40
                ELSE IF "user" \in roles THEN 60
                ELSE IF roles = {} \/ "guest" \in roles THEN 80 ELSE 50
    IN CASE 100 * Successes(as) > 95 * Len(as) /\ Len(as) > TrustAfter -> AtLeast(10, base - 20)
         [] 100 * Successes(as) < 70 * Len(as) /\ Len(as) > DoubtAfter -> AtMost(100, base + 20)
         [] OTHER -> base

EnvironmentRisk == [development |-> 20, staging |-> 50, production |-> 90]

HistoryRisk(as) ==
    IF as = <<>> THEN 60
    ELSE AtMost(100, 30 + TrendPoints(Levels(as)) + (IF Anomalous(Levels(as)) THEN 60 ELSE 0)
                        + (30 * (Len(as) - Successes(as))) \div Len(as))

CapabilityRisk(e) == IF e.caps = {} THEN 30 ELSE Max(e.caps)

-----------------------------------------------------------------------------
(* calculateScore                                                          *)

HasDestructive(e) == IF e.kind = "plan" THEN e.destructive > 0 ELSE e.risk = "destructive"

\* previous_actions, as places among the user's: who scores a plan or a step without a name
\* has none.
Previous(e, user, as) ==
    {k \in DOMAIN as : (user # "unknown" \/ e.kind = "intent") /\ as[k].at > scorerClock - HistoryWindow}

Risky(as, which) == {k \in which : as[k].level \in {"high", "destructive"}}

\* calculateBuiltInAdjustments, in points.
Adjustments(e, call, h) ==
    LET as == Of(h, call.user)
        previous == Previous(e, call.user, as)
    IN (IF previous = {} THEN -5 ELSE 0)
        + (IF Cardinality(Risky(as, previous)) >= RapidAfter THEN 15 ELSE 0)
        + (IF call.environment = "production" /\ HasDestructive(e) THEN 20 ELSE 0)
        + (IF e.kind = "intent" /\ e.risk = "high" /\ ~e.approval THEN 10 ELSE 0)

\* A call: by whom, with which roles, in which environment, at what time of the week
\* (30 to 100).
RawScore(e, call, h) ==
    20 * ActionRisk(e) + 15 * DataRisk(e) + 10 * CountRisk(e) + 15 * BlastRisk(e)
        + 10 * Irreversible(e) + 10 * Trust(call.user, call.roles, h)
        + 10 * EnvironmentRisk[call.environment] + 5 * call.time
        + 5 * HistoryRisk(Of(h, call.user)) + 5 * CapabilityRisk(e)

ScoreOf(e, call, h) ==
    AtLeast(0, AtMost(10000,
        RawScore(e, call, h) + 100 * Adjustments(e, call, h)))

\* getAdaptiveThresholds: in percent of the configured threshold.
Stretch(environment, top) ==
    CASE environment = "production" -> 80 [] environment = "development" /\ ~top -> 120
      [] environment = "development" /\ top -> 110 [] OTHER -> 100

Threshold(points, call, top) ==
    IF ~adaptive THEN 100 * points
    ELSE (points * Stretch(call.environment, top)
             * (IF top \/ call.roles \cap {"admin", "operator"} # {} THEN 100 ELSE 90)) \div 100

Level(e, call, h) ==
    LET Within(points, top) == ScoreOf(e, call, h) <= Threshold(points, call, top)
    IN IF e.kind = "plan" /\ e.count = 0 THEN "destructive"
       ELSE IF Within(25, FALSE) THEN "low"
       ELSE IF Within(50, FALSE) THEN "medium"
       ELSE IF Within(75, TRUE) THEN "high" ELSE "destructive"

-----------------------------------------------------------------------------
(* Operations                                                              *)

\* The oldest go when there are too many, whosever they are.
Trim(h) == SubSeq(h, AtLeast(0, Len(h) - MaxHistory) + 1, Len(h))

\* scoreIntent, scorePlan, scoreStep: recordAction is part of the scoring.
ScoreIt(e, call) ==
    /\ scorings < MaxScorings /\ scorings' = scorings + 1
    /\ history' = Trim(Append(history,
          [user |-> call.user, action |-> IF e.kind = "plan" THEN "unknown" ELSE e.action,
           level |-> Level(e, call, history), at |-> scorerClock, success |-> TRUE]))
    /\ UNCHANGED <<adaptive, scorerClock>>

\* updateActionOutcome: the last that fits, though the outcome may be of an earlier one.
ReportOutcome(user, action, success) ==
    LET fits == {k \in DOMAIN history : history[k].user = user /\ history[k].action = action} IN
    /\ fits # {}
    /\ history' = [history EXCEPT ![Max(fits)].success = success]
    /\ UNCHANGED <<adaptive, scorings, scorerClock>>

ClearHistory == history' = <<>> /\ UNCHANGED <<adaptive, scorings, scorerClock>>

SetAdaptive == adaptive' = ~adaptive /\ UNCHANGED <<history, scorings, scorerClock>>

ScorerTick ==
    /\ scorerClock < MaxScorerTime /\ scorerClock' = scorerClock + 1
    /\ UNCHANGED <<history, adaptive, scorings>>

ScoringCalls ==
    [user : ScorerUsers, roles : Roles, environment : {"development", "production"},
     time : Times]

ScorerNext ==
    \/ \E e \in Scored, call \in ScoringCalls : ScoreIt(e, call)
    \/ \E k \in DOMAIN history, success \in BOOLEAN :
          ReportOutcome(history[k].user, history[k].action, success)
    \/ ClearHistory \/ SetAdaptive \/ ScorerTick

ScorerSpec == ScorerInit /\ [][ScorerNext]_scorerVars

-----------------------------------------------------------------------------
\* Type invariant.
ScorerTypeOK ==
    /\ \A k \in DOMAIN history : history[k].user \in ScorerUsers
                                /\ history[k].level \in DOMAIN LevelScore
    /\ Len(history) <= MaxHistory
    /\ adaptive \in BOOLEAN /\ scorings \in 0 .. MaxScorings /\ scorerClock \in 0 .. MaxScorerTime

Rank == [low |-> 1, medium |-> 2, high |-> 3, destructive |-> 4]

In(call, environment) == [call EXCEPT !.environment = environment]

\* All but plans of nothing, which are destructive as such.
Somethings == {e \in Scored : e.kind = "plan" => e.count > 0}

\* Whatever is on record, the same thing is never of a lower level in production than in
\* staging, nor there than in development; and in production what is destructive never
\* scores below the same thing of less risk.
ProductionIsStricter ==
    \A e \in Somethings,
       call \in {c \in ScoringCalls : c.environment = "production"} :
        LET R(environment) == Rank[Level(e, In(call, environment), history)] IN
        /\ R("development") <= R("staging") /\ R("staging") <= R("production")
        /\ e.kind # "plan" =>
              ScoreOf(e, call, history)
                  <= ScoreOf([e EXCEPT !.risk = "destructive"], call, history)

\* A failure on record never makes a later score lower than a success in its place, and
\* what others have on record changes nothing.
FailuresNeverHelp ==
    \A k \in DOMAIN history, e \in Somethings,
       call \in {c \in ScoringCalls : c.environment = "production"} :
        /\ ScoreOf(e, call, [history EXCEPT ![k].success = TRUE])
               <= ScoreOf(e, call, [history EXCEPT ![k].success = FALSE])
        /\ history[k].user # call.user =>
              ScoreOf(e, call, history) = ScoreOf(e, call, RemoveAt(history, k))

\* Both, once anything was scored.
ScoresAreFair == scorings > 0 => ProductionIsStricter /\ FailuresNeverHelp

\* What checks a plan before it runs: compensations and risk.
ChecksHold ==
    CompensationsAreChecked /\ [](CheckTypeOK /\ ScorerTypeOK /\ ScoresAreFair)

-----------------------------------------------------------------------------
(***************************************************************************)
(* The plans that are kept, their versions and their checksums             *)
(* (planner/index.ts, over core/crypto.ts).  A document is its leaves: a   *)
(* function from paths to values, all of them strings; the digest of a     *)
(* document stands for the text that is hashed.  Steps are numbered, and   *)
(* what a step depends on is the numbers of others.                        *)
(***************************************************************************)

CONSTANTS
    LlmSteps,      \* what a model answers: sequences of steps
                   \* [action, risk, sideEffect, compensated, deps]; deps, a sequence of numbers
    GivenSteps,    \* sequences of steps that a new version may be given
    MaxVersions    \* bound on the plans

VARIABLE plans     \* the table: [version, steps, riskLevel, approvalRequired, checksum, first];
                   \* first, the plan that it is a version of, is history

planVars == <<plans>>

RiskOrder == <<"low", "medium", "high", "destructive">>
MaxRisk(steps) ==
    RiskOrder[Max({k \in DOMAIN RiskOrder : \E i \in DOMAIN steps : steps[i].risk = RiskOrder[k]}
                  \cup {1})]

-----------------------------------------------------------------------------
(* Digests                                                                 *)

Indices == {ToString(k) : k \in 0 .. 9}

\* Object.keys of an object, or of an array, whose keys are its indices.
TopKeys(document) == {Head(path) : path \in DOMAIN document}

\* JSON.stringify with a list of keys leaves out every other key of every object in the
\* document, at any depth; elements of arrays stay.
ShownDepth(path, keys) ==
    Max({n \in 0 .. Len(path) : \A k \in 1 .. n : path[k] \in keys \cup Indices})

Container == "{}"

HashObject(document) ==
    UNION {{<<SubSeq(path, 1, n), IF n = Len(path) THEN document[path] ELSE Container>> :
               n \in 1 .. ShownDepth(path, TopKeys(document))} : path \in DOMAIN document}

StepFields == {"action", "riskLevel", "sideEffect"}

\* The steps as a document.
StepsDocument(steps) ==
    LET step(k) == ToString(k - 1)
        paths == {<<step(k), f>> : k \in DOMAIN steps, f \in StepFields}
                     \cup UNION {{<<step(k), "dependencies", ToString(i - 1)>> :
                                    i \in DOMAIN steps[k].deps} : k \in DOMAIN steps}
        At(k) == CHOOSE i \in DOMAIN steps : step(i) = k
    IN [p \in paths |->
          LET s == steps[At(p[1])] IN
          CASE p[2] = "action" -> s.action
            [] p[2] = "riskLevel" -> s.risk
            [] p[2] = "sideEffect" -> ToString(s.sideEffect)
            [] OTHER -> ToString(s.deps[CHOOSE i \in DOMAIN s.deps : ToString(i - 1) = p[3]])]

\* computePlanChecksum: what it hashes besides the steps has no keys below the first.
Checksum(id, version, steps) == <<id, version, HashObject(StepsDocument(steps))>>

-----------------------------------------------------------------------------
(* Plans                                                                   *)

PlanVersionsInit == plans = <<>>

Persisted(plan) == plans' = Append(plans, plan)

\* Mutation: a step may depend on itself as well.
ResolvedWithItself(steps) ==
    [k \in DOMAIN steps |->
        [steps[k] EXCEPT !.deps = SelectSeq(@, LAMBDA d : d \in 1 .. k)]]

\* A step may depend on those before it only.
Resolved(steps) ==
    [k \in DOMAIN steps |->
        [steps[k] EXCEPT !.deps = SelectSeq(@, LAMBDA d : d \in 1 .. k - 1)]]

\* The intent, or how far the steps are from it, may ask for an approval.
GenerateAndPersist(answer, asks) ==
    LET id == Len(plans) + 1
        steps == Resolved(answer)
    IN
    /\ id <= MaxVersions
    /\ Persisted([version |-> 1, steps |-> steps, riskLevel |-> MaxRisk(steps),
                  approvalRequired |-> MaxRisk(steps) # "low" \/ asks,
                  checksum |-> Checksum(id, 1, steps), first |-> id])

\* Another plan, with steps as they are given, or those of its base.
CreatePlanVersion(base, steps) ==
    LET id == Len(plans) + 1
        version == plans[base].version + 1
    IN
    /\ id <= MaxVersions
    /\ Persisted([plans[base] EXCEPT !.version = version, !.steps = steps,
                                     !.checksum = Checksum(id, version, steps)])

PlanVersionsNext ==
    \/ \E answer \in LlmSteps, asks \in BOOLEAN : GenerateAndPersist(answer, asks)
    \/ \E base \in DOMAIN plans :
          \E steps \in GivenSteps \cup {plans[base].steps} : CreatePlanVersion(base, steps)

\* hasCircularDependencies: depth first; a step on the way down that is met again.
Descend(steps, from, seen) ==
    LET named == DOMAIN steps \cup UNION {Range(steps[k].deps) : k \in DOMAIN steps}
        below[p \in named \X (SUBSET named) \X (SUBSET named)] ==
            LET k == p[1]  visited == p[2]  stack == p[3] IN
            IF k \notin DOMAIN steps THEN [visited |-> visited \cup {k}, circular |-> FALSE]
            ELSE FoldLeft(
                    LAMBDA r, d :
                        IF r.circular THEN r
                        ELSE IF d \notin r.visited THEN below[<<d, r.visited, stack \cup {k}>>]
                        ELSE [r EXCEPT !.circular = d \in stack \cup {k}],
                    [visited |-> visited \cup {k}, circular |-> FALSE], steps[k].deps)
    IN below[<<from, seen, {}>>]

HasCircularDependencies(steps) ==
    FoldLeft(LAMBDA r, k : IF r.circular \/ k \in r.visited THEN r
                           ELSE Descend(steps, k, r.visited),
             [visited |-> {}, circular |-> FALSE], [k \in DOMAIN steps |-> k]).circular

\* validatePlan, of a plan with these steps.
ValidationErrors(id, plan, steps) ==
    {e \in {"checksum"} : plan.checksum # Checksum(id, plan.version, steps)}
    \cup {e \in {"dependency"} :
            \E k \in DOMAIN steps : ~(Range(steps[k].deps) \subseteq DOMAIN steps)}
    \cup {e \in {"circular"} : HasCircularDependencies(steps)}
    \cup {e \in {"compensation"} :
            \E k \in DOMAIN steps : steps[k].sideEffect /\ ~steps[k].compensated}

-----------------------------------------------------------------------------
PlanVersionsTypeOK ==
    /\ Len(plans) <= MaxVersions
    /\ \A id \in DOMAIN plans :
          plans[id].first \in 1 .. id /\ plans[id].riskLevel \in Range(RiskOrder)

AllSteps == LlmSteps \cup GivenSteps \cup {plans[id].steps : id \in DOMAIN plans}

\* A plan that is kept passes its own checksum, and no other plan's; and steps put in the
\* place of its own are noticed at least when they are more or fewer.
ChecksumsAreTheirOwn ==
    \A id \in DOMAIN plans :
        /\ "checksum" \notin ValidationErrors(id, plans[id], plans[id].steps)
        /\ \A steps \in AllSteps :
              Len(steps) # Len(plans[id].steps) =>
                  "checksum" \in ValidationErrors(id, plans[id], steps)
        /\ \A other \in DOMAIN plans \ {id} : plans[id].checksum # plans[other].checksum

\* A circle of dependencies: a set of steps each of which depends on one of them.
CirclesAreFound ==
    \A steps \in AllSteps :
        HasCircularDependencies(steps) <=>
            \E loop \in SUBSET DOMAIN steps :
                loop # {} /\ \A k \in loop : Range(steps[k].deps) \cap loop # {}

\* What the planner makes itself has its dependencies in order, and its risk and its need of
\* an approval are those of its steps; so are those of every version, through any number of
\* versions between, that has the steps of the plan that it goes back to.
VerdictsAreOfTheSteps ==
    \A id \in DOMAIN plans :
        LET plan == plans[id] IN
        /\ plan.version = 1 => {"circular", "dependency"} \cap ValidationErrors(id, plan, plan.steps) = {}
        /\ plans[plan.first].version = 1
        /\ plan.steps = plans[plan.first].steps =>
              plan.riskLevel = MaxRisk(plan.steps)
                  /\ (plan.riskLevel # "low" => plan.approvalRequired)
=============================================================================
