----------------------------- MODULE MCAnalysis -----------------------------
(***************************************************************************)
(* What is decided about a plan, for TLC: the order of its steps, the      *)
(* graph of its resources, its blast radius, the checks of its             *)
(* compensations, the score of its risk, its simulations, and the versions *)
(* of it that are kept; and who is trusted with what (Trust).  They share  *)
(* no variable; a run looks at one at a time, the one that `part' names.   *)
(***************************************************************************)
EXTENDS TopologicalSort, ResourceGraphs, PlanChecks, Simulations, Trust

analysisVars == <<trustVars, vars, graphVars, blastVars, checkVars, scorerVars,
                  shadowVars, simulationVars, attackVars, planVars>>

AnalysisInit ==
    /\ part \in {"sort", "graph", "blast", "checks", "score", "shadow", "simulation", "attack",
                 "plans"} \cup TrustParts
    /\ part = "sort" \/ deps = [s \in Steps |-> {}]
    /\ part = "graph" \/ graphPlan = [s \in GraphSteps |-> [resource |-> "r1", deps |-> {}]]
    /\ part = "checks" \/ (checkedPlan = <<>> /\ strict = TRUE)
    /\ part = "attack" \/ attacked = (CHOOSE p \in AttackedPlans : TRUE)
    /\ ShadowInit /\ SimulationInit /\ AttackInit /\ PlanVersionsInit
    /\ BlastInit /\ CheckInit /\ ScorerInit /\ Init /\ GraphInit
    /\ TrustInit

AnalysisNext ==
    /\ TrustNext
    /\ IF part = "sort"   THEN Next      ELSE UNCHANGED vars
    /\ IF part = "graph"  THEN GraphNext ELSE UNCHANGED graphVars
    /\ IF part = "blast"  THEN BlastNext ELSE UNCHANGED blastVars
    /\ IF part = "checks" THEN CheckNext ELSE UNCHANGED checkVars
    /\ IF part = "score"  THEN ScorerNext ELSE UNCHANGED scorerVars
    /\ IF part = "shadow" THEN ShadowNext ELSE UNCHANGED shadowVars
    /\ IF part = "simulation" THEN SimulationNext ELSE UNCHANGED simulationVars
    /\ IF part = "attack" THEN AttackNext ELSE UNCHANGED attackVars
    /\ IF part = "plans" THEN PlanVersionsNext ELSE UNCHANGED planVars

\* The sort is a synchronous call, and the shadow execution waits for timers only.
AnalysisSpec ==
    /\ AnalysisInit /\ [][AnalysisNext]_analysisVars
    /\ WF_vars(part = "sort" /\ Next)
    /\ \A c \in ShadowCalls : WF_shadowVars(part = "shadow" /\ Proceeds(c))

\* A plan in which each asset depends on the next ones, and one that is known with its
\* environment in front only.
AssetOf(next, users, sensitivity, criticality) ==
    [deps |-> next, users |-> users, sensitivity |-> sensitivity, criticality |-> criticality]

AssetPrefix == [i \in Assets |-> IF i = "b" THEN "a" ELSE i]

KnownAssets == [i \in {"a"} |-> AssetOf(<<"b", "c">>, 20, 2, 3)]

AssetMetadata ==
    {AssetOf(<<>>, 0, 0, 1), AssetOf(<<"c">>, 2, 1, 2), AssetOf(<<"a", "d">>, 11, 3, 0), AssetOf(<<"b">>, 200, 0, 3)}

UnknownAsset == AssetOf(<<>>, 0, 1, 2)

StepWeights == <<1, 4, 3>>

\* A compensation that every check accepts, and others with one thing wrong with them.
Sound ==
    [key |-> TRUE, timeout |-> "fit", parameters |-> TRUE, undoes |-> TRUE, pair |-> "known",
     sameIds |-> TRUE, permitted |-> TRUE, runs |-> TRUE, response |-> FALSE]

Compensations ==
    {NoCompensation, Sound, [Sound EXCEPT !.response = TRUE], [Sound EXCEPT !.undoes = FALSE],
     [Sound EXCEPT !.key = FALSE, !.timeout = "short"],
     [Sound EXCEPT !.pair = "mismatch", !.parameters = FALSE], [Sound EXCEPT !.pair = "unknown"],
     [Sound EXCEPT !.permitted = FALSE, !.sameIds = FALSE]}

CheckedSteps ==
    [risk : {"low", "medium", "high", "destructive"}, sideEffect : BOOLEAN,
     destructiveKind : {FALSE}, comp : Compensations]
        \cup [risk : {"low"}, sideEffect : {FALSE}, destructiveKind : {TRUE}, comp : Compensations]

\* An intent, the step it becomes, the plan of it, and a plan of nothing.
RiskyIntent ==
    [kind |-> "intent", action |-> "delete", verb |-> 70, sensitivity |-> 60, count |-> 3,
     risk |-> "high", effects |-> 1, compensated |-> 0, depth |-> 0, destructive |-> 0,
     caps |-> {70}, approval |-> FALSE]

ScoredThings ==
    {RiskyIntent, [RiskyIntent EXCEPT !.kind = "step", !.risk = "medium", !.compensated = 1],
     [RiskyIntent EXCEPT !.kind = "plan", !.depth = 2, !.destructive = 1, !.effects = 2,
                         !.compensated = 3],
     [RiskyIntent EXCEPT !.kind = "plan", !.count = 0, !.effects = 0]}

RoleSets == {{}, {"admin"}}

\* A step on resource x of the shadow, and what is done to a plan of three.
ShadowStepOf(id, resource, risk, sideEffect, compensated, free) ==
    [id |-> id, resource |-> resource, risk |-> risk, sideEffect |-> sideEffect,
     compensated |-> compensated, free |-> free]

ShadowPlan ==
    <<ShadowStepOf("s1", "x", "low", TRUE, TRUE, FALSE),
      ShadowStepOf("s2", "y", "high", TRUE, FALSE, TRUE),
      ShadowStepOf("s3", "x", "low", FALSE, FALSE, TRUE)>>

Change(type, target) == [type |-> type, target |-> target, resource |-> "x"]

ChangedPlans ==
    {[base |-> ShadowPlan, mods |-> mods] :
        mods \in {<<Change("skip_step", "s1")>>,
                  <<Change("change_order", "plan"), Change("modify_parameter", "s2")>>,
                  <<Change("skip_step", "s1"), Change("skip_step", "s2"),
                    Change("skip_step", "s3")>>}}

ShadowSettings == [snapshots |-> TRUE, track |-> TRUE]

\* Plans to simulate: of nothing, of one step, with a dependency, a circle, a dependency
\* on nothing, and with what asks for a review.
PlainStep(ds) ==
    [deps |-> ds, risk |-> "low", sideEffect |-> FALSE, compensated |-> FALSE,
     external |-> FALSE, mocked |-> TRUE, costly |-> FALSE, retries |-> TRUE]

Destroys(ds) ==
    [PlainStep(ds) EXCEPT !.risk = "destructive", !.sideEffect = TRUE, !.compensated = TRUE]

Careless(ds) ==
    [PlainStep(ds) EXCEPT !.risk = "high", !.sideEffect = TRUE, !.external = TRUE,
                            !.costly = TRUE, !.retries = FALSE]

Undoable(ds) ==
    [PlainStep(ds) EXCEPT !.sideEffect = TRUE, !.compensated = TRUE, !.retries = FALSE]

PlansToSimulate ==
    [steps : {<<>>, <<PlainStep(<<>>)>>, <<PlainStep(<<2>>), PlainStep(<<>>)>>,
              <<PlainStep(<<2>>), PlainStep(<<1>>)>>, <<Destroys(<<>>), Careless(<<1>>)>>,
              <<PlainStep(<<0>>), PlainStep(<<1>>)>>,
              <<PlainStep(<<3>>), PlainStep(<<>>), Undoable(<<2>>)>>},
     cost : {0, 1001}]

SmallPlan == [steps |-> <<PlainStep(<<>>), Destroys(<<>>)>>, iterations |-> 2]

PlansToAttack ==
    {SmallPlan, [steps |-> <<PlainStep(<<2>>), Destroys(<<>>)>>, iterations |-> 2],
     [steps |-> <<PlainStep(<<>>), Careless(<<>>), Undoable(<<>>), PlainStep(<<4>>)>>,
      iterations |-> 1],
     [steps |-> <<PlainStep(<<>>), PlainStep(<<>>), PlainStep(<<1>>), Destroys(<<>>)>>,
      iterations |-> 1]}

InjectedKinds ==
    {[critical |-> FALSE, recoverable |-> TRUE], [critical |-> TRUE, recoverable |-> FALSE]}

\* Answers with dependencies out of order, and versions with circles and with loose ends.
MadeStep(action, risk, sideEffect, compensated, next) ==
    [action |-> action, risk |-> risk, sideEffect |-> sideEffect, compensated |-> compensated,
     deps |-> next]

MadeSafe(action, next) == MadeStep(action, "low", FALSE, FALSE, next)

AnsweredSteps ==
    {<<MadeSafe("x", <<>>)>>,
     <<MadeStep("x", "high", TRUE, FALSE, <<2>>), MadeSafe("y", <<1, 2, 3>>)>>,
     <<MadeSafe("x", <<>>), MadeStep("y", "medium", TRUE, TRUE, <<1>>), MadeSafe("x", <<1, 2>>)>>}

VersionSteps ==
    {<<>>, <<MadeStep("z", "destructive", TRUE, FALSE, <<1>>)>>,
     <<MadeSafe("x", <<2>>), MadeSafe("y", <<3>>), MadeSafe("z", <<2>>)>>,
     <<MadeSafe("x", <<2, 3>>), MadeSafe("y", <<3>>), MadeSafe("z", <<4>>)>>}

\* A token that a may pass on twice, one that b may pass on once, and one without limit.
TokenRequest(issuer, subject, flow, limit, seconds) ==
    [issuer |-> issuer, subject |-> subject, flow |-> flow, limit |-> limit, seconds |-> seconds]

TokenRequests ==
    {TokenRequest("a", "b", "f", 2, 1), TokenRequest("b", "c", "g", 1, 2),
     TokenRequest("c", "a", "g", 0, 1)}

\* The four default rules, and two that somebody adds.
AccessRule(id, priority, decision) ==
    [id |-> id, priority |-> priority, decision |-> decision, enabled |-> TRUE, scope |-> <<>>,
     environments |-> {"production", "test"}, maxRisk |-> 100, maxBlast |-> 100,
     hoursOnly |-> FALSE, sensitivities |-> 1 .. 4]

FourDefaultRules ==
    <<[AccessRule("deny-high-risk-prod", 100, "deny") EXCEPT
          !.environments = {"production"}, !.maxRisk = 70],
      [AccessRule("approval-restricted", 200, "require_approval") EXCEPT !.sensitivities = {4}],
      [AccessRule("approval-high-blast", 300, "require_approval") EXCEPT !.maxBlast = 80],
      [AccessRule("business-hours-prod-write", 400, "require_approval") EXCEPT
          !.environments = {"production"}, !.hoursOnly = TRUE]>>

TwoExtraRules ==
    {[AccessRule("extra", 100, "allow") EXCEPT !.scope = <<"truck", "write">>],
     [AccessRule("extra", 150, "require_mfa") EXCEPT !.sensitivities = {1, 2, 3}]}

TruckScope(level) == [resource |-> "truck", level |-> level]
AnyScope(level) == [resource |-> "*", level |-> level]

GrantedScopes ==
    {<<>>, <<AnyScope("read"), TruckScope("execute")>>, <<TruckScope("execute"), AnyScope("write")>>}

AskedResources ==
    {[type |-> "truck", sensitivity |-> "internal"], [type |-> "load", sensitivity |-> "restricted"]}

AskedIn(environment, risk, blast, hours) ==
    [environment |-> environment, risk |-> risk, blast |-> blast, hours |-> hours]

AskedContexts ==
    {AskedIn("production", 50, 90, TRUE), AskedIn("production", 90, 90, TRUE),
     AskedIn("test", 90, 50, FALSE), AskedIn("test", 0, 81, FALSE)}

ScopeMatches == [p \in {"*", "truck"} |-> IF p = "*" THEN {"truck", "load"} ELSE {"truck"}]

\* What an agent is registered with: less than its role has, or the capabilities of an intern.
CallersCapabilities == {<<"planner">>, <<"auditor", "intern">>}

\* Bundles of no certificate, of one, and one whose hash is of something else.
TrustBundles ==
    {[roots |-> 0, hashed |-> 0], [roots |-> 1, hashed |-> 1], [roots |-> 1, hashed |-> 0]}

TrustOptions ==
    {[endpoint |-> TRUE, autoSync |-> TRUE, pattern |-> {}],
     [endpoint |-> FALSE, autoSync |-> TRUE, pattern |-> {"n1"}],
     [endpoint |-> TRUE, autoSync |-> FALSE, pattern |-> {}]}

\* A model of Anthropic, one of OpenAI that is switched off, the heuristic, and a second
\* of Anthropic that is found under the name of the first.
Provider(id, weight, enabled) == [id |-> id, weight |-> weight, enabled |-> enabled]

VotingProviders ==
    <<Provider("anthropic", 12, TRUE), Provider("openai", 10, FALSE), Provider("heuristic", 5, TRUE),
      Provider("anthropic", 8, TRUE)>>

\* The thresholds of the code, and updates that name a part of them.
Thresholds(approve, clarify, escalate, autoReject) ==
    [approve |-> approve, clarify |-> clarify, escalate |-> escalate, autoReject |-> autoReject]

DefaultThresholds ==
    [destructive |-> Thresholds(95, 85, 70, 70), high |-> Thresholds(90, 75, 60, 50),
     medium |-> Thresholds(85, 65, 50, 40), low |-> Thresholds(80, 60, 40, 30)]

ThresholdUpdates ==
    {[thresholds |-> [high |-> [approve |-> 60]], switches |-> <<>>],
     [thresholds |-> [low |-> [clarify |-> 90, escalate |-> 30]], switches |-> <<>>],
     [thresholds |-> <<>>, switches |-> [autoReject |-> FALSE]],
     [thresholds |-> <<>>, switches |-> [allowOverrides |-> FALSE, justify |-> FALSE]]}

GatedIntents ==
    [confidence : {35, 55, 72, 86}, risk : {"low", "medium", "high", "destructive"}]

Metric(user, confidence, decision, agreement, seconds) ==
    [user |-> user, confidence |-> confidence, decision |-> decision, agreement |-> agreement,
     seconds |-> seconds]

RecordedMetrics ==
    {Metric("u", 9, "approve", Unmeasured, 1), Metric("u", 2, "reject", 3, 12)}

\* Texts of a few cells: matches side by side, nested, near the words they ask for, at the
\* end that is cut off; and fields that a list decides, or that are too deep.
Match(pattern, from, to, near, against) ==
    [pattern |-> pattern, from |-> from, to |-> to, near |-> near, against |-> against]

Leaf(key, size, matches) ==
    [key |-> key, covered |-> FALSE, depth |-> 0, size |-> size, matches |-> matches]

Address(from, to) == Match("pii-email", from, to, FALSE, FALSE)
Key(from, to) == Match("cred-aws-access", from, to, FALSE, FALSE)

TextOf(leaf) == [object |-> FALSE, leaves |-> <<leaf>>]
RecordOf(leaves) == [object |-> TRUE, leaves |-> leaves]

ScannedDocuments ==
    {TextOf(Leaf("plain", 6, {Address(1, 3), Match("pii-phone-us", 5, 6, TRUE, FALSE)})),
     TextOf(Leaf("plain", 7, {Address(1, 2), Address(4, 5), Match("pii-ssn", 6, 7, TRUE, FALSE)})),
     RecordOf(<<Leaf("always", 7, {}), Leaf("never", 2, {Address(1, 2)}),
                [Leaf("plain", 2, {Key(1, 2)}) EXCEPT !.depth = 2],
                [Leaf("plain", 2, {Key(1, 2)}) EXCEPT !.covered = TRUE],
                Leaf("plain", 3, {Key(1, 2), Match("fin-bank-account", 3, 3, FALSE, FALSE),
                                  Match("pii-ssn", 3, 3, TRUE, TRUE),
                                  Match("own", 3, 3, FALSE, FALSE)})>>),
     RecordOf(<<Leaf("plain", 4, {Match("fin-bank-account", 1, 2, TRUE, FALSE),
                                  Match("fin-routing", 1, 2, FALSE, FALSE),
                                  Match("cred-jwt-token", 3, 4, FALSE, FALSE)})>>)}

OwnPatterns == {Pattern("own", "custom", "confidential", 60, FALSE)}

FilterConfigs ==
    {[shadow |-> TRUE, method |-> "remove"],
     [enabled |-> TRUE, shadow |-> FALSE, groups |-> {"pii", "credential"}],
     [enabled |-> FALSE, method |-> "token", custom |-> SetToSeq(OwnPatterns), schemas |-> {}]}

DocumentSchemas == {{1}}

\* The settings of the code, and others: what each leaves out shows in what passes.
GuardSetting(block, layers, risk, checks) ==
    [blockThreshold |-> block, layers |-> layers, riskThreshold |-> risk, checks |-> checks,
     maxRequests |-> 1, maxCost |-> 10]

EveryCheck == {"pii", "secrets", "harmful", "rate", "cost"}

GuardedBy ==
    {GuardSetting(8, {"patterns", "structure", "semantics"}, 70, EveryCheck),
     GuardSetting(9, {"patterns", "structure", "semantics"}, 90, EveryCheck),
     GuardSetting(7, {"patterns", "semantics"}, 58, {"secrets", "rate"})}

GuardedPrompts ==
    {{}, {"long"}, {"fence"}, {"long", "fence", "authority"},
     {"ignore previous", "meta-instruction"}}

GuardedOutputs == {{}, {"SSN"}, {"SSN", "phishing"}, {"Slack Token", "Email"}, {"as dan"}}

\* A contradiction with a copy of one side, copies of which one is disabled, conditions that
\* look as if they were always false, and rules of one priority.
PolicyRuleOf(id, condition, action, priority, enabled) ==
    [id |-> id, condition |-> condition, action |-> action, risk |-> "none",
     priority |-> priority, enabled |-> enabled]

WordA == <<"a">>
WordsAB == <<"a", And, "b">>

PolicyTables ==
    {<<PolicyRuleOf("r1", WordsAB, "allow", 100, TRUE), PolicyRuleOf("r2", WordsAB, "deny", 90, TRUE),
       PolicyRuleOf("r3", WordA, "require_approval", 80, TRUE),
       PolicyRuleOf("r4", WordsAB, "allow", 50, TRUE)>>,
     <<PolicyRuleOf("r1", WordsAB, "deny", 10, FALSE), PolicyRuleOf("r2", WordsAB, "deny", 9, TRUE),
       PolicyRuleOf("r3", WordA, "require_approval", 8, TRUE)>>,
     <<PolicyRuleOf("r1", WordsAB, "deny", 10, FALSE), PolicyRuleOf("r2", WordsAB, "deny", 10, FALSE),
       PolicyRuleOf("r3", <<AlwaysTrue>>, "deny", 8, TRUE),
       PolicyRuleOf("r4", <<NeverTrue>>, "require_approval", 100, TRUE)>>,
     <<PolicyRuleOf("r1", WordsAB \o <<And, "c">>, "allow", 1, TRUE),
       PolicyRuleOf("r2", WordsAB, "deny", 1, TRUE), PolicyRuleOf("r3", <<"c">>, "deny", 1, TRUE)>>}

TrueWords == SUBSET {"a", "b", "c"}

-----------------------------------------------------------------------------
\* What is read off the resource graph is what the plan says, cascades and measures leave
\* nothing out, what simulations say of a plan they have seen; and a plan's checksum is its own,
\* its verdict that of its steps.
AnalysesAreRight ==
    /\ GraphTypeOK /\ BlastTypeOK
    /\ ShadowTypeOK /\ SimulationTypeOK /\ AttackTypeOK /\ PlanVersionsTypeOK
    /\ part = "graph" => GraphIsRead /\ MeasuresAreRight
    /\ part = "blast" => CascadesAreTraced /\ NothingIsHidden
    /\ part = "shadow" => ShadowIsExplained /\ ShadowVerdictsAreEarned
    /\ part = "simulation" => SimulationsAreHonest
    /\ part = "attack" => IterationsAreSound /\ RecommendationIsCautious
    /\ part = "plans" => ChecksumsAreTheirOwn /\ CirclesAreFound /\ VerdictsAreOfTheSteps

\* The sort of any plan ends, and every scenario that is run has its result.
EveryAnalysisEnds ==
    /\ part = "sort" => SortEnds
    /\ part = "shadow" => ScenariosEnd

-----------------------------------------------------------------------------
\* "Policy 1: Deny high-risk operations in production", "Risk score too high for production"
\* (workload-iam.ts): while the default rules are all there is, a risk over their limit is
\* denied in production.  The limit is a condition of the rule, so the rule denies what is
\* below it and lets through what is above.
HighRiskIsDenied ==
    part = "access" /\ removed = {} /\ Range(registered) = Range(DefaultIamRules) =>
        \A h \in Holders, resource \in AskedFor, level \in DOMAIN LevelRank, context \in Contexts :
            context.environment = "production" /\ context.risk > 70 =>
                Evaluate(h, resource, level, context) = "deny"
=============================================================================
