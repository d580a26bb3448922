-------------------------- MODULE IntentConfidence --------------------------
(***************************************************************************)
(* How sure the gateway is of a reading of a text: the vote of several     *)
(* models, the gate that the result must pass, and what is measured of     *)
(* both.                                                                   *)
(***************************************************************************)
EXTENDS Integers, FiniteSets, SequencesExt

-----------------------------------------------------------------------------
(***************************************************************************)
(* Several models read one intent and vote (gateway/ensemble-voter.ts).    *)
(* The providers are asked at the same time and answer in any order; the   *)
(* vote waits for all of them, so that one that never answers stops it     *)
(* (the configured timeout is used nowhere).  Confidences are in tenths,   *)
(* weights in tenths too.  What a text says is in the answers.             *)
(***************************************************************************)

CONSTANTS
    Providers,     \* the configured providers in their order: [id, weight, enabled]
    VoteActions,   \* action types that a model may name
    VoteRisks,     \* risk levels
    Confidences,   \* confidences that a model may give
    Strategies,    \* votingStrategy of the configurations looked at
    MinModels      \* minModels

ASSUME VoteAssumption ==
    /\ MinModels \in Nat \ {0} /\ Confidences \subseteq 0 .. 10
    /\ Providers \in Seq(Range(Providers))
    /\ \A k \in DOMAIN Providers : Providers[k].weight \in Nat \ {0}

VARIABLES
    strategy,      \* config.votingStrategy
    answers,       \* by position of the provider: its answer, Asked or NoAnswer
    vote           \* the result, or NoVote while it waits

voteVars == <<strategy, answers, vote>>

Asked == [is |-> "asked"]
NoAnswer == [is |-> "failed"]
NoVote == [is |-> "waiting"]
AnswerOf(action, confidence, risk) ==
    [is |-> "answer", action |-> action, confidence |-> confidence, risk |-> risk]

\* What the keywords of the heuristic provider make of a text.
HeuristicAnswers ==
    {AnswerOf("delete", 6, "destructive"), AnswerOf("create", 6, "medium"), AnswerOf("query", 6, "low"),
     AnswerOf("unknown", 3, "medium")}

AnswersOf(provider) ==
    CASE provider.id = "heuristic" -> HeuristicAnswers
      [] provider.id = "anthropic" ->
            {AnswerOf(a, c, r) : a \in VoteActions, c \in Confidences, r \in VoteRisks} \cup {NoAnswer}
      [] OTHER -> {NoAnswer}

\* The places of the providers that are asked.
Enabled == {k \in DOMAIN Providers : Providers[k].enabled}

VoteInit ==
    /\ strategy \in Strategies
    /\ answers = [k \in Enabled |-> Asked]
    /\ vote = NoVote

\* queryProvider catches whatever goes wrong, a client that is not initialized too.
ProviderAnswers(k) ==
    /\ answers[k] = Asked
    /\ \E answer \in AnswersOf(Providers[k]) : answers' = [answers EXCEPT ![k] = answer]
    /\ UNCHANGED <<strategy, vote>>

Successful == {k \in Enabled : answers[k].is = "answer"}
NamedActions == {answers[k].action : k \in Successful}
BackersOf(action) == {k \in Successful : answers[k].action = action}

\* The weight is looked up by identifier: the first provider that has it.
ProviderWeight ==
    [k \in Enabled |-> Providers[Min({p \in DOMAIN Providers : Providers[p].id = Providers[k].id})].weight]

AnswerConfidence == [k \in Successful |-> answers[k].confidence]
WeightedConfidence == [k \in Successful |-> answers[k].confidence * ProviderWeight[k]]

\* The sum, over the places 1 .. n, of what those in S have.
SumOver(n, S, of) ==
    LET sum[k \in 0 .. n] == IF k = 0 THEN 0 ELSE sum[k - 1] + (IF k \in S THEN of[k] ELSE 0)
    IN sum[n]

VoteTotal(S, of) == SumOver(Len(Providers), S, of)

VoteScore(action) ==
    IF strategy = "majority" THEN Cardinality(BackersOf(action))
    ELSE VoteTotal(BackersOf(action), WeightedConfidence)

\* NamedActions in the order in which they were first named; the first of the best wins.
FirstNamed(action) == Min(BackersOf(action))
Winner ==
    CHOOSE a \in NamedActions : \A b \in NamedActions :
        \/ VoteScore(a) > VoteScore(b)
        \/ VoteScore(a) = VoteScore(b) /\ FirstNamed(a) <= FirstNamed(b)

\* The confidence of the winner as a fraction: the mean of its backers', weighted unless
\* votes are counted.
VoteConfidence(action) ==
    LET backers == BackersOf(action) IN
    IF strategy = "majority"
    THEN [num |-> VoteTotal(backers, AnswerConfidence), den |-> Cardinality(backers)]
    ELSE [num |-> VoteTotal(backers, WeightedConfidence), den |-> VoteTotal(backers, ProviderWeight)]

Majority == Max({Cardinality(BackersOf(a)) : a \in NamedActions})

\* The variance of the confidences, times the square of their number.
Spread ==
    LET n == Cardinality(Successful)
        sum == VoteTotal(Successful, AnswerConfidence)
        squares == VoteTotal(Successful, [k \in Successful |-> AnswerConfidence[k] * AnswerConfidence[k]])
    IN n * squares - sum * sum

SpreadAbove(hundredths) == Spread > hundredths * Cardinality(Successful) * Cardinality(Successful)

Disagreements ==
    {d \in {[about |-> "action_type", severity |-> IF Cardinality(NamedActions) > 2 THEN "high" ELSE "medium"]} :
        Cardinality(NamedActions) > 1}
    \cup {d \in {[about |-> "confidence", severity |-> IF SpreadAbove(20) THEN "high" ELSE "medium"]} :
        SpreadAbove(10)}

\* Nobody is confident at all: no entry beats the score 0, and the first response of
\* an empty list is read.
NobodyScores == strategy # "majority" /\ \A a \in NamedActions : VoteScore(a) = 0

CountVote ==
    /\ vote = NoVote /\ \A k \in DOMAIN answers : answers[k] # Asked
    /\ vote' = IF Cardinality(Successful) < MinModels \/ NobodyScores THEN [is |-> "throws"]
               ELSE [is |-> "result", action |-> Winner, confidence |-> VoteConfidence(Winner),
                     risk |-> answers[FirstNamed(Winner)].risk,
                     agreement |-> IF Cardinality(NamedActions) = 1
                                   THEN [num |-> 1, den |-> 1]
                                   ELSE [num |-> Majority, den |-> Cardinality(Successful)],
                     participating |-> Cardinality(Successful),
                     failed |-> Cardinality(Enabled) - Cardinality(Successful),
                     disagreements |-> Disagreements]
    /\ UNCHANGED <<strategy, answers>>

VoteNext == CountVote \/ \E k \in DOMAIN answers : ProviderAnswers(k)

VoteSpec == VoteInit /\ [][VoteNext]_voteVars

-----------------------------------------------------------------------------
VoteTypeOK ==
    /\ strategy \in Strategies /\ vote.is \in {"waiting", "throws", "result"}
    /\ \A k \in Enabled : answers[k] \in {Asked} \cup AnswersOf(Providers[k])

\* What the vote says is backed: by at least minModels answers, one of which named the
\* action and its risk; its confidence is not beyond those of its backers; and unless the
\* votes are counted, somebody who backs it has some confidence.
VoteIsBacked ==
    vote.is = "result" =>
        /\ vote.participating >= MinModels
        /\ \E k \in Successful : answers[k].action = vote.action /\ answers[k].risk = vote.risk
        /\ LET given == {answers[k].confidence : k \in BackersOf(vote.action)} IN
               /\ Min(given) * vote.confidence.den <= vote.confidence.num
               /\ vote.confidence.num <= Max(given) * vote.confidence.den
        /\ strategy # "majority" => vote.confidence.num > 0

\* Models that all name the same action agree in full, and only they; where they name
\* different ones the vote says so, and its severity is that of the number of opinions.
DissentIsReported ==
    vote.is = "result" =>
        /\ (vote.agreement.num = vote.agreement.den) <=> (Cardinality(NamedActions) = 1)
        /\ (\E d \in vote.disagreements : d.about = "action_type") <=> (Cardinality(NamedActions) > 1)
        /\ vote.participating + vote.failed = Cardinality(Enabled)

-----------------------------------------------------------------------------
(***************************************************************************)
(* What becomes of an intent that a model is not sure about                *)
(* (gateway/confidence-threshold.ts): it is approved, clarified, escalated *)
(* or rejected by its confidence and risk.  Confidences and thresholds are *)
(* in hundredths.  The threshold autoReject decides nothing: what is below *)
(* requireEscalation is rejected.  Events that are emitted are left out.   *)
(***************************************************************************)

CONSTANTS
    GateDefaults,    \* defaultThresholdConfig.thresholds
    GateUpdates,     \* updates of the configuration: what they name
    GateIntents,     \* [confidence, risk]
    GateIds,         \* intents that an override may name
    MaxRejections,   \* the 1000 rejections that are kept
    MaxGateSteps     \* bound: rejections and overrides in a behaviour

RiskLevels == {"low", "medium", "high", "destructive"}

ASSUME GateAssumption ==
    /\ MaxRejections \in Nat \ {0} /\ MaxGateSteps \in Nat
    /\ GateDefaults \in [RiskLevels -> [approve : Int, clarify : Int, escalate : Int, autoReject : Int]]
    /\ GateIntents \subseteq [confidence : Int, risk : RiskLevels]
    /\ \A u \in GateUpdates : \A r \in RiskLevels \cap DOMAIN u.thresholds :
          \A k \in DOMAIN u.thresholds[r] : u.thresholds[r][k] \in Int

VARIABLES
    thresholds,      \* config.thresholds
    switches,        \* the other fields of the configuration
    rejections,      \* the records that are kept
    overrides,       \* the overrides that were given
    gateSteps,
    everRejected     \* history: every rejection that was to be recorded

gateVars == <<thresholds, switches, rejections, overrides, gateSteps, everRejected>>

DefaultSwitches == [allowOverrides |-> TRUE, justify |-> TRUE, autoReject |-> TRUE]

GateInit ==
    /\ thresholds = GateDefaults /\ switches = DefaultSwitches
    /\ rejections = <<>> /\ overrides = {} /\ gateSteps = 0 /\ everRejected = <<>>

\* The first threshold that the confidence reaches, from the top.
GateDecision(intent) ==
    LET t == thresholds[intent.risk] IN
    IF intent.confidence >= t.approve THEN "approve"
    ELSE IF intent.confidence >= t.clarify THEN "clarify"
    ELSE IF intent.confidence >= t.escalate THEN "escalate"
    ELSE "reject"

EscalatesTo(intent) ==
    IF intent.risk = "destructive" THEN "admin"
    ELSE IF intent.risk = "high" \/ intent.confidence < 50 THEN "security_team"
    ELSE "supervisor"

NeedsHuman(intent) == GateDecision(intent) \in {"clarify", "escalate"}

\* The record of a rejection may be appealed where it is close to autoReject.
Rejection(intent) ==
    [intent |-> intent,
     appealable |-> 10 * intent.confidence >= 9 * thresholds[intent.risk].autoReject]

LastOf(s, n) == SubSeq(s, Len(s) - (IF Len(s) < n THEN Len(s) ELSE n) + 1, Len(s))

\* Mutation: one less is kept than there is room for.
EnforceOffByOne(intent) ==
    /\ GateDecision(intent) = "reject" /\ switches.autoReject
    /\ gateSteps < MaxGateSteps /\ gateSteps' = gateSteps + 1
    /\ rejections' = LastOf(Append(rejections, Rejection(intent)), MaxRejections - 1)
    /\ everRejected' = Append(everRejected, Rejection(intent))
    /\ UNCHANGED <<thresholds, switches, overrides>>

\* The other decisions change nothing.  Without autoRejectEnabled the intent is rejected
\* too, but not recorded.
Enforce(intent) ==
    /\ GateDecision(intent) = "reject" /\ switches.autoReject
    /\ gateSteps < MaxGateSteps /\ gateSteps' = gateSteps + 1
    /\ rejections' = LastOf(Append(rejections, Rejection(intent)), MaxRejections)
    /\ everRejected' = Append(everRejected, Rejection(intent))
    /\ UNCHANGED <<thresholds, switches, overrides>>

\* An override is noted, for any intent and with any authority; no decision reads it.
Override(id, decision, justified) ==
    /\ switches.allowOverrides
    /\ switches.justify => justified
    /\ gateSteps < MaxGateSteps /\ gateSteps' = gateSteps + 1
    /\ overrides' = overrides \cup {[intent |-> id, decision |-> decision, n |-> gateSteps + 1]}
    /\ UNCHANGED <<thresholds, switches, rejections, everRejected>>

Merged(old, new) ==
    [k \in DOMAIN old |-> IF k \in DOMAIN new THEN new[k] ELSE old[k]]

\* mergeConfig: level by level and field by field, on what is configured now.
UpdateThresholds(update) ==
    /\ thresholds' = [r \in DOMAIN thresholds |->
            IF r \in DOMAIN update.thresholds THEN Merged(thresholds[r], update.thresholds[r])
            ELSE thresholds[r]]
    /\ switches' = Merged(switches, update.switches)
    /\ UNCHANGED <<rejections, overrides, gateSteps, everRejected>>

\* The statistics know rejections only.
TotalEnforcements == Len(rejections)

GateNext ==
    \/ \E intent \in GateIntents : Enforce(intent)
    \/ \E id \in GateIds, d \in {"approve", "reject"}, justified \in BOOLEAN : Override(id, d, justified)
    \/ \E update \in GateUpdates : UpdateThresholds(update)

GateSpec == GateInit /\ [][GateNext]_gateVars

-----------------------------------------------------------------------------
GateTypeOK ==
    /\ Len(rejections) <= MaxRejections /\ gateSteps \in 0 .. MaxGateSteps
    /\ DOMAIN thresholds = DOMAIN GateDefaults /\ DOMAIN switches = DOMAIN DefaultSwitches
    /\ TotalEnforcements <= Len(everRejected)

Strictness == [approve |-> 0, clarify |-> 1, escalate |-> 2, reject |-> 3]
RiskRank == [low |-> 0, medium |-> 1, high |-> 2, destructive |-> 3]

\* The thresholds of a level, and those of the levels, are in order.
InOrder ==
    /\ \A r \in DOMAIN thresholds :
          thresholds[r].approve >= thresholds[r].clarify
          /\ thresholds[r].clarify >= thresholds[r].escalate
    /\ \A r, q \in DOMAIN thresholds : RiskRank[r] < RiskRank[q] =>
          \A k \in {"approve", "clarify", "escalate"} : thresholds[r][k] <= thresholds[q][k]

\* Whatever was configured, more confidence is never treated more strictly; and where
\* the thresholds are in order, more risk is never treated less strictly.
MoreConfidenceIsNeverWorse ==
    \A i, j \in GateIntents :
        /\ i.risk = j.risk /\ i.confidence <= j.confidence =>
               Strictness[GateDecision(j)] <= Strictness[GateDecision(i)]
        /\ InOrder /\ i.confidence = j.confidence /\ RiskRank[i.risk] < RiskRank[j.risk] =>
               Strictness[GateDecision(i)] <= Strictness[GateDecision(j)]
        /\ GateDecision(i) = "escalate" /\ i.risk = "destructive" => EscalatesTo(i) = "admin"
        /\ GateDecision(i) = "escalate" => NeedsHuman(i)

\* What is kept of the rejections is the end of what was recorded, with nothing missing
\* in between.
RejectionsAreKept ==
    /\ \A k \in DOMAIN rejections :
          rejections[k] = everRejected[Len(everRejected) - Len(rejections) + k]
    /\ Len(rejections) < MaxRejections => rejections = everRejected

-----------------------------------------------------------------------------
(***************************************************************************)
(* What the gateway measures of its confidence                             *)
(* (gateway/confidence-telemetry.ts): a bounded list of metrics, snapshots *)
(* of the last window on an interval timer, and what they call anomalies.  *)
(* Confidences are in tenths, times of answers in seconds.  Metrics carry  *)
(* the time that the caller gives them.  Events are left out.              *)
(***************************************************************************)

CONSTANTS
    Metrics,          \* what may be recorded, without the time: [user, confidence,
                      \* decision, agreement, seconds]; agreement is Unmeasured or tenths
    Unmeasured,
    TelemetryWindow,  \* windowSizeMs
    MaxMetricsStored, \* maxMetricsStored
    MaxSnapshots,     \* the 100 snapshots that are kept
    MaxRecorded,      \* bound: metrics recorded
    MaxTelemetryTime, \* bound
    MaxIntervals      \* bound: interval timers set

ASSUME TelemetryAssumption ==
    /\ \A m \in Metrics :
          /\ m.confidence \in 0 .. 10 /\ m.seconds \in Nat
          /\ m.agreement # Unmeasured => m.agreement \in Nat
    /\ TelemetryWindow \in Nat
    /\ MaxMetricsStored \in Nat \ {0} /\ MaxSnapshots \in Nat \ {0}
    /\ MaxTelemetryTime \in Nat /\ MaxIntervals \in Nat

VARIABLES
    telemetryTime,
    metrics,          \* the metrics that are kept, with their time
    snapshots,        \* the snapshots that are kept
    interval,         \* snapshotInterval: the number of the timer, or 0
    intervals,        \* timers that are set
    intervalsSet,     \* timers ever set
    recordedSoFar     \* history: every metric that was recorded

telemetryVars == <<telemetryTime, metrics, snapshots, interval, intervals, intervalsSet,
                   recordedSoFar>>

TelemetryInit ==
    /\ telemetryTime = 0 /\ metrics = <<>> /\ snapshots = <<>>
    /\ interval = 0 /\ intervals = {} /\ intervalsSet = 0 /\ recordedSoFar = <<>>

LastOnes(s, n) == SubSeq(s, Len(s) - (IF Len(s) < n THEN Len(s) ELSE n) + 1, Len(s))

\* Started already, it goes on with the timer it has.
StartTelemetry ==
    /\ interval = 0 /\ intervalsSet < MaxIntervals
    /\ intervalsSet' = intervalsSet + 1
    /\ interval' = intervalsSet + 1
    /\ intervals' = intervals \cup {intervalsSet + 1}
    /\ UNCHANGED <<telemetryTime, metrics, snapshots, recordedSoFar>>

StopTelemetry ==
    /\ interval # 0
    /\ intervals' = intervals \ {interval}
    /\ interval' = 0
    /\ UNCHANGED <<telemetryTime, metrics, snapshots, intervalsSet, recordedSoFar>>

Record(metric, at) ==
    /\ Len(recordedSoFar) < MaxRecorded
    /\ metrics' = LastOnes(Append(metrics, [what |-> metric, at |-> at]), MaxMetricsStored)
    /\ recordedSoFar' = Append(recordedSoFar, [what |-> metric, at |-> at])
    /\ UNCHANGED <<telemetryTime, snapshots, interval, intervals, intervalsSet>>

\* The places of the metrics that are in the window.
MetricsInWindow == {k \in DOMAIN metrics : metrics[k].at >= telemetryTime - TelemetryWindow}

\* n times the sum of products, less the product of the sums: the sign of the slope.
Slope(values) ==
    LET n == Len(values) IN
    IF n < 2 THEN 0
    ELSE n * SumOver(n, 1 .. n, [i \in 1 .. n |-> (i - 1) * values[i]])
             - ((n * (n - 1)) \div 2) * SumOver(n, 1 .. n, values)

\* calculateTrend, of one user's metrics in the order in which they came.
UserSlope(user) ==
    LET own == SelectSeq(metrics, LAMBDA m : m.what.user = user)
    IN Slope([i \in DOMAIN own |-> own[i].what.confidence])

\* The confidences at these places in ascending order: the i-th is the least that i of them
\* do not exceed.
SortedConfidences(places) ==
    LET confidence(k) == metrics[k].what.confidence IN
    [i \in 1 .. Cardinality(places) |->
        Min({c \in {confidence(k) : k \in places} :
                Cardinality({k \in places : confidence(k) <= c}) >= i})]

Percentile(sorted, p) ==
    IF sorted = <<>> THEN 0
    ELSE LET index == (p * Len(sorted) + 99) \div 100 IN sorted[IF index < 1 THEN 1 ELSE index]

\* The severity of a rate over the thresholds of two levels, in tenths.
RateSeverity(rate, of, critical, high) ==
    IF 10 * rate > critical * of THEN "critical" ELSE IF 10 * rate > high * of THEN "high" ELSE "medium"

\* The rates are over one metric at least.
Anomalies(places) ==
    LET all == IF places = {} THEN 1 ELSE Cardinality(places)
        low == Cardinality({k \in places : metrics[k].what.confidence < 4})
        rejected == Cardinality({k \in places : metrics[k].what.decision = "reject"})
        judged == {k \in places : metrics[k].what.agreement # Unmeasured}
        measured == Cardinality(judged)
        agreed == SumOver(Len(metrics), judged, [k \in judged |-> metrics[k].what.agreement])
        slow == SumOver(Len(metrics), places, [k \in places |-> metrics[k].what.seconds])
    IN {a \in {<<"low_confidence_spike", RateSeverity(low, all, 4, 3)>>} : 10 * low > 2 * all}
       \cup {a \in {<<"high_rejection_rate", RateSeverity(rejected, all, 5, 4)>>} :
                10 * rejected > 3 * all}
       \cup {a \in {<<"model_disagreement", IF agreed < 4 * measured THEN "high" ELSE "medium">>} :
                agreed > 0 /\ agreed < 6 * measured}
       \cup {a \in {<<"performance_degradation", IF slow > 10 * all THEN "high" ELSE "medium">>} :
                slow > 5 * all}

\* The drift is taken over the confidences that were sorted for the percentiles.
SnapshotOf(places) ==
    LET sorted == SortedConfidences(places) IN
    [at |-> telemetryTime, count |-> Cardinality(places), median |-> Percentile(sorted, 50),
     p95 |-> Percentile(sorted, 95), drift |-> Slope(sorted), anomalies |-> Anomalies(places)]

\* captureSnapshot, by a timer that is set.
CaptureSnapshot(timer) ==
    /\ timer \in intervals
    /\ snapshots' = LastOnes(Append(snapshots, SnapshotOf(MetricsInWindow)), MaxSnapshots)
    /\ UNCHANGED <<telemetryTime, metrics, interval, intervals, intervalsSet, recordedSoFar>>

TelemetryTick ==
    /\ telemetryTime < MaxTelemetryTime
    /\ telemetryTime' = telemetryTime + 1
    /\ UNCHANGED <<metrics, snapshots, interval, intervals, intervalsSet, recordedSoFar>>

TelemetryNext ==
    \/ StartTelemetry \/ StopTelemetry \/ TelemetryTick
    \/ \E m \in Metrics, at \in 0 .. telemetryTime : Record(m, at)
    \/ \E timer \in intervals : CaptureSnapshot(timer)

TelemetrySpec == TelemetryInit /\ [][TelemetryNext]_telemetryVars

-----------------------------------------------------------------------------
TelemetryTypeOK ==
    /\ Len(metrics) <= MaxMetricsStored /\ Len(snapshots) <= MaxSnapshots
    /\ intervalsSet \in 0 .. MaxIntervals /\ telemetryTime \in 0 .. MaxTelemetryTime

\* However often it was started and stopped, one timer at most takes snapshots, and it
\* can be stopped.
OneTimerTicks == intervals = IF interval = 0 THEN {} ELSE {interval}

\* A snapshot counts no more than was recorded in its window, and nothing is called an
\* anomaly where nothing was measured.
SnapshotsAreOfTheWindow ==
    \A k \in DOMAIN snapshots :
        LET s == snapshots[k] IN
        /\ s.count <= Cardinality({i \in DOMAIN recordedSoFar :
                                       recordedSoFar[i].at >= s.at - TelemetryWindow})
        /\ s.count = 0 => s.anomalies = {} /\ s.drift = 0
        /\ s.median <= s.p95
=============================================================================
