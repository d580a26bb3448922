----------------------- MODULE GovernanceEnforcement ------------------------
(***************************************************************************)
(* How governance decides on an action: the policy engine with its cache,  *)
(* and the stages of the proxy in front of the tools.                      *)
(***************************************************************************)
EXTENDS Naturals, FiniteSets

-----------------------------------------------------------------------------
(***************************************************************************)
(* Evaluation of one request, over and over, while the policies change     *)
(* (src/src/governance/policy/PolicyEngine.ts).  A policy set is its       *)
(* version; what a version decides is left open.  A bundle that is added   *)
(* or removed clears the cache, a hot reload does not, and an evaluation   *)
(* that waits for the OPA server stores its result afterwards in either    *)
(* case.                                                                   *)
(***************************************************************************)

CONSTANTS
    Evaluations,   \* evaluations that may be under way at once
    CacheTtl,      \* cache_ttl_seconds
    OpaTimeout,    \* the 5 seconds after which the request to OPA is aborted
    MaxVersions,   \* bound: policy sets
    MaxPolicyTime, \* bound: the clock
    NoEntry

ASSUME PolicyAssumption ==
    /\ CacheTtl \in Nat /\ OpaTimeout \in Nat
    /\ MaxVersions \in Nat \ {0} /\ MaxPolicyTime \in Nat

VARIABLES
    policyTime,
    version,     \* the policy set in effect
    replaced,    \* history: when version v was replaced
    cache,       \* the cached result: the version it was computed under, and when it was stored
    asking,      \* evaluations that wait for OPA: since when, and the version OPA has answered from
    served       \* the version behind the last result of each evaluation, 0 before the first

policyVars == <<policyTime, version, replaced, cache, asking, served>>

NotAsking == [since |-> 0, basis |-> 0]
Versions  == 1 .. MaxVersions

PolicyInit ==
    /\ policyTime = 0
    /\ version = 1
    /\ replaced = [v \in Versions |-> 0]
    /\ cache = NoEntry
    /\ asking = [e \in Evaluations |-> NotAsking]
    /\ served = [e \in Evaluations |-> 0]

\* getFromCache
CacheIsFresh == cache # NoEntry /\ policyTime - cache.stored <= CacheTtl

Serve(e, v) == served' = [served EXCEPT ![e] = v]

Store(v) == cache' = [basis |-> v, stored |-> policyTime]

EvaluateFromCache(e) ==
    /\ asking[e] = NotAsking
    /\ CacheIsFresh
    /\ Serve(e, cache.basis)
    /\ UNCHANGED <<policyTime, version, replaced, cache, asking>>

\* Without OPA the rules are evaluated in place.
EvaluateLocally(e) ==
    /\ asking[e] = NotAsking
    /\ ~CacheIsFresh
    /\ Store(version) /\ Serve(e, version)
    /\ UNCHANGED <<policyTime, version, replaced, asking>>

\* The request goes out, and OPA looks at the policies as they are then.
EvaluateWithOPA(e) ==
    /\ asking[e] = NotAsking
    /\ ~CacheIsFresh
    /\ asking' = [asking EXCEPT ![e] = [since |-> policyTime, basis |-> version]]
    /\ UNCHANGED <<policyTime, version, replaced, cache, served>>

\* The answer, or a failure and the local rules instead.
OPAReturns(e) ==
    /\ asking[e] # NotAsking
    /\ \E v \in {asking[e].basis, version} : Store(v) /\ Serve(e, v)
    /\ asking' = [asking EXCEPT ![e] = NotAsking]
    /\ UNCHANGED <<policyTime, version, replaced>>

Replace ==
    /\ version < MaxVersions
    /\ version' = version + 1
    /\ replaced' = [replaced EXCEPT ![version] = policyTime]

\* addBundle, removeBundle
ChangeBundle ==
    /\ Replace
    /\ cache' = NoEntry
    /\ UNCHANGED <<policyTime, asking, served>>

\* loadPolicies, from the timer or the reload route.
HotReload ==
    /\ Replace
    /\ UNCHANGED <<policyTime, cache, asking, served>>

CleanCache ==
    /\ cache # NoEntry /\ ~CacheIsFresh
    /\ cache' = NoEntry
    /\ UNCHANGED <<policyTime, version, replaced, asking, served>>

\* A request to OPA does not outlive its timeout.  What was served is no longer
\* looked at when time has passed.
PolicyTick ==
    /\ policyTime < MaxPolicyTime
    /\ \A e \in Evaluations : asking[e] # NotAsking => policyTime < asking[e].since + OpaTimeout
    /\ policyTime' = policyTime + 1
    /\ served' = [e \in Evaluations |-> 0]
    /\ UNCHANGED <<version, replaced, cache, asking>>

PolicyNext ==
    \/ \E e \in Evaluations :
          EvaluateFromCache(e) \/ EvaluateLocally(e) \/ EvaluateWithOPA(e) \/ OPAReturns(e)
    \/ ChangeBundle \/ HotReload \/ CleanCache \/ PolicyTick

PolicySpec == PolicyInit /\ [][PolicyNext]_policyVars

-----------------------------------------------------------------------------
\* Types of the policy engine's state.
PolicyTypeOK ==
    /\ policyTime \in 0 .. MaxPolicyTime
    /\ version \in Versions
    /\ replaced \in [Versions -> 0 .. MaxPolicyTime]
    /\ cache \in [basis : Versions, stored : 0 .. MaxPolicyTime] \cup {NoEntry}
    /\ asking \in [Evaluations -> [since : 0 .. MaxPolicyTime, basis : 0 .. MaxVersions]]
    /\ served \in [Evaluations -> 0 .. MaxVersions]

\* A decision may be that of a policy set no longer in effect, because reloads keep
\* the cache and late answers refill it, but for no longer than an answer may take
\* and a cache entry may live.
StalenessIsBounded ==
    \A e \in Evaluations : served[e] # 0 /\ served[e] # version =>
        policyTime - replaced[served[e]] <= CacheTtl + OpaTimeout

-----------------------------------------------------------------------------
(***************************************************************************)
(* The pipeline that every agent action goes through (src/src/governance/  *)
(* proxy/EnforcementProxy.ts) with the budget and the rate limit that it   *)
(* consults (budget/BudgetService.ts), for one agent and one tool.  Each   *)
(* stage of processAction is awaited, so the calls of several clients      *)
(* interleave between stages; the rate is checked in one stage and         *)
(* recorded in a later one.  What the policy decides is left open here:    *)
(* the part above is about that.                                           *)
(***************************************************************************)

CONSTANTS
    Calls,          \* calls of processAction that may be under way at once
    EffectiveLimit, \* requests_per_window + burst_allowance
    Window,         \* window_seconds
    BudgetLimit,    \* limit_units of the budget, which is hard
    MaxUsage,       \* bound: usage that callers report
    MaxProxyTime    \* bound: the clock

ASSUME ProxyAssumption ==
    /\ IsFiniteSet(Calls) /\ Calls # {}
    /\ EffectiveLimit \in Nat \ {0} /\ Window \in Nat /\ MaxProxyTime \in Nat
    /\ BudgetLimit \in Nat \ {0} /\ MaxUsage \in Nat

VARIABLES
    proxyTime,
    config,       \* shadow_mode and fail_closed
    windowStart,  \* the rate limit record
    count,
    usage,        \* of the budget
    stage,        \* the stage that each call waits for
    decision,     \* what was decided for the current action of each call, and by what
    answer,       \* "none", or whether the last action of the call was allowed
    audited       \* calls whose current action was handed to the audit log

proxyVars == <<proxyTime, config, windowStart, count, usage, stage, decision, answer, audited>>

PolicyDecision == {"ALLOW", "DENY", "MODIFY", "AWAIT_APPROVAL"}
Stage == {"idle", "rate", "budget", "policy", "approval", "record", "audit"}

ProxyInit ==
    /\ proxyTime = 0
    /\ config \in [shadow : BOOLEAN, failClosed : BOOLEAN]
    /\ windowStart = 0 /\ count = 0 /\ usage = 0
    /\ stage = [c \in Calls |-> "idle"]
    /\ decision = [c \in Calls |-> "none"]
    /\ answer = [c \in Calls |-> "none"]
    /\ audited = {}

GoTo(c, s) == stage' = [stage EXCEPT ![c] = s]

\* The call answers and may be made again.
Answer(c, a) == GoTo(c, "idle") /\ answer' = [answer EXCEPT ![c] = a]

Pass(c, from, to) == stage[c] = from /\ GoTo(c, to) /\ UNCHANGED answer

-----------------------------------------------------------------------------
\* processAction: the token (module TokenService), then an override token.
ProcessAction(c) ==
    /\ stage[c] = "idle"
    /\ audited' = audited \ {c}
    /\ \/ \* no valid token
          /\ decision' = [decision EXCEPT ![c] = "unauthenticated"]
          /\ answer' = [answer EXCEPT ![c] = "denied"]
          /\ UNCHANGED stage
       \/ \* a valid override token answers at once
          /\ decision' = [decision EXCEPT ![c] = "override"]
          /\ answer' = [answer EXCEPT ![c] = "allowed"]
          /\ UNCHANGED stage
       \/ /\ GoTo(c, "rate")
          /\ decision' = [decision EXCEPT ![c] = "none"]
          /\ answer' = [answer EXCEPT ![c] = "none"]
    /\ UNCHANGED <<proxyTime, config, windowStart, count, usage>>

WindowIsOver == proxyTime - windowStart > Window

\* Mutation: the end of the new window is stored for its start.
RestartWindowAtEnd == windowStart' = proxyTime + Window /\ count' = 0

RestartWindow == windowStart' = proxyTime /\ count' = 0

\* Mutation: the limit itself is let through.
UpToLimit(n) == n <= EffectiveLimit

UnderLimit(n) == n < EffectiveLimit

\* BudgetService.checkRate
CheckRate(c) ==
    LET counted == IF WindowIsOver THEN 0 ELSE count IN
    /\ stage[c] = "rate"
    /\ IF WindowIsOver THEN RestartWindow ELSE UNCHANGED <<windowStart, count>>
    /\ IF UnderLimit(counted)
       THEN GoTo(c, "budget") /\ UNCHANGED <<answer, decision>>
       ELSE Answer(c, "denied") /\ decision' = [decision EXCEPT ![c] = "rate"]
    /\ UNCHANGED <<proxyTime, config, usage, audited>>

\* BudgetService.checkBudget
CheckBudget(c) ==
    /\ stage[c] = "budget"
    /\ IF usage < BudgetLimit
       THEN GoTo(c, "policy") /\ UNCHANGED <<answer, decision>>
       ELSE Answer(c, "denied") /\ decision' = [decision EXCEPT ![c] = "budget"]
    /\ UNCHANGED <<proxyTime, config, windowStart, count, usage, audited>>

\* Mutation: an error that is not one of the known ones does not deny.
OpenOnError == "allowed"

\* handleError for an error of another kind than the five it knows.
OnUnknownError == IF config.failClosed THEN "denied" ELSE "allowed"

\* The OPA server may answer with a decision that is none of the four.
Proceeds(d) ==
    \/ config.shadow \/ d \in {"ALLOW", "MODIFY"}
    \/ d = "unknown" /\ ~config.failClosed

\* policyEngine.evaluate and handleDecision: a denial throws past the audit log.
HandleDecision(c, d) ==
    /\ stage[c] = "policy"
    /\ decision' = [decision EXCEPT ![c] = d]
    /\ \/ Proceeds(d) /\ GoTo(c, "record") /\ UNCHANGED answer
       \/ ~Proceeds(d) /\ d = "AWAIT_APPROVAL" /\ GoTo(c, "approval") /\ UNCHANGED answer
       \/ ~Proceeds(d) /\ d # "AWAIT_APPROVAL" /\ Answer(c, "denied")
    /\ UNCHANGED <<proxyTime, config, windowStart, count, usage, audited>>

EvaluationFails(c) ==
    /\ stage[c] = "policy"
    /\ decision' = [decision EXCEPT ![c] = "error"]
    /\ Answer(c, OnUnknownError)
    /\ UNCHANGED <<proxyTime, config, windowStart, count, usage, audited>>

\* handleApprovalRequired
ApprovalRequested(c) ==
    /\ Pass(c, "approval", "audit")
    /\ UNCHANGED <<proxyTime, config, windowStart, count, usage, decision, audited>>

\* createApprovalRequest throws when the agent has too many requests pending.
ApprovalRefused(c) ==
    /\ stage[c] = "approval"
    /\ decision' = [decision EXCEPT ![c] = "error"]
    /\ Answer(c, OnUnknownError)
    /\ UNCHANGED <<proxyTime, config, windowStart, count, usage, audited>>

\* BudgetService.recordRequest, in whatever window it is by now.
RecordRequest(c) ==
    /\ Pass(c, "record", "audit")
    /\ count' = count + 1
    /\ UNCHANGED <<proxyTime, config, windowStart, usage, decision, audited>>

\* logAuditEvent swallows the errors of the log.
LogAuditEvent(c) ==
    /\ stage[c] = "audit"
    /\ audited' = audited \cup {c}
    /\ Answer(c, IF decision[c] = "AWAIT_APPROVAL" /\ ~config.shadow THEN "awaiting" ELSE "allowed")
    /\ UNCHANGED <<proxyTime, config, windowStart, count, usage, decision>>

-----------------------------------------------------------------------------
(* BudgetService on its own                                                *)

\* recordUsage: called by whoever did the work; the proxy never does.
RecordUsage(units) ==
    /\ usage + units <= MaxUsage
    /\ usage' = usage + units
    /\ UNCHANGED <<proxyTime, config, windowStart, count, stage, decision, answer, audited>>

\* checkPeriodResets when the period is over, or createBudget anew.
ResetBudget ==
    /\ usage' = 0
    /\ UNCHANGED <<proxyTime, config, windowStart, count, stage, decision, answer, audited>>

\* createRateLimit anew; cleanupRateLimits does the same to an old window without requests.
RenewRateLimit ==
    /\ RestartWindow
    /\ UNCHANGED <<proxyTime, config, usage, stage, decision, answer, audited>>

ProxyTick ==
    /\ proxyTime < MaxProxyTime
    /\ proxyTime' = proxyTime + 1
    /\ UNCHANGED <<config, windowStart, count, usage, stage, decision, answer, audited>>

ProxyNext ==
    \/ \E c \in Calls :
          \/ ProcessAction(c) \/ CheckRate(c) \/ CheckBudget(c)
          \/ \E d \in PolicyDecision \cup {"unknown"} : HandleDecision(c, d)
          \/ EvaluationFails(c) \/ ApprovalRequested(c) \/ ApprovalRefused(c)
          \/ RecordRequest(c) \/ LogAuditEvent(c)
    \/ \E units \in 1 .. MaxUsage : RecordUsage(units)
    \/ ResetBudget \/ RenewRateLimit \/ ProxyTick

ProxySpec == ProxyInit /\ [][ProxyNext]_proxyVars

-----------------------------------------------------------------------------
\* Types of the proxy's state.
ProxyTypeOK ==
    /\ proxyTime \in 0 .. MaxProxyTime
    /\ config \in [shadow : BOOLEAN, failClosed : BOOLEAN]
    /\ windowStart \in 0 .. proxyTime
    /\ count \in Nat
    /\ usage \in 0 .. MaxUsage
    /\ stage \in [Calls -> Stage]
    /\ decision \in [Calls -> PolicyDecision \cup
                       {"none", "unknown", "unauthenticated", "override", "rate", "budget", "error"}]
    /\ answer \in [Calls -> {"none", "allowed", "denied", "awaiting"}]
    /\ audited \subseteq Calls

\* Calls that passed the rate check and may still be recorded.
Admitted == {c \in Calls : stage[c] \in {"budget", "policy", "approval", "record"}}

\* Calls in between the check and the record share one allowance, so a window can be
\* overrun, but never by more than the other calls that are under way at once.
OverrunIsBounded == count + Cardinality(Admitted) < EffectiveLimit + Cardinality(Calls)

\* When errors are to fail closed and decisions to be enforced, an action is let
\* through only by an override or a policy that allows it, and in the latter case it
\* is in the audit log by then, whichever stage failed.
AllowedIsDecided ==
    config.failClosed /\ ~config.shadow =>
        \A c \in Calls : answer[c] = "allowed" =>
            \/ decision[c] = "override"
            \/ decision[c] \in {"ALLOW", "MODIFY"} /\ c \in audited
=============================================================================
