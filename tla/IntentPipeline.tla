--------------------------- MODULE IntentPipeline ---------------------------
(***************************************************************************)
(* From a request in natural language to a started workflow: the gateway   *)
(* parses it with a language model and puts it to the policy rules, the    *)
(* planner has a plan made of it, and a plan that needs no approval runs.  *)
(* Over the API these are three requests, and the identifiers that a       *)
(* client was told are all that it can name; the chat channels and         *)
(* `aegis intent' go through them in one call.  What the workflow          *)
(* engine makes of a plan is the matter of WorkflowRoutes.                 *)
(***************************************************************************)
EXTENDS Sequences, Naturals, Functions

CONSTANTS
    PipelineCalls,     \* calls that may be under way at the same time
    Texts,             \* a request's text with its context: the prompt
    Environments,
    Interpretations,   \* what the model may read in a text
    PlanAnswers,       \* what it may plan
    RecordAnswers,     \* how an audit record may end, as in WorkflowRoutes
    MaxIntents, MaxPlans,   \* bounds: rows of the two tables
    Nothing

ASSUME PipelineAssumption ==
    /\ RecordAnswers \subseteq BOOLEAN
    /\ MaxIntents \in Nat /\ MaxPlans \in Nat

VARIABLES
    intents,       \* table of intents
    plans,         \* table of plans
    toldIntents,   \* intents whose identifiers API clients know
    toldPlans,
    calls,         \* what each call waits for, and its local variables
    readings,      \* prompt cache: text -> interpretation
    drafts,        \* prompt cache: intent -> plan answer
    started,       \* plans that were started without anyone's approval
    awaiting       \* plans with a workflow that awaits one

pipelineVars == <<intents, plans, toldIntents, toldPlans, calls, readings, drafts,
                  started, awaiting>>

Resting == [at |-> "resting", text |-> Nothing, environment |-> Nothing,
            direct |-> FALSE, intent |-> 0]

Rests(c) == calls' = [calls EXCEPT ![c] = Resting]

PipelineInit ==
    /\ intents = <<>> /\ plans = <<>>
    /\ toldIntents = {} /\ toldPlans = {}
    /\ calls = [c \in PipelineCalls |-> Resting]
    /\ readings = [t \in {} |-> Nothing]
    /\ drafts = [i \in {} |-> Nothing]
    /\ started = {} /\ awaiting = {}

\* What evaluateIntent makes of the seven default rules: one denies, five ask for
\* an approval, and the intent may ask for one by its risk alone.
IsAllowed(i) == ~i.costly
RequiresApproval(i, environment) ==
    \/ i.risk # "low"
    \/ i.restricted
    \/ environment = "production" /\ i.sideEffect

PolicyStatus(i, environment) ==
    IF ~IsAllowed(i) THEN "denied"
    ELSE IF RequiresApproval(i, environment) THEN "pending" ELSE "approved"

\* A plan's own risk, that of its intent, or a plan that has little to do with it.
PlanApprovalRequired(answer, row) ==
    answer.risk # "low" \/ row.approvalRequired \/ ~answer.aligned

\* Outcomes of plan answer p for intent k.  A direct call goes on to execute it,
\* unless a message cannot be sent, the process dies, or the CLI was not asked to;
\* the API tells its client when the audit record does not throw.
Plan(c, k, p, direct) ==
    IF ~p.wellFormed
    THEN Rests(c) /\ UNCHANGED <<plans, toldPlans, started, awaiting>>
    ELSE LET id == Len(plans) + 1
             approval == PlanApprovalRequired(p, intents[k]) IN
         /\ Len(plans) < MaxPlans
         /\ plans' = Append(plans, [intent |-> k, risk |-> p.risk, approvalRequired |-> approval])
         /\ \E goesOn \in {FALSE, direct} :
               /\ started' = IF goesOn /\ ~approval THEN started \cup {id} ELSE started
               /\ awaiting' = IF goesOn /\ approval THEN awaiting \cup {id} ELSE awaiting
         /\ \E recorded \in RecordAnswers :
               toldPlans' = IF ~direct /\ recorded THEN toldPlans \cup {id} ELSE toldPlans
         /\ Rests(c)

\* generatePlan begins: the prompt contains the intent's identifier.
BeginPlan(c, k, direct) ==
    IF k \in DOMAIN drafts
    THEN Plan(c, k, drafts[k], direct)
    ELSE /\ calls' = [calls EXCEPT ![c] = [Resting EXCEPT !.at = "planning", !.intent = k,
                                                          !.direct = direct]]
         /\ UNCHANGED <<plans, toldPlans, started, awaiting>>

\* Mutation. The answer to a denied request names the intent.
ToldWhenStored(allowed, recorded) == recorded

\* A client is told the identifier of an intent that was allowed and recorded.
ToldIntent(allowed, recorded) == allowed /\ recorded

\* Evaluated, stored with the result, and answered; a direct call goes on.  What is
\* not clear is asked back, and no intent is made for a user who is no uuid.
Process(c, i, environment, direct) ==
    \/ Rests(c) /\ UNCHANGED <<intents, plans, toldIntents, toldPlans, started, awaiting>>
    \/ LET k == Len(intents) + 1
           row == [interpretation |-> i, environment |-> environment,
                   policyStatus |-> PolicyStatus(i, environment),
                   approvalRequired |-> RequiresApproval(i, environment)] IN
       /\ i.clear
       /\ Len(intents) < MaxIntents
       /\ intents' = Append(intents, row)
       /\ IF direct /\ IsAllowed(i)
          THEN /\ calls' = [calls EXCEPT ![c] = [Resting EXCEPT !.at = "planning", !.intent = k,
                                                                !.direct = TRUE]]
               /\ UNCHANGED toldIntents
          ELSE /\ Rests(c)
               /\ \E recorded \in RecordAnswers :
                     toldIntents' = IF ~direct /\ ToldIntent(IsAllowed(i), recorded)
                                    THEN toldIntents \cup {k} ELSE toldIntents
       /\ UNCHANGED <<plans, toldPlans, started, awaiting>>

\* processRequest up to the model's answer.  A prompt that the injection detector
\* blocks changes nothing and is no action.
Submit(c, t, environment, direct) ==
    /\ calls[c].at = "resting"
    /\ IF t \in DOMAIN readings
       THEN Process(c, readings[t], environment, direct)
       ELSE /\ calls' = [calls EXCEPT ![c] =
                   [at |-> "parsing", text |-> t, environment |-> environment,
                    direct |-> direct, intent |-> 0]]
            /\ UNCHANGED <<intents, plans, toldIntents, toldPlans, started, awaiting>>
    /\ UNCHANGED <<readings, drafts>>

\* Only what the schema accepts gets here, and is cached before anything else.
Interpreted(c, i) ==
    /\ calls[c].at = "parsing"
    /\ readings' = [t \in DOMAIN readings \cup {calls[c].text} |->
                       IF t = calls[c].text THEN i ELSE readings[t]]
    /\ Process(c, i, calls[c].environment, calls[c].direct)
    /\ UNCHANGED drafts

\* The model does not answer, or answers something else: parseIntent and
\* generatePlan return a failure (parseIntent catches it itself, so that the
\* heuristic parser is never asked).
ModelFails(c) ==
    /\ calls[c].at \in {"parsing", "planning"}
    /\ Rests(c)
    /\ UNCHANGED <<intents, plans, toldIntents, toldPlans, readings, drafts, started, awaiting>>

\* POST /intents/:intentId/plan; it does not ask for the intent's status.
RequestPlan(c, k) ==
    /\ calls[c].at = "resting"
    /\ k \in toldIntents
    /\ BeginPlan(c, k, FALSE)
    /\ UNCHANGED <<intents, toldIntents, readings, drafts>>

\* The answer is cached before it is looked at.
Planned(c, p) ==
    /\ calls[c].at = "planning"
    /\ drafts' = [k \in DOMAIN drafts \cup {calls[c].intent} |->
                     IF k = calls[c].intent THEN p ELSE drafts[k]]
    /\ Plan(c, calls[c].intent, p, calls[c].direct)
    /\ UNCHANGED <<intents, toldIntents, readings>>

\* POST /plans/:planId/execute.
ExecutePlan(id) ==
    /\ id \in toldPlans
    /\ IF plans[id].approvalRequired
       THEN awaiting' = awaiting \cup {id} /\ UNCHANGED started
       ELSE /\ TRUE \in RecordAnswers
            /\ started' = started \cup {id} /\ UNCHANGED awaiting
    /\ UNCHANGED <<intents, plans, toldIntents, toldPlans, calls, readings, drafts>>

\* promptCacheTtlSeconds have passed for some of the entries; with the cache
\* switched off there are none.
CacheExpires ==
    /\ \E T \in SUBSET DOMAIN readings : readings' = Restrict(readings, T)
    /\ \E K \in SUBSET DOMAIN drafts : drafts' = Restrict(drafts, K)
    /\ UNCHANGED <<intents, plans, toldIntents, toldPlans, calls, started, awaiting>>

\* The process dies and comes up again: the tables stay, and so does what
\* clients know.
PipelineRestart ==
    /\ calls' = [c \in PipelineCalls |-> Resting]
    /\ readings' = [t \in {} |-> Nothing]
    /\ drafts' = [i \in {} |-> Nothing]
    /\ UNCHANGED <<intents, plans, toldIntents, toldPlans, started, awaiting>>

PipelineNext ==
    \/ \E c \in PipelineCalls :
          \/ \E t \in Texts, e \in Environments, direct \in BOOLEAN : Submit(c, t, e, direct)
          \/ \E i \in Interpretations : Interpreted(c, i)
          \/ \E k \in toldIntents : RequestPlan(c, k)
          \/ \E p \in PlanAnswers : Planned(c, p)
          \/ ModelFails(c)
    \/ \E id \in toldPlans : ExecutePlan(id)
    \/ CacheExpires \/ PipelineRestart

PipelineSpec == PipelineInit /\ [][PipelineNext]_pipelineVars

-----------------------------------------------------------------------------
PipelineTypeOK ==
    /\ Len(intents) <= MaxIntents /\ Len(plans) <= MaxPlans
    /\ \A k \in DOMAIN intents : intents[k].interpretation \in Interpretations
    /\ toldIntents \subseteq DOMAIN intents /\ toldPlans \subseteq DOMAIN plans
    /\ \A c \in PipelineCalls : calls[c].at \in {"resting", "parsing", "planning"}
    /\ started \cup awaiting \subseteq DOMAIN plans

\* Whatever was cached, planned again or asked for by its identifier: nothing is
\* planned for an intent that the policy denied, and what starts without an
\* approval comes from an intent that the rules let pass without one in the
\* environment that it was submitted for.
NothingRunsAgainstPolicy ==
    /\ \A p \in DOMAIN plans : intents[plans[p].intent].policyStatus # "denied"
    /\ \A p \in started :
          LET row == intents[plans[p].intent] IN
          /\ plans[p].risk = "low" /\ row.interpretation.risk = "low"
          /\ ~row.interpretation.restricted
          /\ row.environment = "production" => ~row.interpretation.sideEffect
=============================================================================
