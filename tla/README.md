# AEGIS-T2A: TLA+ models, model checking and proofs

AEGIS turns a request in natural language into a plan of steps, asks for approval where the plan
is risky, and executes the plan through tool adapters with retries, checkpoints and compensation.
Around that stand a gateway that decides what may be planned, governance services that decide what
an agent may do, a control plane with a task queue, and keepers of records. This directory
specifies the parts of it where something can go wrong in ways a test hardly reaches.

Paths below are those of the repository; `workflow/index.ts` is `src/workflow/index.ts` of its
TypeScript sources (`src/src/workflow/index.ts` in `PROJECT.json`), and `controlplane/` is the
Python service beside it.

## 1. The system

| Component | State | Operations | Hard behaviours |
|---|---|---|---|
| Workflow engine (`workflow/index.ts`) | tables `workflows` and `step_executions`; `runningWorkflows`, a map of AbortControllers; one `WorkflowState` object per run | create, start, the step loop, execute with retries, checkpoint, compensate, approve, reject, cancel, pause, resume, recover | a run awaits the executor, a timeout or a backoff while requests change its row; a crash between any two writes; timeouts that abandon a call |
| Execution order (`topologicalSort`) | `visited`, `result`, the call stack | `visit` | cyclic and unknown dependencies |
| HTTP API (`api/routes.ts`) | `activeBuilds` of the app builder, in memory | intents, plans, execute, approve, reject, cancel; builds | the approval and the start are two writes with an audit record between; a build outlives its stop |
| CLI (`cli/index.ts`) | a process of its own on the same database | list, status, approve, reject, cancel; an engine is initialized first, and recovers | two processes write whole rows; recovery while a server is alive |
| Channels (`channels/*.ts`) | `pendingApprovals`, and the offset of the Telegram poll, in memory | plan an intent, approve and reject buttons, execute; start, stop and poll | a handler awaits the chat's server between its steps; buttons are pressed twice or late; a crash empties the map; updates are delivered again; two polling loops |
| Temporal engine (`workflow/temporal/`) | workflow code replayed by a Temporal server; the engine's row beside it | start, approve and reject signals, approval timers, activities, cancel | signals before and after the wait for them; a timer racing a signal; a second run under the same id |
| Idempotency, breaker (`executor/`) | records per key, breaker per tool | check, mark, wait, store, clean up, retry | check-then-act across awaits; a record that expires while somebody waits for it |
| Governance (`governance/`) | tokens and revocations; approval requests, votes, timers, override tokens; budgets and rate windows; decision cache; audit buffer | issue, refresh, revoke; vote, expire, cancel, redeem; the enforcement pipeline; evaluate, reload; log, flush, query, shut down | checks and records around an awaited policy evaluation; timers racing votes; failed, half-written and overlapping flushes |
| Gateway and planner (`gateway/`, `planner/`) | tables of intents and plans, a prompt cache; disambiguation sessions; policy versions; roles and bindings; cached sandbox verdicts; thresholds, rejections and overrides; metrics and snapshots | parse, vote, gate, evaluate, plan, make a version; resolve, cancel; create, roll back, approve, reject; bind, check; analyse, find and resolve conflicts | a verdict taken once and used by later requests; caches with keys that leave things out; models that answer in any order or never; analyses of a table that has changed since |
| Simulation and plan analysis (`simulation/`, `planner/*-analyzer.ts`, `*-validator.ts`, `workflow/compensation-verifier.ts`) | resource graph, metadata and downstream graph, action history, shadow state and snapshots, the table `simulations` | build and read the graph, cascade, check compensations, score, execute on a shadow, roll back, simulate, inject failures | cyclic plans; a graph that lags behind its metadata; a rollback while an execution waits; random failures |
| Filters and guards (`executor/dlp-filter.ts`, `security/`) | patterns, configuration and counters of singletons; the requests of the last minute | initialize, reconfigure, add, filter; detect, check | a configuration that is changed before or after initialization; offsets in a text that is being shortened |
| Integrations, registry, secrets (`integrations/`, `registry/`, `secrets/`) | the table of adapters and the map in memory; the catalog with its counts; circuit breaker, rate bucket and health of the Zapier bridge; encrypted credentials | load, register, enable, catalogue, search; execute; issue, get, revoke, clean up | two processes and failing statements on one file with no transaction; late answers to a half-open breaker; a key that dies with its process |
| Records (`audit/`) | artifacts with a hash chain and a Merkle root; an indexed copy of the ledger | record, replay, seal; index, compact, query | interleaved workflows in one chain; compaction under the indexes |
| Core (`core/`) | session namespaces; breaker and drift history of the runtime guard; the schema of the database | get, write, read, purge; intercept; migrate | objects kept over a purge; late answers to an open breaker; two processes that migrate one file |
| Identity (`identity/`) | machine identities and grants; delegation tokens; scopes and access rules; federated domains and their timers; rows and rotations in PostgreSQL; who spawned whom | provision, rotate, suspend, revoke, kill, monitor; delegate, verify; grant, evaluate; federate; register | a rotation in flight when its identity is revoked; clocks of different grain; timers that lose their handle; concurrent writers of a row; records replaced under their children |
| Automation (`controlplane/automation/`) | a table of tasks in PostgreSQL | queue, approve, reject, trigger, process | concurrent transactions; a batch that rolls back after its effects |

How they interact: the API, the CLI and the channels call the gateway, the planner and the engine
directly; the engine calls the executor through the callback set by `setStepExecutor`; all of them
share one SQLite database. better-sqlite3 is synchronous, so within one process a piece of code
between two real waits runs undisturbed. What can come in between is (a) another request while an
operation waits for the executor, a model, a timer, an audit write or a chat's server; (b) the death
of the process, at any point; (c) another process.

What makes each component correct:

* engine: a row never loses or invents a step; a step runs after its dependencies, and not again
  once it is on record; a failure undoes what was done, last first, once; a run ends; a row that
  says `running` has somebody running it; a cancelled run stops.
* execution order: every step once, after its dependencies, and the sort ends.
* API, CLI: one run per workflow, whoever asks; each workflow behaves as a saga.
* channels: what was rejected while nothing ran for it stays rejected, and nothing runs unapproved.
* Temporal: each run behaves as a saga too; an approval was given to the step that waited for it.
* idempotency: a call reports as done only what was done, and every call returns.
* governance: a revoked token stays invalid; an override is earned by votes; what is let through
  was decided; limits are overrun by no more than the calls under way; a stale decision has a
  bounded age; no audit event vanishes from a process that lives; every request is settled.
* gateway: no plan runs against a policy verdict; a session ends once; version numbers name one
  version; a permission has a live binding behind it; a cached verdict is fresh; a vote is backed by
  answers; more confidence is never treated more strictly; resolving a conflict decides nothing anew.
* simulation and analysis: what is read off a graph is what the plan says; a plan never looks safer
  than its steps; a verdict is earned by what was executed; failures on record never help.
* filters and guards: what is reported as redacted is gone; what is certainly an attack is blocked.
* integrations: the map in memory is the table; the bridge is spared when it fails; a credential is
  handed out until its end and never after.
* records: what is recorded can be proved and found; a running container is known to its build.
* core, identity, automation: reads see the last write; a breaker closes again; what is suspended
  or expired loses its grants; what was revoked is refused and what was not holds; no writer of a
  row loses another's columns; the schema is whole; one task per idempotency key, and tasks are
  settled.

## 2. Modules and plan

| Module | What it is | Composed in |
|---|---|---|
| `WorkflowEngine` | the engine, every operation an action, callable by anyone in any order | `MCWorkflowEngine` |
| `Saga` | abstract specification: what a workflow service promises the outside world | refined by two modules |
| `WorkflowRoutes` | the engine composed with the HTTP API; refinement to `Saga` | `MCWorkflowRoutes` |
| `WorkflowCli` | `WorkflowRoutes` composed with a CLI process; liveness | `MCWorkflowCli` |
| `TopologicalSort` | the sort over every plan | `MCAnalysis` |
| `WorkflowEngineProofs`, `WorkflowRoutesProofs` | inductive invariants and theorems of the engine and the routes; the routes implement `Saga` | |
| `WorkflowCliProofs` | the same beside a command line | |
| `TemporalWorkflowProofs` | invariants of the durable workflow; its runs implement `Saga` | |
| `PlatformProofs` | theorems of the other components of `MCPlatform`, and of `MCPlatform` itself | |
| `ServicesProofs` | theorems of the governance services and the intent pipeline, and of `MCServices` | |
| `AnalysisProofs` | theorems of `TopologicalSort`, of the checkers and the scorer in `PlanChecks`, of most parts of `Trust`, and of `Trust` itself | |
| `ContentGuardsProofs` | theorems of the filter of sensitive data and of the guards around the models | |
| `IntentPipeline` | from a text over the policy rules and the planner to a started workflow | `MCServices` |
| `GatewaySessions`, `PolicyAdministration` | disambiguation sessions and sandbox verdicts; policy versions, roles and bindings | `MCServices` |
| `TokenService`, `GovernanceApproval`, `GovernanceEnforcement` | the governance services; the third has the policy engine and the proxy's stages | `MCServices` |
| `AuditRecords`, `Builds` | the governance audit log, artifacts and replays, and the audit index; the app builder | `MCServices` |
| `TelegramBot`, `ZapierClient` | the polling loop of the bot; a step that the Zapier bridge executes | `MCServices` |
| `TemporalWorkflow` | the durable workflow, and its refinement to `Saga` | `MCPlatform` |
| `ResilientExecutor`, `AutomationService`, `AgentRuntime`, `NhiLifecycle` | idempotency and breaker; task queue; session memory and runtime guard; machine identities | `MCPlatform` |
| `ChannelApproval`, `AdapterRegistry` | approval buttons in a chat; the adapters and their catalog | `MCPlatform` |
| `ResourceGraphs`, `PlanChecks` | the dependency graph and the blast radius of a plan; its compensations, its risk score, its versions and checksum | `MCAnalysis` |
| `Simulations` | the three simulations of a plan | `MCAnalysis` |
| `Trust` | the next four rows, side by side | `MCAnalysis` |
| `AccessRights`, `SpiffeIdentities` | delegations, scopes and access rules, and who spawned whom; federated domains and the registry of identities | `Trust` |
| `IntentConfidence`, `PolicyConflicts` | the vote of the models, the gate of confidence and its telemetry; conflicts between rules | `Trust` |
| `ContentGuards` | the filter of sensitive data, and the guards around the models | `Trust` |
| `DatabaseFile` | the credentials in the database, and its schema | `Trust` |

A module with several components has a part for each, under a comment of its own: constants,
variables, actions and properties of one part do not mention those of another (the adversarial
simulation only sorts the steps as the plain one does).

`MCServices`, `MCPlatform`, `Trust` and `MCAnalysis` put components side by side that share no variable:
`part` names the one that moves, so that one run of TLC visits the sum of their states, not the
product. A behaviour of all of them together is a behaviour of each, so nothing is lost for
properties of one.

Left for later: the reports and lookups of section 7.

## 3. How the models correspond to the code

### WorkflowEngine

| Model | Code |
|---|---|
| `row` | the `workflows` table: `status`, `completed_steps`, `compensation_stack` |
| `stepLog` | the `step_executions` table, as the steps recorded per outcome |
| `controllers` | `runningWorkflows` |
| `pc`, `of`, `pos`, `opts`, `attempt`, `result`, `undo` | where a call of `startWorkflow` is, and its local variables |
| `mem` | the `WorkflowState` object of that call, read once at the start and written back whole |
| `aborted` | `signal.aborted` of the run's controller |
| `thread` | the run whose synchronous code is executing; requests need `thread = None` |
| `late`, `landed`, `undoCalls` | the outside world: abandoned calls, effects of steps, compensation calls |

Each database write is an action of its own (`Begin`, `Dispatch`, `RecordStepExecution`,
`Checkpoint`, `FailStep`, `StartCompensation`, `EndCompensation`), because a crash may fall between
any two; `Crash` needs nothing but a running process. A run keeps `thread` from one such action to
the next and gives it up at the awaits of `executeStep` and `compensate`: `call`, `backoff`
and `undoing`. `CallCompletes`, `CallFails` and `CallRejects` are the three outcomes of the race
in `executeStep`: the executor's result `completed`; its result `failed`, which it also gives when
its own timeout fires and which the engine does not retry; and a rejection, which it does retry.
After the last two the call may still land (`LateLanding`).

Steps are named by their position in the execution order, so `Deps[s]` may hold any numbers: a
later step stands for a cycle, an unknown number for an id that does not exist. That the order
itself is right is the matter of `TopologicalSort`. Outputs, errors, timestamps, `failedSteps` and
`currentStepId` decide nothing in the engine and are left out. Without a step executor the engine
answers `completed` by itself, as a dry run does; every caller sets one, so only the dry run is
modelled. `startWorkflow` and `resumeWorkflow` throw where their guards fail; a call that throws
changes nothing and is no action.

### Saga and WorkflowRoutes

`WorkflowRoutes` keeps the engine's variables and replaces free calls by those the routes make.
`HandOver` is the moment between the write of the handler (create, approve) and `startWorkflow`: an
audit record is written there, so the process may die. Its assumptions about plans are what the
planner guarantees: dependencies on earlier steps only, and a step approval makes the plan need
approval.

`ImplementsSaga` maps each workflow to a saga: `done` is the number of steps on record, `undone`
the compensations called, `phase` follows the run that works on it. A crash ends all live sagas at
once (`Stop`). Compensations that a crash cut off are not promised by `Saga`; the run
`routes_recovery` shows what becomes of them.

### WorkflowCli

One command at a time, in a process of its own: the recovery query (`Issue`), an UPDATE per row
found (`MarkFailed`), `getWorkflow` (`ReadRow`) and the write of the whole row (`WriteRow`), any
server step in between. A command can write a row back that lacks the server's last checkpoint, so
`NoRedispatch` is not claimed here. What survives is `CommandsAreSafe`: one run per workflow, because
no command writes the one status (`awaiting_approval`) from which a route starts a run; and what a row
says of its steps, because a row that is written back was true when it was read, records are only
added, and no command writes `running`.

### TopologicalSort

`path` is the call stack of `visit`, `left` the dependencies each call has still to look at. The
plan is a variable that no action changes, so one run covers every plan; the order in which a
dependency array is walked is left open.

### ChannelApproval

`stage` is where `processIntent` is for a plan, `press` where the handler of each button press is; they
are interrupted where they await the chat's server (`sendText`, `sendInteractiveButtons`) or a run. A
plan has the workflow that is made with the message, for review or for its direct execution; a press has
the one that `executeWorkflow` makes. `saved` is the row of a workflow and `going` the run behind it, of
which the module keeps what it writes to the row: `running` before and after each step, whatever the row
says by then, `compensating`, a final status, or `awaiting_approval` again. The routes of the API take
any of these workflows, so they may approve the one for review, which then runs beside its buttons, and
the one to execute, also after a rejection in the chat. A rejection writes `cancelled` and stops no run:
beside a live run it is written over by it, as in `CancelSticks`. What holds is that a workflow that was
rejected while nothing ran stays so. `cancelWorkflow`, which a chat's `/cancel` calls, is that of
`WorkflowEngine`. The code is that of `whatsapp.ts`; `telegram.ts` and `slack.ts` differ in formatting and
in where the confirmation is sent. A crash between the creation of a workflow and its start is not
modelled in this module.

### TelegramBot, AdapterRegistry, ZapierClient

`TelegramBot` handles updates one after the other, as `poll` does; `offset` is in memory, and
`confirmed` is what Telegram will not deliver again. Stopping and starting the bot while a handler
is at work leaves two loops, and a crash brings the last batch back: `UpdatesAreHandled` says what
is left. `AdapterRegistry` has several processes on
one file, because each command line loads the registry that the server has open (`cli/index.ts:29`).
Every SQL statement is an action: there is no transaction, so another process, the death of this one, or
an error of the statement may come between any two. An error while an adapter is indexed is logged and
the next adapter has its turn (`registry/index.ts:267`, `:350`). `updateStats` is two actions, a read and
a write of the total (`store.ts:447`), so the total of two processes, or of one that fails between,
is behind the number of entries; `StatisticsAreSound` says that it is never ahead. `stale` marks the processes
that have read the table before another changed it: nothing tells them. No query asks for an order of
the rows, so table and map are sets and `loadAdapters` goes through them in any order; when every
adapter is disabled `loadAdapters` calls itself for ever, so `Loaded` excludes that state; and a first
start that dies after its first default leaves the others unregistered for good, because a later start
finds a row. `ZapierClient` never throws: a refused call is an answer, and its step counts
as completed; a half-open breaker lets any number of calls through, and a token of the bucket is
spent before the endpoint is looked at.

### Gateway and planner

`IntentPipeline`: `intents` and `plans` are the two tables, `promptCache` the planner's and the
parser's cache of model answers, `calls` what is awaited. A text has no meaning of its own; the
model may read any of `Interpretations` in it and plan any of `PlanAnswers`. The way over the API
is three requests that know only identifiers they were told; the chat channels and
`aegis intent --execute` go through in one call. `parseIntent` catches its own errors, so that the
heuristic parser behind it is never reached; `updateIntentStatus` has no caller, and the plan route
does not look at an intent's status: what keeps a denied intent from being planned is that the route
for intents answers a denial without the identifier (`routes.ts:127`), and the plan route needs it.

`GatewaySessions`: `activeSessions` and `auditChain` are in memory; the awaited audit record lies
between the end of a session and its removal from the map, and `ParserTick` passes time.
`PolicyAdministration`: one rule, its versions only appended. The property excludes a second
`created`, which starts again at 1.0.0; and a rejection of an old version rolls back to the last but
one, which may be the rejected one (`policy-versioning.ts:247`). Of the bindings it keeps both maps, the
table by identifier and the index by identity, because identifiers of one millisecond collide.
Of an intent the sandbox keeps what the checks look at; its cache key leaves out the risk, the
capabilities, the parameters and the resources (`intent-sandbox.ts:1063`), so `VerdictsAreFresh`
speaks of verdicts on the same key, not on the same intent.

`IntentConfidence`: the providers answer in any order and the vote waits for all of them; the
configured timeout is used nowhere. The risk of the result is that of the first model that backs
its action, not the worst. At the gate `autoReject` as a threshold decides nothing, and
switched off it still rejects without keeping the rejection; no decision reads an override.
The drift in the telemetry is taken of values that were sorted before (`confidence-telemetry.ts:358`,
`:378`), so it cannot report a decrease, although `:65` says that a negative one means just that; no
property says anything of its sign.

`PolicyConflicts` keeps the rules, the conflicts that `analyze`
has found and the rules that it has seen: suggestions are taken later, of a table that may have
changed. A condition is a conjunction of words; the table sorted by priority is the rules by their
rank, that is by how many come before each. `Decision` is `evaluateIntent`, which applies
every enabled rule that matches, whatever its priority: this is why reordering decides nothing, and
why a rule called shadowed executes all the same. The copy that is suggested for deletion may be
the one that is enabled; `CopiesAreAlike` excludes that case.

`PlanChecks` again: a document is its leaves, and a digest the leaves that are hashed. `hashObject`
passes the keys of the top level as the list of keys that `JSON.stringify` may show, at any depth:
the checksum of a plan knows its identifiers and the number of its steps, and nothing in them.
So `validatePlan`, which is to find out whether a plan "may have been tampered with"
(`planner/index.ts:604`), accepts any steps of the same number. `ChecksumsAreTheirOwn` states what it
does notice: another plan, and steps that are more or fewer. A version copies the risk and the approval of its
base, whatever its own steps are; `VerdictsAreOfTheSteps` states them of what the planner made, and of versions
that go back to it.

### Simulation and plan analysis

`ResourceGraphs`: the dependency graph has resources as nodes, so two steps in a row on one resource
make it depend on itself, and such a resource is in no execution order. The blast radius keeps `metadata` and `downstream`
apart, because the second keeps old edges when a resource has nothing downstream any more.
`PlanChecks` reduces a step to what the checks find in its texts. The risk scorer counts in
hundredths of a point; the weights add up to 1.05, an empty plan scores NaN and is therefore
`destructive`, and a user with few actions always counts as increasing; each scoring is on record for
the next. `Simulations`: a shadow execution may be taken back to a snapshot while a step waits, and
goes on after that; whether a step succeeds is drawn. Every step leaves an audit record that cannot be undone, so
`canProceedToProduction` is never true of a plan with a step (`ShadowVerdictsAreEarned` is about the
rest as well). In the plain simulation a step cannot fail; skipped steps are not failures.
The adversarial one leaves open what the generator of random numbers answers. An iteration's
steps, failures, cascades and recoveries are actions; statistics and recommendation are operators.

### Filters, guards and credentials

`ContentGuards`: a text is a sequence of cells and a pattern is where it matches. All matches are looked
for in the text as it came, and cut at the same offsets out of what earlier patterns have left: where
a replacement has another length, the next pattern is cut beside its place. `RedactedIsGone` says
what holds, with `OffsetsHold` for when. For the guards a prompt or an output is the set of what
matches in it. The credentials of `DatabaseFile`: without `SECRETS_ENCRYPTION_KEY` a process makes a key at its first
encryption, so what an earlier process issued can be decrypted by none after it.

### Identity beyond NhiLifecycle

`AccessRights` counts half seconds for delegations, because the manager forgets to the millisecond
and verifies to the second; only the direct parent's limit is looked at, zero is no limit, and a revoked or forgotten
parent counts as none. The access rules start with the default rules registered twice, as the
start-up does (`initialization.ts:80`), so removing one leaves its copy; a rule with a maximum matches
what is not above it, so the default rule that is to deny high risks in production denies the low ones
(run `iam_defaults`). `SpiffeIdentities`: a timer is a number, its handle is in `syncIntervals`.
`createTrustBundle` hashes another object than `calculateBundleHash`, so its bundles are refused.
The registry stores the capabilities that
a caller sends, whatever the role; only a change of trust derives them. Its statements run under READ COMMITTED, a rotation is a transaction of three of them;
`suspendIdentity` and `revokeIdentity` assign one column twice, which PostgreSQL refuses, so they
change nothing. The genealogy, in `AccessRights`: registering an agent again replaces its record and its children; going up
may then come back to where it began, going down never does (`ChildrenAreYounger`).

### The schema

In `DatabaseFile`. Server and command line migrate one file when they start. The version is read once; each
migration is a transaction with its row of `schema_version`, whose primary key, or the statements
themselves, refuse a second application, and the loser does not start.

### Governance

`TokenService` numbers tokens; `told` is the history of what was revoked. The revocation of all of an
agent's tokens walks a map across awaits, so it has a begin, visits and a return.
`GovernanceApproval` leaves durations open: a timer that is set may fire at any later moment.
`GovernanceEnforcement` has one action per awaited stage of `processAction`, for one agent and one
tool; `count` and `used` are the rate window and the budget. It reduces a policy set to its version
and keeps the cache, the reload that does not clear it, and answers of OPA that come late.

### Records and builds

`AuditRecords`: of the governance audit log it keeps the order of events through buffer, overlapping
flushes and file. An append that fails may have written some lines and part of one more: all of the batch is put
back and written again, so these events are in the file twice, and the first of them continues the part of a
line, where nobody can read it (`AuditService.ts:396`). The hash chain over them is left out, because what the service verifies is not what
it hashed (the event is enriched in between). Then artifacts, the last Merkle root and which prompt is
answered with which response; a root is the number of artifacts that it covers. An artifact gets computed
hashes where the caller sends none (`audit/replay/index.ts:699`), while the response is cached under what
the caller sent (`:851`): of such an artifact a replay finds nothing, or what was cached under no hash. Of the index it keeps
the entry list and the position maps that compaction rewrites. `Builds` interleaves the build process (`docker build`,
`docker run`), which nothing aborts, with stop requests.

### Platform

`TemporalWorkflow`: Temporal replays workflow code, so a crash of the worker is a stutter; a run is
`exec[r]`, signals set its fields as the handlers do, and `Progress` is one step of the workflow
code or an answer of an activity. `ResilientExecutor` follows calls of one step under one key;
records are objects with identity, because callers hold on to one that was replaced.
`AutomationService`: transactions under READ COMMITTED with row locks: `draft` is what the holder
of a row's lock has made of it, `rows` what is committed. `AgentRuntime`: `handed` are the namespace
objects callers keep; behind the guard a call evaluates in one go and acts later; the four built-in
policies cannot match (`core/runtime-guard/index.ts:306`). `NhiLifecycle`: an operation runs to its
first await and resumes among others.

## 4. Runs

| Run | Checks | Bounds, and why they are enough |
|---|---|---|
| `engine` | type, compensation stack, record before checkpoint, dependencies on record, `running` is real | one workflow, three steps (the second needs approval, the third depends on a step that does not exist), two runs, one retry, one crash, all three kinds of options: two runs are the least that can interfere |
| `routes_safety` | `SingleRun`, `NoRedispatch`, `CompensatedOnce`, `FailureIsUndone`, `CancelledRunNeverCompletes`, refinement of `Saga` | two workflows, so that runs of different workflows interleave; three runs; four steps, in one plan with an approval before the last, so that a failure can leave two steps to undo and a restart has three to skip; no retries |
| `cli` | `CommandsAreSafe`, and that every run ends | two steps, the second with an approval, so that rows differ in their stacks and a second run resumes; one retry, one crash; two commands: one can read a row before, and the other act after, anything the server does |
| `analysis` | what is decided about a plan: the sort's order and end, and for each other part of `MCAnalysis` the properties stated in its module; who is trusted with what: the same for each part of `Trust` | sort: three steps and an unknown id, all 4096 plans, with self-loops and cycles of each length; graph: all plans of three steps on three resources; the others: the smallest sets with which each branch is taken, two writers of one row, two processes, three tokens in a chain, four registrations of three agents, three versions of a plan, two scorings beyond the length of the history; callers that register an identity with its default capabilities, and with fewer |
| `services` | the properties of section 1 for governance, gateway, records and builds | two callers of everything, clocks long enough for each lifetime to run out while something waits, one agent over its limit by every number of calls under way; four audit events in batches of two, one append that fails half-way; artifacts with both hashes sent and with none, out of order |
| `platform` | the properties for Temporal, idempotency, automation, memory, guard, identity and chats | two runs of a workflow id, three steps with an approval at the second; two calls, two workers, two tasks for one key; two presses on two plans, only one of which needs approval; a server and a command on one registry, one registration and one fault; three impacts around the risk threshold |
| `routes_cancel` | violated: `CancelSticks` | one run suffices |
| `routes_recovery` | violated: `InterruptedRecovered` | one crash during compensation |
| `routes_audit` | violated: `ApprovalTakesEffect` | fair runs, no crash, the audit record throws |
| `channel_execute` | violated: `ApprovedIsExecuted` | fair, every message is delivered, no crash |
| `automation_review` | violated: `ReviewGateHolds` | one task, one worker, two requests |
| `iam_defaults` | violated: `HighRiskIsDenied` | the default rules, one identity with a scope, risks on both sides of 70 |

Where a run looks at many components, one property of it stands for what several modules promise;
each conjunct is stated, with its comment, in its own module:

| Property | Conjuncts |
|---|---|
| `GatewayRemembersRight` | `SessionEndsOnce`, `NumberNamesOneVersion`, `PermissionsAreBacked`, `VerdictsAreFresh` |
| `RecordsAreComplete` | `EventsAreKept`, `RecordsAreProvable`, `QueriesAreComplete`, `ContainersAreKnown` |
| `CommandsAreSafe` | `SingleRun`, `StackMatchesCompleted`, `LoggedBeforeCheckpointed`, `DependenciesRecorded`, `RunningHasRun` |
| `CredentialsHold` | `RevokedNeverValidates`, `OverrideIsEarned` |
| `DecisionsHold` | `AllowedIsDecided`, `StalenessIsBounded` |
| `OutsideIsServed` | `UpdatesAreHandled`, `BridgeIsSpared` |
| `StoresAreRight` | `SuspendedHoldsNothing`, `OneTaskPerKey`, `MemoryIsTable`, `StatisticsAreSound` |
| `ChoresAreDone` | `ExpiredIsRevoked`, `TasksSettle`, and `Loaded` again and again |
| `EveryAnalysisEnds` | `SortEnds`, `ScenariosEnd` |
| `AnalysesAreRight` | graph: `GraphIsRead`, `MeasuresAreRight`; blast radius: `CascadesAreTraced`, `NothingIsHidden`; shadow: `ShadowIsExplained`, `ShadowVerdictsAreEarned`; simulation: `SimulationsAreHonest`; attack: `IterationsAreSound`, `RecommendationIsCautious`; versions: `ChecksumsAreTheirOwn`, `CirclesAreFound`, `VerdictsAreOfTheSteps` |
| `ChecksHold` | compensations: `CheckersAgree`, `StrictnessTakesAway`; score: `ProductionIsStricter`, `FailuresNeverHelp` |
| `GrantsHold` | `DelegationsHold`; access: `GrantsAreRead`, `RulesDecide`; federation: `TablesAgree`, `TimersAreHeld`; identities: `NoLostColumns`, `HistoryAccountsForSerials`; family: `ChildrenAreYounger`, `DescentEnds`, `OrderlyFamiliesAgree`; credentials: `NothingAfterTheEnd`, `HeldUntilTheEnd`, `StatisticsAreOfRows`; schema: `SchemaIsWhole`, `UpFindsAll`, `AloneComesUp` |
| `JudgementsHold` | vote: `VoteIsBacked`, `DissentIsReported`; gate: `MoreConfidenceIsNeverWorse`, `RejectionsAreKept`; telemetry: `OneTimerTicks`, `SnapshotsAreOfTheWindow`; guards: `AttacksAreBlocked`, `ChecksAreSteady`, `RateIsOfTheMinute`; conflicts: `ResolutionsDecideNothing`, `ShadowedIsWider` |
| `TrustIsRight` | filter: `RedactedIsGone`, `VerdictIsOfTheScan`, `PatternsFollowConfig` |

`NhiLifecycle` has one identity in the run, because identities meet only in the kill switch and in
the monitor's timer, which visit them one by one; with two identities the same properties hold
(665,858 states), at the price of most of the run's time.

The six violated properties are what the documentation or a comment says; `findings` in
`PROJECT.json` quotes it:

* A cancelled workflow comes back: the run in flight writes its own object, status `running`, at
  the next checkpoint, and may even report `completed` when its last step was in flight. A pause
  is overwritten in the same way. What does hold is `CancelledRunNeverCompletes`: a run that is
  cancelled before its last step stops at the next one.
* Recovery looks for `running` only: a workflow that died while compensating stays
  `compensating`. Nor is anything compensated for a workflow that recovery marks `failed`.
* A workflow approved over the API never starts: the audit record between the approval and the
  start has 25 columns and 24 placeholders (`audit/index.ts:129`), so it throws, and the row stays
  `pending`. `AuditAnswers = {FALSE}` is the code of this commit; the other runs of the routes allow
  the record to succeed as well, so that they say something about the code behind it.
* A plan approved in a chat is not executed: the workflow that would execute it is a second one,
  which awaits its own approval.
* A task that waits for its review is executed without one when it is triggered.
* "Deny high-risk operations in production" denies the others: the threshold of the rule is the most that
  it applies to. "Require approval for high blast radius" has the same inversion (`workload-iam.ts:437`).

Met while modelling, and excluded by no property that the code or its documents state: a step may
take effect twice, because retries carry no idempotency key; a CLI command marks the workflows of
a live server failed; a rejection at a step approval ends a Temporal run without compensation;
`minApprovals` is always 1, because the policy engine does not hand on the approval configuration;
nothing reports usage to the budget; a denial throws past the audit event (`EnforcementProxy.ts:375`);
overlapping flushes may reorder the audit file; a revoked machine identity can be suspended and then
resumed, or is made active again by the rotation it interrupted.

Met while modelling, against a comment, and stated by no property: the checksum of a plan does not see
what its steps are (`planner/index.ts:604`), and neither does a version's risk follow from its own; a falling
confidence is not reported as a negative drift (`confidence-telemetry.ts:65`); a pause, a rejection or a
`/cancel` in a chat beside a live run is written over by it, like the cancellation of `routes_cancel`;
a failed append leaves audit events twice, and one of them unreadable.

Met in the parts of `analysis`, where nothing states the contrary: any plan of up to three steps with
a dependency is told to be blocked, while four injected failures without recovery may still be told
to proceed; a model that never answers stops the vote, and with no API key the heuristic alone is
fewer than `minModels`, so the vote throws; adding a mild violation lowers the score of an output,
and a scan that only finds schema violations reports a redaction that alters nothing; `updateConfig`
of the filter keeps the old patterns until `initialize`, which drops those that were added; children
of a revoked delegation stay valid, and a depth begins again below a revoked parent; two rotations
may record the same old serial; re-federating without synchronization leaves the old timer; an agent registered before its parent is missing from that parent's children; templates
of policies that read `intent.parameters` never match.

A deadlock is an error in the runs of the engine, the routes and the CLI: late calls that are
still to land, cancellation (always possible) and restarts keep them live. The sort and the
simulations stop when they are done, and the other components of `services`, `platform` and
`analysis` when their bounds are used up; those runs switch the deadlock check off.

## 5. Fairness

`FairRoutesSpec` assumes weak fairness of `Handler(r)` and `Wakeup(r)` for each run. The first is
the event loop: a handler that holds the thread goes on. The second is that each wait ends: the
step timeout and the backoff are timers, and the executor races every call, a compensation too,
with a timer of its own. Which outcome a call has is not subject to fairness. No fairness is
assumed of requests, crashes or restarts. `FairCliSpec` is the same beside a command line, of which
nothing is assumed: a command may stop anywhere.

In `analysis` the sort is a synchronous call (`WF_vars(part = "sort" /\ Next)`), and a shadow
execution awaits only its own timer (`Proceeds(c)`). Elsewhere: timers that are set fire (`TimersFire` of approvals, the flush timer, the clocks of the
executor and of the guard, the sweep of session memory, the monitor of identities); what a call
awaits comes back, with whatever answer (`ResilientFairness` only for calls that have begun,
`GuardFairness`, `AutomationFairness` for requests); a process that has begun a
row of statements on the registry goes on with the next (`Statement`); workers poll. Strong fairness
is assumed three times: not every write of the audit file fails for ever, a task that is put off
becomes due although workers keep taking it, and the monitor's timer fires although operations
come and go. `NhiFairness` also has `[]<>(resuming = {} /\ killing = {})`: promise callbacks run before
timers, so the event loop does reach its timers with none left. A Temporal run makes progress, which is what a
worker is for. `ReliableSpec` of the channels assumes in addition that messages are delivered, so
that `channel_execute` does not blame the network.

## 6. Proofs

All theorems hold for every value of the constants that satisfies the named assumptions: any number
of workflows, runs, steps, retries and crashes, and every plan. For the engine these are
`PlanAssumption` (the plan's fields have their types), `OptionsAssumption` and `RunsAssumption`, for the
routes `PlannerAssumption` and `RouteOptions` too; every other component has one, named after it, that
types its constants and, where the code has somebody to act at all, says that a set is not empty or a
bound not zero.

* **Engine.** `EngineInv` is `TypeOK`, `StackMatchesCompleted`, `LoggedBeforeCheckpointed`,
  `RunningHasRun` and three parts that make them inductive. `Coherent`: the thread is held by
  exactly the run that does not wait, a dead process has no live run, and where a run is tells
  what its object looks like. `ObjectsWellFormed`: the objects of runs are as well formed as the
  rows, since they become rows at the next write. `LoggedByRuns`: a run's object claims only
  recorded steps, and the step it is about to checkpoint is recorded. The proof has a lemma per
  concern (what a run writes, when the log grows, how an object changes) and one step per action.
  `DependenciesComeFirst` follows from `Coherent` and `LoggedByRuns`.
* **Routes.** Every routes step keeps `EngineInv` (a start through a route is an engine start), and
  `RoutesInv` adds `SingleRun`, `RowOwned` and `LogCaughtUp`. `RowOwned`: the row of a live run is
  in no status from which a route would start it, although it may say `cancelled` or
  `compensating`; this is why a second run is impossible in spite of the weak check in
  `startWorkflow`, which alone allows two (the engine run does reach that). `LogCaughtUp`: rows
  that may still be started, and runs going forward, know every recorded step. With a crash
  between record and checkpoint the row falls behind the record, but then it is `running`, and
  recovery makes it `failed`, which no route starts.
* **Compensation.** `UndoInv` comes on top: a run that compensates has called each entry of its
  stack above `undo` once and none below (`UndoneDown`); no other live run, and no row that could
  be started, belongs to a workflow of which anything was called; and a run that fails knows every
  step on record. `CompensatedOnce` is a part of it. `FailureIsUndone` needs one fact more: a run can
  also fail because a dependency is missing, and then it compensates nothing; for a plan of the
  planner (`PlannerAssumption`) that branch is dead.
* **Cancellation.** `CancelledRunsStop`: a run that was told to stop before its last step is, whenever
  all of its steps are done, back at the head of the loop, where it sees the signal (`CutShort`), and
  nothing takes the signal back; so the row it writes last is never `completed`.
* **Saga.** `WorkflowsAreSagas` is the refinement. The steps on record are `1 .. k` (`LogIsPrefix`),
  so that a record is one `Advance`; what still stands is the part of the stack below `undo`, so that
  a call is `UndoLatest`; a crash is one `Stop` of every workflow that somebody works on; the writes of
  rows, approvals, retries and checkpoints are stutters, and a rejection, or an approval that starts
  nothing, is a `Stop`. One lemma per kind of step.
* **Temporal workflow.** `TemporalInv` types every run and says of one that awaits an approval that the
  flag it waits for was cleared when it began to ask: `ApprovalsAreFresh` needs that, because a signal
  may come at any time and only the handler sets the flag. `RunsAreSagas` is the second refinement of
  `Saga`: the stack of a run is the steps that stand, a closed run has none or says so, and each action
  on a run is one step of that run's saga and a stutter of all others.
* **Sort.** `SortInv`: visited steps are in progress or in the order, once; what a visit has
  looked at is visited; along the call stack ranks go down (`PathDescends`), so that a dependency
  met on the stack contradicts acyclicity. Acyclicity is stated with a rank function.
* **Chats.** `RejectionIsFinal`: who begins a run of a cancelled row would be a handler, and a handler starts
  only the workflow that it has just made (`ToBeMade`), or the route of the API, which asks for
  `awaiting_approval`. What a handler makes and starts is of a plan without approval, because only a plan
  with approval has buttons to press (`AnnouncedWithApproval`, `ExecutedWithoutApproval`); of all others a
  run begins from `awaiting_approval`. (`ChannelAssumption`)
* **Executor.** `CompletedMeansLanded`: as long as no attempt of a step has landed, no call has it as its
  result, no record says so, and nobody waits with such an answer in hand. The breaker and the limiter
  are typed on the way, and have no part in it.
* **Automation.** `KeysAreUnique`: besides the committed rows the invariant speaks of the transactions
  that are open. The unique index makes an insert wait for, or fail on, another with its key, so a key
  is in one task or in one open insert, never both.
* **Isolated memory.** `NothingPurgedIsRead`: numbers of writes only grow, a purge notes the last one,
  and whatever a namespace holds, also one that a caller kept or that a new one has taken the
  identifier of, was written later.
* **Registry.** `RegistryInv` reads the list of statements that each process has still to execute: memory,
  with what is to be set and deleted, is the table (`CatchingUp`), unless start-up has still to load it
  (`StartingUp`) or another process has changed it since it was read (`stale`). Of the statistics it counts the
  processes that have still to count a word or an entry (`CountsAreDue`): what is counted and what is due
  are together no more than the entries, and a total that was read has room for all that are due, so
  a process that writes over another's total makes it less, never more. A fault only takes away
  what was due (`CountsDropped`). (`RegistryAssumption`)
* **Identities.** `SuspendedHoldsNothing` is inductive with the types: grants go in the step that takes
  the identity out of service, and a rotation that returns looks at the state again.
* **Tokens and approvals.** `TokenInv`: what cleanup forgets has expired by then, so a revoked token
  never validates again; refresh tokens die with their session. `ApprovalInv`: the votes of a request
  that is decided do not change, and a token exists only where they sufficed.
* **Proxy and policy.** `ProxyInv` counts: recorded calls, and those admitted and not yet recorded, are
  together at most the limit and the calls under way; that is a sum over a finite set, and most of
  the work. `PolicyInv`: an entry of the cache is no older than what was loaded when it was asked for.
* **Intents and plans.** `PipelineInv`: an intent is told to a client, or planned in the same call, only
  if it was allowed; a plan is of such an intent and asks for approval if the intent does.
* **Telegram.** `BotInv`: a batch is a stretch of updates without a gap, and what comes before its
  first one was begun (`NothingSkipped`). As long as no two loops met in a process it was handled to
  its end as well, the loop asks from the offset on, and an update ahead of the offset has had no run
  since the last crash (`HandledInTurn`), so each crash adds one run to a message and nothing else does.
* **Zapier bridge.** `ZapierInv` counts requests, in the present window and in a stretch as long as one
  before it: the bucket bounds the first by what it has spent, and two windows bound any stretch.
* **Builds.** `BuildInv`: where the process of a build is tells which container it can have, and whether
  the build knows of it.
* **Gateway memory.** `ParserInv`: a session is pending as long as the chain has no end of it, and the
  call that was told which reading was selected is the only one at work on it. `VersioningInv`: numbers
  go up as long as none but the first version is made by "created". `RbacInv` keeps table and index in
  step; that the permissions of an identity are closed needs induction (below): a walk over parents
  adds a role in each round until it stops, so that it has stopped after as many rounds as there are
  roles. `SandboxInv`: a verdict in the cache was right when it was given, and its key is there once.
* **Audit log.** `AuditInv` adds to `EventsAreKept` that nothing is lost before the end, and that every
  unreadable line, and the cut one at the end of the file if there is one, has a failed append of its own
  (`CutsAreCounted`). That `EventsAreKept` names *places* is what makes it inductive: lengths that add up
  would allow an event twice and another nowhere.
* **Recorder.** `ReplayInv`: each artifact follows the one recorded before it, its time is not before
  that one's, and what is cached under a hash, or under none, is that of the last artifact recorded with it, unless
  that one has expired, with all before it. What two artifacts in succession in the sorted chain say then decides of all of it
  (`ChainTells`), and the nearest one in time exists because a set of numbers has a least (`NearestIs`).
* **Index.** `IndexInv`: the maps by workflow and by actor are the list, filtered; numbers go up along
  the list, and of two entries with numbers in succession the second follows the first if that was
  found when it came. A query that begins with a map is then a filter of a filter (`KeptOfKept`), and
  compaction keeps order and succession (`KeptAscends`). (`AuditIndexAssumption`)
* **Schema.** `SchemaInv`: the recorded versions are `1 .. k` (`Prefix`); a process that migrates
  has behind it what is in the file (`BehindIsApplied`), although another may be ahead of it; and
  one that overlaps no other finds nothing in the file that it has not put there
  (`OverlapIsNoted`), so nothing refuses it. (`MigrationsAssumption`)
* **Families.** A record is younger than all others when it is made, and is listed from that moment
  on: `ChildrenAreYounger` is inductive together with its types, and so everybody in
  the generations below an agent is younger than it, and nobody is below itself (`DescentGoesOn`). `FamilyInv` adds `IsForest` while each agent is registered once and after its parent:
  a child is listed once, by its parent, and is one deeper. A function that says where each agent is
  after n steps up (`ClimbExists`) then describes both walks: the ancestors are its values, in turn
  (`AncestorsAre`), and the n-th generation is made up of those whom n steps bring to the agent, each
  once (`LevelIsBelow`). A generation is a concatenation of lists of children, of which one element tells
  where it comes from (`FlattenedIs`). (`FamilyAssumption`)
* **Command line.** `CliInv` adds to `EngineInv` and `SingleRun` two parts. `NotHandedOver`, weaker
  than `RowOwned`: the row of a live run says neither `absent` nor `awaiting_approval`. Of all that
  another process may write, this is what must not change, and `RowMayBeWritten` is the
  lemma for any such write. `SnapshotIsOld`: what a command has read was a well-formed row with all of
  its steps on record. The server's own steps keep both (`ServerKeeps`), from the proofs of the routes.
* **Delegations.** `DelegationInv`: what is no longer active, or is due to be revoked, is refused or has
  lapsed; and each token is under an earlier one whose limit it is within, if that has one. The walk over
  children collects the set of what is to be revoked, so no induction over the tree is needed.
  (`DelegationAssumption`)
* **Access rules.** `AccessInv`: the list holds the rules that were registered and not removed, each once,
  by priority and then by number. Each rule is put where as many others come before it
  (`SortedPlace`), which is a place for each because a finite set has as many elements before different
  ones of a strict order as there are (`CountingOrders`, used for the conflicts as well). The first that
  applies is then the least of those that match. (`AccessAssumption`)
* **Federation.** `FederationInv`: the three tables name the same domains, each bundle kept has the hash
  it says, and each timer that ticks is one that a domain still holds, which is not the same as the timer of
  its last federation. (`FederationAssumption`)
* **Identity table.** `RegistryInv` says of each call under way what it has read: columns that it will
  write back unchanged are those of the row now, because the other writers write other columns or wait for
  its lock; a rotation has recorded the serial that the row had then. (`RegistryDbAssumption`)
* **Vote.** `VoteInv`: answers have confidences, none is awaited once the vote is taken, and of the result
  what is claimed. The sums run over the list of providers; sums of two lists whose elements compare by a
  factor compare by the same factor (`SumsCompare`), which puts a weighted mean between the least and the
  most that is averaged. A winner exists because of the places that answered, taken one by one, one is
  best (`BestExists`), and an action that everybody backs is the only one. (`VoteAssumption`)
* **Gate.** `GateInv` types the thresholds only: `MoreConfidenceIsNeverWorse` is a matter of the order in
  which `evaluate` asks, for any thresholds, with the thresholds in order where it compares risks. What
  is kept of rejections is an end of all (`EndOf`), whatever they hold. (`GateAssumption`)
* **Telemetry.** One timer ticks because a start clears the one before. `TelemetryInv` says besides that
  the list of metrics is an end of all that was recorded (`EndOf`), so that counting from the end puts each
  place of the window at one of the whole list, and the count is no more (`WindowWasRecorded`); and that
  every snapshot kept is right. Its sorted confidences are order statistics: the i-th is the least that i
  of them do not exceed, so they ascend (`SortedConfidencesAscend`) and so do the percentiles. (`TelemetryAssumption`)
* **Filter.** `DlpInv`: the types, and of the last scan what is claimed. What is found is a finite set, put
  in the order in which it is dealt with by counting what comes before each (`CountingOrders` again), and the
  text that is left is a walk over that list (`StepsExist`). Along the walk one of two things holds. If one
  pattern cuts, its matches do not overlap and are cut from the end, so that what is before the next cut
  is still the text as it came. If every mask is as long as what it covers, offsets are those of the text
  as it came, whichever patterns cut. Either way what is left are the cells in no finding so far, in their
  order, and stars. Where neither holds nothing is claimed, and nothing could be. The assumption says of
  matches that those of one pattern lie apart, as `exec` finds them, and of patterns that nobody adds a
  default one, which the module does not export. (`DlpAssumption`)
* **Guards.** `GuardsInv`: the times that are kept do not decrease, and none that was recorded within the
  minute is missing: what is dropped is a front part that is outdated. A block follows from the worst sign
  or from the score, which is a mean of at least 30 and at most 100 by adding up severity by severity; with
  more in the prompt, the worst sign is no less. (`GuardsAssumption`)
* **Credentials.** `VaultInv`: a row says what was issued; what is gone has expired; and a process that
  has issued something without a configured key still has the key it made. (`VaultAssumption`)
* **Compensations.** What the two checkers say is a function of a plan, so only types are needed of its
  past. The issues of a plan are a finite set, however many steps and rules there are (`IssuesAreFinite`),
  and so are counted by severity; a share is 100 percent only of what is all compensated, for which the
  rounding of the division is bounded (`SharesAreCovered`); and a score is clamped whatever it adds up to
  (`ScoresAreClamped`). `StrictnessTakesAway` compares the two answers about the same step.
* **Scores.** `ScorerInv` types the record; the rest is about any record. A score is a clamped sum, of
  which the environment is a summand of its own: it goes up to production, and the thresholds, which
  are rounded, go down (`ThresholdsDescend`). What a user did is picked out by a walk over the record; two
  records that differ in a success have walks that differ in it only (`WorseOfOne`), so trend and anomaly,
  which look at levels, are the same, and what looks at successes is worse: the share of failures
  (`SharesAscend`) and trust, for which the two judgements exclude each other. Of an action of somebody
  else the walk takes no notice (`OthersDoNotMatter`). (`ScorerAssumption`)
* **Conflicts.** `ConflictsInv`: every rule of the table comes from the table that was analysed, and says
  the same (`FromAnalysis`); and what any enabled rule of that table says, some enabled rule still says
  (`SaysAll`), as long as copies are enabled alike. A verdict is the strictest that enabled matching rules
  say, so it is the same. The sort is by rank, for which a finite set of numbers is counted, and the
  shadowing rule is found before the shadowed one in any table. (`ConflictsAssumption`)

`ServicesSpec` and `PlatformSpec`, the specifications of two runs, and `TrustSpec`, of which the third, `AnalysisSpec`, is a
special case, put components side by side. A lemma
for each component says that its invariant holds there, because a step of the composition is a step or
a stutter of the component; `CredentialsAlwaysHold`, `DecisionsAlwaysHold`, `OverrunStaysBounded`,
`PolicyIsFollowed`, `OutsideIsAlwaysServed`, `ContainersStayKnown`, `GatewayAlwaysRemembersRight`,
`RecordsStayComplete`, `ServicesTypes`, `PlatformTypes`, `StoresStayRight`, `GrantsAlwaysHold`,
`JudgementsAlwaysHold` and `TrustAlwaysRight` follow from those lemmas, and say of every
instance what the runs check of one. The last of them is the types of all parts of `Trust`, which for the access
rules, the vote, the guards and the conflicts are invariants of their own, and what is promised of the filter.

The induction theorems of the library take an operator, which no prover here can instantiate. A few
lemmas do without: a set of numbers that is not empty has a least one (`LeastNumber`, from the
well-foundedness of `Nat`), so a set with 0 that has with each number the next has all
(`FromZeroOn`), and a recursive function over `0 .. n` exists (`WalkExists`, `SumsExist`, `StepsExist`). A set of lists that has
the empty one, and with a list the one with one more element, has all lists (`ListsFromEmpty`): so
a filter is reasoned about by what one more element does to it (`KeptAppend`).

Model-checked only:

* liveness (`RunsEnd`, `EveryAnalysisEnds`, `RequestsSettle`, `TimedRunEnds`, `ExecutionReturns`,
  `CircuitRecovers`, `ChoresAreDone`), which is out of the prover's reach;
* `AnalysesAreRight`: reachability, cascades and circles are recursive over the plan, or
  folds, and what those compute for every input needs induction over data; `Simulations` and
  `ResourceGraphs` declare RECURSIVE operators;
* beside a command line: what `CommandsAreSafe` does not say (`NoRedispatch`, `Saga`) does not hold.

Every property of a passing run has a mutant: a definition with `Mutation:` in its comment, next to
the one it would replace, and never part of a specification. TLC finds the property violated with
the mutant in place, so the property does depend on the code.

## 7. Not modelled, and why

`PROJECT.json` lists every component. Left out for good: text (what a model reads in it, regular
expressions, formatting), adapters and the other HTTP clients, reports and metrics (observability,
compliance), configuration, the browser frontend, knowledge, memory and ontology stores: they have no
interleaving of their own and decide nothing in the engine. Of the gateway's policy tools the
analytics, inheritance, exceptions, impact analysis, compliance maps and test suites are left out:
each reads the same tables once and reports. Of identity, certificates, attestation, the SPIRE agent
and mutual authentication are protocols with external services. The Python services for approvals,
leases, events, identities and policies cannot be imported at this commit: their tables declare a
column `metadata`, a name that SQLAlchemy reserves (`approval.py:115`, `lease.py:104`, `event.py:199`,
`agent.py:162`), so they have no behaviour. `validatePlan` of the planner has no caller, so the
engine's models do not rest on it; the plans it would be asked about are acyclic because the planner
drops dependencies on later steps (`VerdictsAreOfTheSteps`). A crash between approval and start leaves a row `pending` that no route starts
again; the model has this state and no promise about it. Two browser requests that reach one
process are taken to run one after the other up to their first real wait.
