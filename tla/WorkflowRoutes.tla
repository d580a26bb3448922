--------------------------- MODULE WorkflowRoutes ---------------------------
(***************************************************************************)
(* The engine as the HTTP API drives it (src/src/api/routes.ts): a plan is *)
(* executed by creating a workflow and, when no approval is asked for,     *)
(* starting it in the same request; an approval starts it; workflows are   *)
(* rejected and cancelled.  No route pauses or resumes.  Between its write *)
(* and its start a route records an audit event, and a record that throws  *)
(* ends the request.                                                       *)
(***************************************************************************)
EXTENDS WorkflowEngine

\* How auditLedger.record may end, TRUE for a stored event.  The statement of
\* this version (src/src/audit/index.ts) lists 25 columns and 24 values, so
\* the build only ever has FALSE; with the statement repaired the routes have
\* both.  The chat channels start workflows without an audit record.
CONSTANT AuditAnswers

AuditRecorded == TRUE \in AuditAnswers
AuditThrows == FALSE \in AuditAnswers

ASSUME AuditAssumption == AuditAnswers \in (SUBSET BOOLEAN) \ {{}}

\* What the planner makes of every plan (src/src/planner/index.ts): steps only
\* depend on earlier ones, and a step that needs approval makes its plan need
\* it (steps with a high risk raise maxRisk above low).
ASSUME PlannerAssumption ==
    /\ \A s \in Steps : Deps[s] \subseteq 1 .. s - 1
    /\ \A w \in Workflows : StepApproval[w] # {} => w \in PlanApproval

SkipApproval == [skipApproval |-> TRUE, dryRun |-> FALSE]

ASSUME RouteOptions == {SkipApproval, NoOptions} \subseteq Options

\* The audit event is on record, and the handler goes on without waiting for
\* anything; a crash may come between its write and the start.
HandOver(r, w, o) ==
    /\ AuditRecorded
    /\ pc[r] = "new"
    /\ Goto(r, "starting")
    /\ of' = [of EXCEPT ![r] = w]
    /\ opts' = [opts EXCEPT ![r] = o]
    /\ thread' = r
    /\ UNCHANGED <<stepLog, controllers, mem, pos, attempt, result, undo, aborted, server, world>>

ExecuteAndStart(r, w) ==
    /\ Idle /\ w \notin PlanApproval
    /\ row[w].status = "absent"
    /\ Rewrite(w, NewStatus(w))
    /\ HandOver(r, w, SkipApproval)

\* POST /plans/:planId/execute only creates when the plan needs approval, and
\* when the audit record throws.
ExecuteAndWait(w) ==
    /\ w \in PlanApproval \/ AuditThrows
    /\ Create(w)

\* Mutation: the approval does not look at the status.
ApproveAnything(r, w) ==
    /\ Idle
    /\ row[w].status # "absent"
    /\ Rewrite(w, "pending")
    /\ HandOver(r, w, NoOptions)

\* POST /workflows/:workflowId/approve with decision `approved'.
ApproveRoute(r, w) ==
    /\ Idle
    /\ row[w].status = "awaiting_approval"
    /\ Rewrite(w, "pending")
    /\ HandOver(r, w, NoOptions)

\* The approval is written, the audit record throws, and nothing starts.
ApproveUnstarted(w) == AuditThrows /\ Approve(w)

StartRun(r) == Holds(r) /\ pc[r] = "starting" /\ Begin(r, of[r], opts[r])

Handler(r) == RunStep(r) \/ StartRun(r)

RoutesNext ==
    \/ \E r \in Runs : Handler(r) \/ Wakeup(r)
    \/ \E r \in Runs, w \in Workflows : ExecuteAndStart(r, w) \/ ApproveRoute(r, w)
    \/ \E w \in Workflows :
          ExecuteAndWait(w) \/ ApproveUnstarted(w) \/ Reject(w) \/ Cancel(w)
    \/ Process

RoutesSpec == Init /\ [][RoutesNext]_vars

\* The event loop runs a handler that can go on, and every wait ends: the
\* step timeout and the backoff are timers, and the executor races each call,
\* a compensation too, against a timer of its own.
Fairness == \A r \in Runs : WF_vars(Handler(r)) /\ WF_vars(Wakeup(r))

FairRoutesSpec == RoutesSpec /\ Fairness

-----------------------------------------------------------------------------
(* Safety                                                                  *)

\* Two runs never work on the same workflow, although startWorkflow itself
\* only refuses rows that say `running', and a live run's row may say
\* `cancelled' or `compensating'.
SingleRun ==
    \A r, q \in Runs : Live(r) /\ Live(q) /\ of[r] = of[q] => r = q

\* A step whose completion was recorded is never handed to the executor
\* again, over any sequence of approvals, failures and restarts.
NoRedispatch ==
    \A r \in Runs : pc[r] = "call" => pos[r] \notin stepLog[of[r]]["completed"]

\* No compensation is called twice.
CompensatedOnce == \A w \in Workflows, s \in Steps : undoCalls[w][s] <= 1

\* A run that ends in `failed' has compensated every completed step that can
\* be compensated.
FailureIsUndone ==
    [][\A r \in Runs :
          Live(r) /\ pc'[r] = "ended" /\ up' /\ mem'[r].status = "failed" =>
              \A s \in Compensable \cap stepLog'[of[r]]["completed"] :
                  undoCalls'[of[r]][s] > 0]_vars

\* A run that was cancelled before its last step never reports the workflow
\* as completed: the abort signal is seen at the next step at the latest.
CancelledRunNeverCompletes ==
    \A r \in Runs : [](aborted[r] /\ pos[r] < N => [](mem[r].status # "completed"))

-----------------------------------------------------------------------------
(* Liveness                                                                *)

\* A run always ends, whatever the executor does.
RunsEnd == \A r \in Runs : Live(r) ~> pc[r] = "ended"

-----------------------------------------------------------------------------
(* Refinement: every workflow is a saga                                    *)

Runner(w) == CHOOSE r \in LiveOn(w) : TRUE

\* The record of a step is its completion; compensation begins when the
\* `compensating' row is about to be written.
SagaPhase(w) ==
    IF LiveOn(w) # {}
    THEN CASE pc[Runner(w)] = "starting" -> "idle"
           [] pc[Runner(w)] \in {"compensate", "undo", "undoing"} -> "backward"
           [] OTHER -> "forward"
    ELSE IF row[w].status \in {"absent", "awaiting_approval"} THEN "idle" ELSE "ended"

Sagas == INSTANCE Saga WITH
    phase  <- [w \in Workflows |-> SagaPhase(w)],
    done   <- [w \in Workflows |-> Cardinality(stepLog[w]["completed"])],
    undone <- [w \in Workflows |-> {s \in Steps : undoCalls[w][s] > 0}]

ImplementsSaga == Sagas!SagaSpec

-----------------------------------------------------------------------------
(* What the documents say and the engine does not do                       *)

\* "Cancel a running workflow" (workflow/index.ts): a workflow reported as
\* cancelled stays cancelled.  The run in flight writes its own object back.
CancelSticks ==
    [][\A w \in Workflows : row[w].status = "cancelled" => row'[w].status = "cancelled"]_vars

\* "Recover any interrupted workflows" (workflow/index.ts): once the server
\* is up again, no row claims work that no run is doing.
InterruptedRecovered ==
    up => \A w \in Workflows :
              row[w].status \in {"running", "compensating"} => LiveOn(w) # {}

\* "Approve a workflow or step" (workflow/index.ts): after an approval the
\* workflow comes to execute a step, unless it is stopped from outside.  The
\* approval route throws at its audit record, before it starts anything.
ApprovalTakesEffect ==
    \A w \in Workflows :
        row[w].status = "pending" ~>
            \/ stepLog[w]["completed"] \cup stepLog[w]["failed"] # {}
            \/ row[w].status = "cancelled"

-----------------------------------------------------------------------------
(* The inductive invariant behind SingleRun and NoRedispatch               *)

Unstarted == {"absent", "awaiting_approval", "pending"}

\* The row of a live run is none that a route would start: it is `pending'
\* only between the approval and the start.
RowOwned ==
    \A r \in Runs : Live(r) =>
        IF pc[r] = "starting" THEN row[of[r]].status = "pending"
                              ELSE row[of[r]].status \notin Unstarted

\* A row that may still be started, and the object of a run that goes forward,
\* know every step on record; only the step being settled is ahead of it.
LogCaughtUp ==
    /\ \A w \in Workflows : row[w].status \in Unstarted =>
          stepLog[w]["completed"] \subseteq row[w].completed
    /\ \A r \in Runs :
          /\ pc[r] \in {"loop", "call", "backoff", "record"} =>
                stepLog[of[r]]["completed"] \subseteq mem[r].completed
          /\ pc[r] = "settle" =>
                stepLog[of[r]]["completed"] \subseteq mem[r].completed \cup {pos[r]}
=============================================================================
