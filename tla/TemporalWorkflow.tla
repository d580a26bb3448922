-------------------------- MODULE TemporalWorkflow --------------------------
(***************************************************************************)
(* The durable variant of the workflow engine: planWorkflow, the engine    *)
(* that starts and signals it, and the row the engine keeps beside it.     *)
(* Temporal replays the workflow code after a crash, retries an activity   *)
(* that throws until it answers, and delivers signals one at a time; a     *)
(* closed workflow may be started again under the same id as a new run.    *)
(* Steps are numbered in the execution order.                              *)
(***************************************************************************)
EXTENDS Naturals, Sequences

CONSTANTS
    MaxRuns,        \* executions of one workflow id
    Steps,          \* number of steps of the plan
    ApprovalSteps,  \* steps with approvalRequired
    Undoable,       \* steps with a side effect and a compensation action
    Large           \* the plan travels by reference, as a stored payload

ASSUME TemporalAssumption ==
    /\ MaxRuns \in Nat /\ Steps \in Nat
    /\ ApprovalSteps \subseteq 1 .. Steps /\ Undoable \subseteq 1 .. Steps
    /\ Large \in BOOLEAN

RunIds == 1 .. MaxRuns
PlanNeedsApproval == ApprovalSteps # {}   \* the planner raises it to the plan

VARIABLES
    started,   \* runs started so far: the last one is the only one not closed
    exec,      \* of each run, the local variables of planWorkflow
    savedRow,  \* status in the workflows table, or "none"
    heard      \* of each run, an approve signal came since it began to wait

temporalVars == <<started, exec, savedRow, heard>>

NewExec == [pc |-> "unborn", at |-> 0, approved |-> FALSE, rejected |-> FALSE,
            skip |-> FALSE, timed |-> FALSE, outcome |-> "none",
            stack |-> <<>>, compensated |-> {}]

TemporalInit ==
    /\ started = 0
    /\ exec = [r \in RunIds |-> NewExec]
    /\ savedRow = "none"
    /\ heard = [r \in RunIds |-> FALSE]

Closed(r) == exec[r].pc = "closed"
Open(r) == r \in 1 .. started /\ ~Closed(r)
At(r, pc) == Open(r) /\ exec[r].pc = pc

CloseAs(r, outcome) == exec' = [exec EXCEPT ![r].pc = "closed", ![r].outcome = outcome]

\* startTemporalWorkflow: an open run of the id is left alone, and the new
\* options with it.
StartRun(skip, timed) ==
    IF started > 0 /\ ~Closed(started) THEN UNCHANGED <<started, exec>>
    ELSE /\ started < MaxRuns
         /\ started' = started + 1
         /\ exec' = [exec EXCEPT ![started + 1] =
                        [NewExec EXCEPT !.pc = "begin", !.skip = skip, !.timed = timed,
                                        !.approved = ~PlanNeedsApproval]]

CreateWorkflow ==
    /\ savedRow = "none"
    /\ savedRow' = IF PlanNeedsApproval THEN "awaiting_approval" ELSE "pending"
    /\ StartRun(FALSE, TRUE)
    /\ UNCHANGED heard

StartWorkflow(skip, timed) ==
    /\ savedRow # "none"
    /\ StartRun(skip, timed)
    /\ savedRow' = "running"
    /\ UNCHANGED heard

\* The handlers of the two signals, at any moment of an open run.
ApproveSignal(r) ==
    /\ Open(r)
    /\ exec' = [exec EXCEPT ![r].approved = TRUE]
    /\ heard' = [heard EXCEPT ![r] = TRUE]
    /\ UNCHANGED <<started, savedRow>>

RejectSignal(r) ==
    /\ Open(r)
    /\ exec' = [exec EXCEPT ![r].rejected = TRUE]
    /\ UNCHANGED <<started, savedRow, heard>>

\* A cancellation is thrown at whatever the run awaits, and not caught.
CancelHandle(r) == Open(r) /\ CloseAs(r, "aborted") /\ UNCHANGED <<started, savedRow, heard>>

\* The plan's payload is fetched, and the plan's own approval awaited.
BeginPlan(r) ==
    /\ At(r, "begin")
    /\ \/ Large /\ CloseAs(r, "aborted")     \* the payload is gone
       \/ exec' = [exec EXCEPT ![r].pc =
             IF PlanNeedsApproval /\ ~exec[r].skip THEN "waiting" ELSE "steps",
             ![r].at = IF PlanNeedsApproval /\ ~exec[r].skip THEN 0 ELSE 1]
    /\ UNCHANGED <<started, savedRow, heard>>

\* Mutation. The flag of the last approval is not reset.
NextStepOnOldApproval(r) ==
    /\ At(r, "steps") /\ exec[r].at <= Steps
    /\ exec' = [exec EXCEPT ![r].pc =
          IF exec[r].at \in ApprovalSteps /\ ~exec[r].skip THEN "waiting" ELSE "activity"]
    /\ heard' = [heard EXCEPT ![r] = FALSE]
    /\ UNCHANGED <<started, savedRow>>

\* The head of the loop: an approval given earlier does not count for a step.
NextStep(r) ==
    /\ At(r, "steps") /\ exec[r].at <= Steps
    /\ IF exec[r].at \in ApprovalSteps /\ ~exec[r].skip
       THEN /\ exec' = [exec EXCEPT ![r].approved = FALSE, ![r].pc = "waiting"]
            /\ heard' = [heard EXCEPT ![r] = FALSE]
       ELSE exec' = [exec EXCEPT ![r].pc = "activity"] /\ UNCHANGED heard
    /\ UNCHANGED <<started, savedRow>>

Finished(r) ==
    /\ At(r, "steps") /\ exec[r].at > Steps
    /\ CloseAs(r, "completed")
    /\ UNCHANGED <<started, savedRow, heard>>

\* waitForApproval returns on a signal.  at = 0 is the plan's approval.
SignalWins(r) ==
    /\ At(r, "waiting") /\ (exec[r].approved \/ exec[r].rejected)
    /\ IF exec[r].rejected THEN CloseAs(r, "cancelled")
       ELSE exec' = [exec EXCEPT ![r].pc = IF exec[r].at = 0 THEN "steps" ELSE "activity",
                                 ![r].at = IF @ = 0 THEN 1 ELSE @]
    /\ UNCHANGED <<started, savedRow, heard>>

\* Mutation. Only the approval of the plan has the timeout.
TimerWinsOnPlan(r) ==
    /\ At(r, "waiting") /\ exec[r].timed /\ exec[r].at = 0
    /\ ~exec[r].approved /\ ~exec[r].rejected
    /\ CloseAs(r, "cancelled")
    /\ UNCHANGED <<started, savedRow, heard>>

TimerWins(r) ==
    /\ At(r, "waiting") /\ exec[r].timed
    /\ ~exec[r].approved /\ ~exec[r].rejected
    /\ CloseAs(r, "cancelled")
    /\ UNCHANGED <<started, savedRow, heard>>

ActivityCompletes(r) ==
    /\ At(r, "activity")
    /\ exec' = [exec EXCEPT ![r].pc = "steps", ![r].at = @ + 1,
          ![r].stack = IF exec[r].at \in Undoable THEN Append(@, exec[r].at) ELSE @]
    /\ UNCHANGED <<started, savedRow, heard>>

\* A step answers failed: what the stack holds is compensated.
ActivityFails(r) ==
    /\ At(r, "activity")
    /\ IF exec[r].stack = <<>> THEN CloseAs(r, "failed")
       ELSE exec' = [exec EXCEPT ![r].pc = "compensating"]
    /\ UNCHANGED <<started, savedRow, heard>>

\* Mutation. The stack is undone from its bottom.
CompensateInOrder(r) ==
    /\ At(r, "compensating") /\ exec[r].stack # <<>>
    /\ exec' = [exec EXCEPT ![r].compensated = @ \cup {Head(exec[r].stack)},
                            ![r].stack = Tail(@)]
    /\ UNCHANGED <<started, savedRow, heard>>

\* The latest entry is compensated; what the activity answers is not looked at.
CompensateStep(r) ==
    /\ At(r, "compensating") /\ exec[r].stack # <<>>
    /\ LET stack == exec[r].stack IN
       exec' = [exec EXCEPT ![r].compensated = @ \cup {stack[Len(stack)]},
                            ![r].stack = SubSeq(stack, 1, Len(stack) - 1)]
    /\ UNCHANGED <<started, savedRow, heard>>

CompensationEnds(r) ==
    /\ At(r, "compensating") /\ exec[r].stack = <<>>
    /\ CloseAs(r, "failed")
    /\ UNCHANGED <<started, savedRow, heard>>

\* What Temporal sees to: a run goes on, activities answer, timers fire.
Progress(r) ==
    \/ BeginPlan(r) \/ NextStep(r) \/ Finished(r) \/ SignalWins(r) \/ TimerWins(r)
    \/ ActivityCompletes(r) \/ ActivityFails(r) \/ CompensateStep(r) \/ CompensationEnds(r)

TemporalNext ==
    \/ CreateWorkflow
    \/ \E skip, timed \in BOOLEAN : StartWorkflow(skip, timed)
    \/ \E r \in RunIds :
          ApproveSignal(r) \/ RejectSignal(r) \/ CancelHandle(r) \/ Progress(r)

TemporalFairness == \A r \in RunIds : WF_temporalVars(Progress(r))

TemporalSpec == TemporalInit /\ [][TemporalNext]_temporalVars /\ TemporalFairness

-----------------------------------------------------------------------------
TemporalTypeOK ==
    /\ started \in 0 .. MaxRuns
    /\ savedRow \in {"none", "pending", "awaiting_approval", "running"}
    /\ heard \in [RunIds -> BOOLEAN]
    /\ \A r \in RunIds :
          /\ exec[r].pc \in {"unborn", "begin", "waiting", "steps", "activity",
                             "compensating", "closed"}
          /\ exec[r].at \in 0 .. Steps + 1
          /\ exec[r].stack \in Seq(1 .. Steps)

\* A step that needs an approval runs only after an approve signal that came
\* while it was being asked for: earlier ones do not count.
ApprovalIsFresh ==
    \A r \in RunIds :
       At(r, "activity") /\ exec[r].at \in ApprovalSteps /\ ~exec[r].skip => heard[r]

\* Where a run is, and how far, in the terms of a saga.
RunPhase(r) ==
    CASE exec[r].pc \in {"unborn", "begin", "waiting"} -> "idle"
      [] exec[r].pc \in {"steps", "activity"} -> "forward"
      [] exec[r].pc = "compensating" -> "backward"
      [] exec[r].pc = "closed" -> "ended"
RunDone(r) == IF exec[r].at = 0 THEN 0 ELSE exec[r].at - 1

\* Each run keeps the promise of the saga: steps in order, each undone once and
\* the last one first, and nothing after its end.
RunSaga == INSTANCE Saga WITH
    Workflows <- RunIds, N <- Steps, Compensable <- Undoable,
    phase <- [r \in RunIds |-> RunPhase(r)],
    done <- [r \in RunIds |-> RunDone(r)],
    undone <- [r \in RunIds |-> exec[r].compensated]
TemporalImplementsSaga == RunSaga!SagaSpec

\* A run with an approval timeout ends, whoever forgets to answer.
TimedRunEnds == \A r \in RunIds : Open(r) /\ exec[r].timed ~> Closed(r)
=============================================================================
