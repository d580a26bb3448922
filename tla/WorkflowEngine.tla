--------------------------- MODULE WorkflowEngine ---------------------------
(***************************************************************************)
(* The durable workflow engine of src/src/workflow/index.ts: the rows of   *)
(* the `workflows' and `step_executions' tables, the in-memory runs of     *)
(* startWorkflow, and every operation of the adapter.                      *)
(*                                                                         *)
(* The server is one Node process and better-sqlite3 is synchronous, so a  *)
(* run gives up the thread only where it waits for something real: the     *)
(* step executor, the step timeout, the retry backoff.  `thread' is the    *)
(* run that holds it; requests are served only when no run does.  A crash, *)
(* on the other hand, may fall between any two database writes, so every   *)
(* write is a step of its own.                                             *)
(*                                                                         *)
(* A step is named by its position in the execution order that             *)
(* topologicalSort computes (module TopologicalSort).  Outputs, errors,    *)
(* timestamps and the failedSteps and currentStepId columns are left out:  *)
(* no branch of the engine reads them.                                     *)
(***************************************************************************)
EXTENDS Naturals, Sequences, FiniteSets

CONSTANTS
    Workflows,    \* workflow ids
    Runs,         \* calls of startWorkflow; a bound on how many there are
    None,         \* no run
    N,            \* number of steps of the plan
    Deps,         \* Deps[s]: the steps that s depends on
    Compensable,  \* steps with sideEffect and a compensationAction
    StepApproval, \* StepApproval[w]: the steps of w's plan with approvalRequired
    PlanApproval, \* workflows whose plan has approvalRequired
    Options,      \* options callers of startWorkflow pass
    MaxRetries,   \* retryPolicy.maxRetries
    MaxCrashes    \* bound: process crashes in one behaviour

Steps == 1 .. N

ASSUME PlanAssumption ==
    /\ N \in Nat \ {0}
    /\ Deps \in [Steps -> SUBSET Nat]
    /\ Compensable \subseteq Steps
    /\ StepApproval \in [Workflows -> SUBSET Steps]
    /\ PlanApproval \subseteq Workflows
    /\ MaxRetries \in Nat
    /\ MaxCrashes \in Nat

ASSUME OptionsAssumption == Options \subseteq [skipApproval : BOOLEAN, dryRun : BOOLEAN]

ASSUME RunsAssumption == IsFiniteSet(Runs) /\ None \notin Runs

VARIABLES
    row,         \* workflows table
    stepLog,     \* step_executions table: steps recorded per outcome
    controllers, \* runningWorkflows: the run whose AbortController is registered
    pc,          \* where each run is in executeWorkflow / executeStep / compensate
    of,          \* the workflow of each run
    mem,         \* the WorkflowState object each run works on and persists
    pos,         \* loop index into the execution order
    opts,        \* options of the run
    attempt,     \* retry counter of executeStep
    result,      \* status of the step result being recorded
    undo,        \* compensations still to run, counted down the stack
    aborted,     \* signal.aborted of the run's controller
    thread,      \* the run that holds the JavaScript thread
    up,          \* the server process is running
    crashes,     \* crashes so far
    late,        \* abandoned executor calls that may still take effect
    landed,      \* effects of forward steps in the outside world
    undoCalls    \* compensation calls made to the outside world

db     == <<row, stepLog>>
runs   == <<pc, of, mem, pos, opts, attempt, result, undo, aborted>>
world  == <<late, landed, undoCalls>>
server == <<up, crashes>>
vars   == <<db, controllers, runs, thread, server, world>>

Status == {"absent", "pending", "running", "paused", "awaiting_approval",
           "completed", "failed", "compensating", "cancelled"}

WorkflowState == [status : Status, completed : SUBSET Steps, stack : Seq(Steps)]

\* No row with this id has been inserted yet.
Absent == [status |-> "absent", completed |-> {}, stack |-> <<>>]

Outcome == {"completed", "failed"}

\* Where a run may be.  It holds the thread in Busy and waits in Waiting.
Busy    == {"starting", "loop", "record", "settle", "compensate", "undo"}
Waiting == {"call", "backoff", "undoing"}
PC      == {"new", "ended"} \cup Busy \cup Waiting

NoOptions == [skipApproval |-> FALSE, dryRun |-> FALSE]

Live(r)  == pc[r] \in Busy \cup Waiting
LiveOn(w) == {r \in Runs : Live(r) /\ of[r] = w}

Idle     == up /\ thread = None
Holds(r) == up /\ thread = r

\* persistWorkflow of the run's own object, after setting its status.
SetStatus(r, status) ==
    /\ mem' = [mem EXCEPT ![r].status = status]
    /\ row' = [row EXCEPT ![of[r]] = [mem[r] EXCEPT !.status = status]]

\* persistWorkflow of a row that was read back and changed in its status.
Rewrite(w, status) == row' = [row EXCEPT ![w].status = status]

\* Leaving startWorkflow: the `finally' drops the entry of the workflow id.
End(r) ==
    /\ pc' = [pc EXCEPT ![r] = "ended"]
    /\ controllers' = [controllers EXCEPT ![of[r]] = None]
    /\ thread' = None

Goto(r, place) == pc' = [pc EXCEPT ![r] = place]

Init ==
    /\ row = [w \in Workflows |-> Absent]
    /\ stepLog = [w \in Workflows |-> [o \in Outcome |-> {}]]
    /\ controllers = [w \in Workflows |-> None]
    /\ pc = [r \in Runs |-> "new"]
    /\ of = [r \in Runs |-> None]
    /\ mem = [r \in Runs |-> Absent]
    /\ pos = [r \in Runs |-> 1]
    /\ opts = [r \in Runs |-> NoOptions]
    /\ attempt = [r \in Runs |-> 0]
    /\ result = [r \in Runs |-> "completed"]
    /\ undo = [r \in Runs |-> 0]
    /\ aborted = [r \in Runs |-> FALSE]
    /\ thread = None
    /\ up = TRUE
    /\ crashes = 0
    /\ late = [w \in Workflows |-> [s \in Steps |-> 0]]
    /\ landed = [w \in Workflows |-> [s \in Steps |-> 0]]
    /\ undoCalls = [w \in Workflows |-> [s \in Steps |-> 0]]

-----------------------------------------------------------------------------
(* createWorkflow and startWorkflow                                        *)

NewStatus(w) == IF w \in PlanApproval THEN "awaiting_approval" ELSE "pending"

Create(w) ==
    /\ Idle
    /\ row[w].status = "absent"
    /\ Rewrite(w, NewStatus(w))
    /\ UNCHANGED <<stepLog, controllers, runs, thread, server, world>>

\* The checks at the head of startWorkflow; a call that fails one throws.
Startable(w, o) ==
    /\ row[w].status \notin {"absent", "running", "completed"}
    /\ row[w].status = "awaiting_approval" => o.skipApproval

\* Mutation: the run starts over instead of from the row's completed steps.
BeginAfresh(r, w, o) ==
    /\ Startable(w, o)
    /\ of' = [of EXCEPT ![r] = w]
    /\ opts' = [opts EXCEPT ![r] = o]
    /\ controllers' = [controllers EXCEPT ![w] = r]
    /\ mem' = [mem EXCEPT ![r] = [Absent EXCEPT !.status = "running"]]
    /\ Rewrite(w, "running")
    /\ Goto(r, "loop")
    /\ thread' = r
    /\ UNCHANGED <<stepLog, pos, attempt, result, undo, aborted, server, world>>

\* Register the controller, persist `running', enter executeWorkflow.
Begin(r, w, o) ==
    /\ Startable(w, o)
    /\ of' = [of EXCEPT ![r] = w]
    /\ opts' = [opts EXCEPT ![r] = o]
    /\ controllers' = [controllers EXCEPT ![w] = r]
    /\ mem' = [mem EXCEPT ![r] = [row[w] EXCEPT !.status = "running"]]
    /\ Rewrite(w, "running")
    /\ Goto(r, "loop")
    /\ thread' = r
    /\ UNCHANGED <<stepLog, pos, attempt, result, undo, aborted, server, world>>

Start(r, w, o) == Idle /\ pc[r] = "new" /\ Begin(r, w, o)

-----------------------------------------------------------------------------
(* The loop of executeWorkflow                                             *)

AtLoop(r) == Holds(r) /\ pc[r] = "loop"
AtStep(r) == AtLoop(r) /\ pos[r] \in Steps

\* Mutation: the abort signal does not keep the next step from being run.
FreshIgnoringAbort(r) == AtStep(r) /\ pos[r] \notin mem[r].completed

Fresh(r)  == AtStep(r) /\ ~aborted[r] /\ pos[r] \notin mem[r].completed

\* Mutation: the dependency check is dropped.
DepsUnchecked(r) == TRUE

NeedsApproval(r) == pos[r] \in StepApproval[of[r]] /\ ~opts[r].skipApproval
DepsReady(r)     == Deps[pos[r]] \subseteq mem[r].completed

\* Every branch of the loop that returns: persist the status and leave.
Leave(r, status) ==
    /\ SetStatus(r, status)
    /\ End(r)
    /\ UNCHANGED <<stepLog, of, pos, opts, attempt, result, undo, aborted, server, world>>

StopOnAbort(r) == AtStep(r) /\ aborted[r] /\ Leave(r, "cancelled")

SkipCompleted(r) ==
    /\ AtStep(r) /\ ~aborted[r] /\ pos[r] \in mem[r].completed
    /\ pos' = [pos EXCEPT ![r] = @ + 1]
    /\ UNCHANGED <<db, controllers, pc, of, mem, opts, attempt, result, undo, aborted,
                   thread, server, world>>

AwaitApproval(r) == Fresh(r) /\ NeedsApproval(r) /\ Leave(r, "awaiting_approval")

DepsMissing(r) ==
    Fresh(r) /\ ~NeedsApproval(r) /\ ~DepsReady(r) /\ Leave(r, "failed")

\* Persist the current step, then call the executor; a dry run is answered
\* `completed' on the spot, without leaving the thread.
Dispatch(r) ==
    /\ Fresh(r) /\ ~NeedsApproval(r) /\ DepsReady(r)
    /\ row' = [row EXCEPT ![of[r]] = mem[r]]
    /\ attempt' = [attempt EXCEPT ![r] = 0]
    /\ \/ /\ opts[r].dryRun
          /\ Goto(r, "record")
          /\ result' = [result EXCEPT ![r] = "completed"]
          /\ UNCHANGED thread
       \/ /\ ~opts[r].dryRun
          /\ Goto(r, "call")
          /\ thread' = None
          /\ UNCHANGED result
    /\ UNCHANGED <<stepLog, controllers, of, mem, pos, opts, undo, aborted, server, world>>

Finish(r) == AtLoop(r) /\ pos[r] = N + 1 /\ Leave(r, "completed")

-----------------------------------------------------------------------------
(* executeStep: the race of the executor and the timeout, with retries     *)

Count(f, w, s) == [f EXCEPT ![w][s] = @ + 1]

Resolve(r, outcome) ==
    /\ result' = [result EXCEPT ![r] = outcome]
    /\ Goto(r, "record")
    /\ thread' = r

CallCompletes(r) ==
    /\ Idle /\ pc[r] = "call"
    /\ Resolve(r, "completed")
    /\ landed' = Count(landed, of[r], pos[r])
    /\ UNCHANGED <<db, controllers, of, mem, pos, opts, attempt, undo, aborted, server,
                   late, undoCalls>>

\* The executor catches what its handler throws, its own timeout included,
\* and answers `failed': the engine does not retry.  The call may land yet.
CallFails(r) ==
    /\ Idle /\ pc[r] = "call"
    /\ Resolve(r, "failed")
    /\ late' = Count(late, of[r], pos[r])
    /\ UNCHANGED <<db, controllers, of, mem, pos, opts, attempt, undo, aborted, server,
                   landed, undoCalls>>

\* Mutation: one retry too many.
CallRejectsOnceMore(r) ==
    /\ Idle /\ pc[r] = "call"
    /\ late' = Count(late, of[r], pos[r])
    /\ \/ /\ attempt[r] <= MaxRetries
          /\ Goto(r, "backoff")
          /\ UNCHANGED <<result, thread>>
       \/ /\ attempt[r] > MaxRetries
          /\ Resolve(r, "failed")
    /\ UNCHANGED <<db, controllers, of, mem, pos, opts, attempt, undo, aborted, server,
                   landed, undoCalls>>

\* The race rejects: the engine's own timeout won, or the executor threw.
CallRejects(r) ==
    /\ Idle /\ pc[r] = "call"
    /\ late' = Count(late, of[r], pos[r])
    /\ \/ /\ attempt[r] < MaxRetries
          /\ Goto(r, "backoff")
          /\ UNCHANGED <<result, thread>>
       \/ /\ attempt[r] >= MaxRetries
          /\ Resolve(r, "failed")
    /\ UNCHANGED <<db, controllers, of, mem, pos, opts, attempt, undo, aborted, server,
                   landed, undoCalls>>

\* Mutation: the last backoff is never waited for to its end.
LastBackoffHangs(r) ==
    /\ Idle /\ pc[r] = "backoff" /\ attempt[r] + 1 < MaxRetries
    /\ Goto(r, "call")
    /\ attempt' = [attempt EXCEPT ![r] = @ + 1]
    /\ UNCHANGED <<db, controllers, of, mem, pos, opts, result, undo, aborted, thread,
                   server, world>>

BackoffElapses(r) ==
    /\ Idle /\ pc[r] = "backoff"
    /\ Goto(r, "call")
    /\ attempt' = [attempt EXCEPT ![r] = @ + 1]
    /\ UNCHANGED <<db, controllers, of, mem, pos, opts, result, undo, aborted, thread,
                   server, world>>

\* An abandoned call reaches the outside world after all.
LateLanding(w, s) ==
    /\ late[w][s] > 0
    /\ late' = [late EXCEPT ![w][s] = @ - 1]
    /\ landed' = Count(landed, w, s)
    /\ UNCHANGED <<db, controllers, runs, thread, server, undoCalls>>

-----------------------------------------------------------------------------
(* After the result: the execution record, the checkpoint, compensation    *)

\* Mutation: only failures are recorded.
RecordFailuresOnly(r) ==
    /\ Holds(r) /\ pc[r] = "record"
    /\ stepLog' = [stepLog EXCEPT ![of[r]]["failed"] =
                     IF result[r] = "failed" THEN @ \cup {pos[r]} ELSE @]
    /\ Goto(r, "settle")
    /\ UNCHANGED <<row, controllers, of, mem, pos, opts, attempt, result, undo, aborted,
                   thread, server, world>>

RecordStepExecution(r) ==
    /\ Holds(r) /\ pc[r] = "record"
    /\ stepLog' = [stepLog EXCEPT ![of[r]][result[r]] = @ \cup {pos[r]}]
    /\ Goto(r, "settle")
    /\ UNCHANGED <<row, controllers, of, mem, pos, opts, attempt, result, undo, aborted,
                   thread, server, world>>

\* Mutation: the latest step goes to the bottom of the stack.
WithStepBelow(m, s) ==
    [status    |-> m.status,
     completed |-> m.completed \cup {s},
     stack     |-> IF s \in Compensable THEN <<s>> \o m.stack ELSE m.stack]

\* The object after a completed step: the step is done and, if it can be
\* compensated, on the stack.
WithStep(m, s) ==
    [status    |-> m.status,
     completed |-> m.completed \cup {s},
     stack     |-> IF s \in Compensable THEN Append(m.stack, s) ELSE m.stack]

Checkpoint(r) ==
    /\ Holds(r) /\ pc[r] = "settle" /\ result[r] = "completed"
    /\ mem' = [mem EXCEPT ![r] = WithStep(@, pos[r])]
    /\ row' = [row EXCEPT ![of[r]] = WithStep(mem[r], pos[r])]
    /\ pos' = [pos EXCEPT ![r] = @ + 1]
    /\ Goto(r, "loop")
    /\ UNCHANGED <<stepLog, controllers, of, opts, attempt, result, undo, aborted, thread,
                   server, world>>

\* Mutation: a stack with a single entry counts as empty.
FailStepOffByOne(r) ==
    /\ Holds(r) /\ pc[r] = "settle" /\ result[r] = "failed"
    /\ SetStatus(r, "failed")
    /\ \/ Len(mem[r].stack) <= 1 /\ End(r)
       \/ Len(mem[r].stack) > 1 /\ Goto(r, "compensate") /\ UNCHANGED <<controllers, thread>>
    /\ UNCHANGED <<stepLog, of, pos, opts, attempt, result, undo, aborted, server, world>>

\* Persist `failed'; with an empty stack compensate returns at once.
FailStep(r) ==
    /\ Holds(r) /\ pc[r] = "settle" /\ result[r] = "failed"
    /\ SetStatus(r, "failed")
    /\ \/ mem[r].stack = <<>> /\ End(r)
       \/ mem[r].stack # <<>> /\ Goto(r, "compensate") /\ UNCHANGED <<controllers, thread>>
    /\ UNCHANGED <<stepLog, of, pos, opts, attempt, result, undo, aborted, server, world>>

StartCompensation(r) ==
    /\ Holds(r) /\ pc[r] = "compensate"
    /\ SetStatus(r, "compensating")
    /\ undo' = [undo EXCEPT ![r] = Len(mem[r].stack)]
    /\ Goto(r, "undo")
    /\ UNCHANGED <<stepLog, controllers, of, pos, opts, attempt, result, aborted, thread,
                   server, world>>

\* The next compensation of the reversed stack goes to the executor: no
\* timeout of the engine's own, no retry, no look at the abort signal.
CallCompensation(r) ==
    /\ Holds(r) /\ pc[r] = "undo" /\ undo[r] > 0
    /\ undoCalls' = Count(undoCalls, of[r], mem[r].stack[undo[r]])
    /\ Goto(r, "undoing")
    /\ thread' = None
    /\ UNCHANGED <<db, controllers, of, mem, pos, opts, attempt, result, undo, aborted,
                   server, late, landed>>

\* Mutation: a compensation that fails is tried again.
CompensationRetries(r) ==
    /\ Idle /\ pc[r] = "undoing"
    /\ \E left \in {undo[r], undo[r] - 1} : undo' = [undo EXCEPT ![r] = left]
    /\ Goto(r, "undo")
    /\ thread' = r
    /\ UNCHANGED <<db, controllers, of, mem, pos, opts, attempt, result, aborted, server,
                   world>>

\* It succeeded or it failed: either way the loop goes on.
CompensationReturns(r) ==
    /\ Idle /\ pc[r] = "undoing"
    /\ undo' = [undo EXCEPT ![r] = @ - 1]
    /\ Goto(r, "undo")
    /\ thread' = r
    /\ UNCHANGED <<db, controllers, of, mem, pos, opts, attempt, result, aborted, server,
                   world>>

\* Mutation: the run goes on with the failed step once the others are undone.
ResumeAfterCompensation(r) ==
    /\ Holds(r) /\ pc[r] = "undo" /\ undo[r] = 0
    /\ SetStatus(r, "running")
    /\ Goto(r, "loop")
    /\ UNCHANGED <<stepLog, controllers, of, pos, opts, attempt, result, undo, aborted,
                   thread, server, world>>

EndCompensation(r) ==
    Holds(r) /\ pc[r] = "undo" /\ undo[r] = 0 /\ Leave(r, "failed")

-----------------------------------------------------------------------------
(* The other operations of the adapter, called by request handlers         *)

Approve(w) ==
    /\ Idle
    /\ row[w].status = "awaiting_approval"
    /\ Rewrite(w, "pending")
    /\ UNCHANGED <<stepLog, controllers, runs, thread, server, world>>

\* No check of the status: whatever the row says becomes `cancelled'.
Reject(w) ==
    /\ Idle
    /\ row[w].status # "absent"
    /\ Rewrite(w, "cancelled")
    /\ UNCHANGED <<stepLog, controllers, runs, thread, server, world>>

Cancel(w) ==
    /\ Idle
    /\ aborted' = [r \in Runs |-> aborted[r] \/ controllers[w] = r]
    /\ row' = [row EXCEPT ![w].status = IF @ = "running" THEN "cancelled" ELSE @]
    /\ UNCHANGED <<stepLog, controllers, pc, of, mem, pos, opts, attempt, result, undo,
                   thread, server, world>>

Pause(w) ==
    /\ Idle
    /\ row[w].status = "running"
    /\ Rewrite(w, "paused")
    /\ UNCHANGED <<stepLog, controllers, runs, thread, server, world>>

Resume(r, w, o) ==
    /\ row[w].status \in {"paused", "pending"}
    /\ Start(r, w, o)

-----------------------------------------------------------------------------
(* The process                                                             *)

\* The process dies: every run and every controller is gone; a call that was
\* in flight has been sent and may land.
Crash ==
    /\ up /\ crashes < MaxCrashes
    /\ up' = FALSE
    /\ crashes' = crashes + 1
    /\ pc' = [r \in Runs |-> IF Live(r) THEN "ended" ELSE pc[r]]
    /\ controllers' = [w \in Workflows |-> None]
    /\ thread' = None
    /\ late' = [w \in Workflows |-> [s \in Steps |->
                  late[w][s] + Cardinality({r \in Runs : pc[r] = "call" /\ of[r] = w /\ pos[r] = s})]]
    /\ UNCHANGED <<db, of, mem, pos, opts, attempt, result, undo, aborted, landed, undoCalls>>

\* Mutation: initialize without the recovery.
RestartWithoutRecovery ==
    /\ ~up
    /\ up' = TRUE
    /\ UNCHANGED <<db, controllers, runs, thread, crashes, world>>

\* recoverInterruptedWorkflows: rows found `running' are marked `failed'.
Restart ==
    /\ ~up
    /\ up' = TRUE
    /\ row' = [w \in Workflows |->
                 IF row[w].status = "running" THEN [row[w] EXCEPT !.status = "failed"]
                                              ELSE row[w]]
    /\ UNCHANGED <<stepLog, controllers, runs, thread, crashes, world>>

-----------------------------------------------------------------------------
\* A run's own steps: it holds the thread.
RunStep(r) ==
    \/ StopOnAbort(r) \/ SkipCompleted(r) \/ AwaitApproval(r) \/ DepsMissing(r)
    \/ Dispatch(r) \/ Finish(r)
    \/ RecordStepExecution(r) \/ Checkpoint(r) \/ FailStep(r)
    \/ StartCompensation(r) \/ CallCompensation(r) \/ EndCompensation(r)

\* What a waiting run waits for.
Wakeup(r) ==
    \/ CallCompletes(r) \/ CallFails(r) \/ CallRejects(r)
    \/ BackoffElapses(r) \/ CompensationReturns(r)

Process == Crash \/ Restart \/ \E w \in Workflows, s \in Steps : LateLanding(w, s)

Next ==
    \/ \E r \in Runs : RunStep(r) \/ Wakeup(r)
    \/ \E r \in Runs, w \in Workflows, o \in Options : Start(r, w, o) \/ Resume(r, w, o)
    \/ \E w \in Workflows : Create(w) \/ Approve(w) \/ Reject(w) \/ Cancel(w) \/ Pause(w)
    \/ Process

Spec == Init /\ [][Next]_vars

-----------------------------------------------------------------------------
(* Properties                                                              *)

\* Type invariant: rows, run objects and counters have the shapes the engine
\* gives them, and no run is ever at a step outside the plan.
TypeOK ==
    /\ row \in [Workflows -> WorkflowState]
    /\ stepLog \in [Workflows -> [Outcome -> SUBSET Steps]]
    /\ controllers \in [Workflows -> Runs \cup {None}]
    /\ pc \in [Runs -> PC]
    /\ of \in [Runs -> Workflows \cup {None}]
    /\ mem \in [Runs -> WorkflowState]
    /\ pos \in [Runs -> 1 .. N + 1]
    /\ opts \in [Runs -> [skipApproval : BOOLEAN, dryRun : BOOLEAN]]
    /\ attempt \in [Runs -> 0 .. MaxRetries]
    /\ result \in [Runs -> Outcome]
    /\ undo \in [Runs -> Nat]
    /\ aborted \in [Runs -> BOOLEAN]
    /\ thread \in Runs \cup {None}
    /\ up \in BOOLEAN
    /\ crashes \in 0 .. MaxCrashes
    /\ late \in [Workflows -> [Steps -> Nat]]
    /\ landed \in [Workflows -> [Steps -> Nat]]
    /\ undoCalls \in [Workflows -> [Steps -> Nat]]

\* A state object is well formed: its completed steps are the first ones of
\* the execution order, and its compensation stack lists exactly those of
\* them that can be compensated, in the order they were executed.
WellFormed(m) ==
    /\ \A s \in m.completed : \A t \in Steps : t < s => t \in m.completed
    /\ \A i, j \in 1 .. Len(m.stack) : i < j => m.stack[i] < m.stack[j]
    /\ \A s \in Steps :
          (s \in m.completed \cap Compensable)
             <=> (\E i \in 1 .. Len(m.stack) : m.stack[i] = s)

\* The rows the engine persists stay well formed whatever is interleaved
\* (compensate walks the stack backwards and relies on it; a step missing
\* from it would never be rolled back, one listed twice rolled back twice).
StackMatchesCompleted == \A w \in Workflows : WellFormed(row[w])

\* A row never claims a step that has no `completed' execution record: the
\* record is written before the checkpoint, so a crash between the two loses
\* the checkpoint and never the record.
LoggedBeforeCheckpointed ==
    \A w \in Workflows : row[w].completed \subseteq stepLog[w]["completed"]

\* While a step is with the executor, a completed execution of every step it
\* depends on is on record (executeWorkflow's dependency check).
DependenciesRecorded ==
    \A r \in Runs : pc[r] \in {"call", "backoff"} =>
        Deps[pos[r]] \subseteq stepLog[of[r]]["completed"]

\* In a running server a row says `running' only while some run of that
\* workflow is alive and has not turned to compensation: nothing is left
\* looking busy with nobody working on it.
RunningHasRun ==
    up => \A w \in Workflows : row[w].status = "running" =>
              \E r \in LiveOn(w) : mem[r].status = "running"

-----------------------------------------------------------------------------
(* The inductive invariant behind the safety properties                    *)

\* The thread is held by exactly the run that is neither waiting nor over.
ThreadHeld == \A r \in Runs : pc[r] \in Busy <=> thread = r

\* No run outlives the process.
DownMeansDead == ~up => \A r \in Runs : ~Live(r)

\* Where a run is tells what it works on: past the loop head, on a step that is
\* not complete while all earlier ones are; in compensation, on its stack.
InPlace(r) ==
    /\ Live(r) => of[r] \in Workflows
    /\ pc[r] \in {"new", "starting"} => pos[r] = 1
    /\ pc[r] \in {"loop", "call", "backoff", "record", "settle"} =>
          /\ mem[r].status = "running"
          /\ 1 .. pos[r] - 1 \subseteq mem[r].completed
    /\ pc[r] \in {"call", "backoff", "record", "settle"} =>
          /\ pos[r] \in Steps \ mem[r].completed
          /\ Deps[pos[r]] \subseteq mem[r].completed
    /\ pc[r] = "backoff" => attempt[r] < MaxRetries
    /\ pc[r] \in {"undo", "undoing"} => undo[r] \in 0 .. Len(mem[r].stack)
    /\ pc[r] = "undoing" => undo[r] > 0

Coherent == ThreadHeld /\ DownMeansDead /\ \A r \in Runs : InPlace(r)

\* Run objects are well formed like the rows they become.
ObjectsWellFormed == \A r \in Runs : WellFormed(mem[r])

\* A live run's object claims only recorded steps, and the step it is about to
\* checkpoint is recorded.
LoggedByRuns ==
    \A r \in Runs : Live(r) /\ pc[r] # "starting" =>
        /\ mem[r].completed \subseteq stepLog[of[r]]["completed"]
        /\ pc[r] = "settle" /\ result[r] = "completed" =>
              pos[r] \in stepLog[of[r]]["completed"]
=============================================================================
