------------------------ MODULE WorkflowEngineProofs ------------------------
(***************************************************************************)
(* Proofs about the workflow engine, for every plan, every number of       *)
(* workflows and runs, every retry limit and any number of crashes.        *)
(***************************************************************************)
EXTENDS WorkflowEngine, FiniteSetTheorems, TLAPS

-----------------------------------------------------------------------------
(* What the building blocks of the actions do                              *)

\* A run that holds the thread is alive and works on a workflow.
LEMMA HolderIsLive ==
    ASSUME TypeOK, Coherent, NEW r \in Runs, Holds(r)
    PROVE  pc[r] \in Busy /\ Live(r) /\ of[r] \in Workflows
BY DEF Coherent, ThreadHeld, InPlace, Holds, Live

LEMMA StatusType ==
    ASSUME NEW m \in WorkflowState, NEW status \in Status
    PROVE  [m EXCEPT !.status = status] \in WorkflowState
BY DEF WorkflowState

\* Persisting the run's object under a new status keeps objects and rows typed.
LEMMA SetStatusType ==
    ASSUME TypeOK, NEW r \in Runs, of[r] \in Workflows, NEW status \in Status,
           SetStatus(r, status)
    PROVE  mem' \in [Runs -> WorkflowState] /\ row' \in [Workflows -> WorkflowState]
<1>1. [mem[r] EXCEPT !.status = status] \in WorkflowState BY StatusType DEF TypeOK
<1> QED BY <1>1 DEF TypeOK, SetStatus

LEMMA EndType ==
    ASSUME TypeOK, NEW r \in Runs, of[r] \in Workflows, End(r)
    PROVE  /\ pc' \in [Runs -> PC]
           /\ controllers' \in [Workflows -> Runs \cup {None}]
           /\ thread' \in Runs \cup {None}
BY DEF TypeOK, End, PC

LEMMA LeaveType ==
    ASSUME TypeOK, NEW r \in Runs, of[r] \in Workflows, NEW status \in Status,
           Leave(r, status)
    PROVE  TypeOK'
<1>1. SetStatus(r, status) /\ End(r) BY DEF Leave
<1>2. mem' \in [Runs -> WorkflowState] /\ row' \in [Workflows -> WorkflowState]
      BY <1>1, SetStatusType
<1>3. /\ pc' \in [Runs -> PC]
      /\ controllers' \in [Workflows -> Runs \cup {None}]
      /\ thread' \in Runs \cup {None}
      BY <1>1, EndType
<1> QED BY <1>2, <1>3 DEF TypeOK, Leave, server, world

LEMMA WithStepType ==
    ASSUME NEW m \in WorkflowState, NEW s \in Steps
    PROVE  WithStep(m, s) \in WorkflowState
<1>1. m.status \in Status /\ m.completed \cup {s} \in SUBSET Steps BY DEF WorkflowState
<1>2. (IF s \in Compensable THEN Append(m.stack, s) ELSE m.stack) \in Seq(Steps)
      BY DEF WorkflowState
<1> QED BY <1>1, <1>2 DEF WithStep, WorkflowState

\* One more landing, abandoned call or compensation.
LEMMA CountType ==
    ASSUME NEW f \in [Workflows -> [Steps -> Nat]], NEW w \in Workflows, NEW s \in Steps
    PROVE  Count(f, w, s) \in [Workflows -> [Steps -> Nat]]
BY DEF Count

-----------------------------------------------------------------------------
(* Type correctness, one lemma per group of actions                        *)

LEMMA TypeRunStep ==
    ASSUME TypeOK, Coherent, NEW r \in Runs, RunStep(r)
    PROVE  TypeOK'
<1> USE PlanAssumption
<1>0. Holds(r) /\ pc[r] \in Busy /\ of[r] \in Workflows
  <2>1. Holds(r)
        BY DEF RunStep, StopOnAbort, SkipCompleted, AwaitApproval, DepsMissing, Dispatch,
               Finish, RecordStepExecution, Checkpoint, FailStep, StartCompensation,
               CallCompensation, EndCompensation, Fresh, AtStep, AtLoop
  <2> QED BY <2>1, HolderIsLive
<1>1. CASE StopOnAbort(r) BY <1>0, <1>1, LeaveType DEF StopOnAbort, Status
<1>2. CASE SkipCompleted(r)
      BY <1>2 DEF SkipCompleted, AtStep, AtLoop, TypeOK, db, server, world, Steps
<1>3. CASE AwaitApproval(r) BY <1>0, <1>3, LeaveType DEF AwaitApproval, Status
<1>4. CASE DepsMissing(r) BY <1>0, <1>4, LeaveType DEF DepsMissing, Status
<1>5. CASE Dispatch(r)
  <2>1. row' \in [Workflows -> WorkflowState] BY <1>5 DEF Dispatch, TypeOK
  <2>2. attempt' \in [Runs -> 0 .. MaxRetries] BY <1>5 DEF Dispatch, TypeOK
  <2>3. /\ pc' \in [Runs -> PC]
        /\ thread' \in Runs \cup {None}
        /\ result' \in [Runs -> Outcome]
        BY <1>5 DEF Dispatch, TypeOK, Goto, PC, Busy, Waiting, Outcome
  <2> QED BY <1>5, <2>1, <2>2, <2>3 DEF Dispatch, TypeOK, server, world
<1>6. CASE Finish(r) BY <1>0, <1>6, LeaveType DEF Finish, Status
<1>7. CASE RecordStepExecution(r)
  <2>1. pos[r] \in Steps BY <1>7 DEF RecordStepExecution, Coherent, InPlace
  <2> QED BY <1>0, <1>7, <2>1
          DEF RecordStepExecution, TypeOK, Goto, PC, Busy, Waiting, server, world
<1>8. CASE Checkpoint(r)
  <2>1. pos[r] \in Steps BY <1>8 DEF Checkpoint, Coherent, InPlace
  <2>2. WithStep(mem[r], pos[r]) \in WorkflowState BY <2>1, WithStepType DEF TypeOK
  <2>3. /\ mem' \in [Runs -> WorkflowState]
        /\ row' \in [Workflows -> WorkflowState]
        BY <1>8, <2>2 DEF Checkpoint, TypeOK
  <2>4. pos' \in [Runs -> 1 .. N + 1] BY <1>8, <2>1 DEF Checkpoint, TypeOK, Steps
  <2>5. pc' \in [Runs -> PC] BY <1>8 DEF Checkpoint, Goto, TypeOK, PC, Busy
  <2> QED BY <1>8, <2>3, <2>4, <2>5 DEF Checkpoint, TypeOK, server, world
<1>9. CASE FailStep(r)
  <2>1. mem' \in [Runs -> WorkflowState] /\ row' \in [Workflows -> WorkflowState]
        BY <1>0, <1>9, SetStatusType DEF FailStep, Status
  <2>2. /\ pc' \in [Runs -> PC]
        /\ controllers' \in [Workflows -> Runs \cup {None}]
        /\ thread' \in Runs \cup {None}
        BY <1>0, <1>9, EndType DEF FailStep, TypeOK, Goto, PC, Busy
  <2> QED BY <1>9, <2>1, <2>2 DEF FailStep, TypeOK, server, world
<1>10. CASE StartCompensation(r)
  <2>1. mem' \in [Runs -> WorkflowState] /\ row' \in [Workflows -> WorkflowState]
        BY <1>0, <1>10, SetStatusType DEF StartCompensation, Status
  <2>2. Len(mem[r].stack) \in Nat BY DEF TypeOK, WorkflowState
  <2> QED BY <1>0, <1>10, <2>1, <2>2
          DEF StartCompensation, TypeOK, Goto, PC, Busy, server, world
<1>11. CASE CallCompensation(r)
  <2>1. mem[r].stack[undo[r]] \in Steps
        BY <1>11 DEF CallCompensation, Coherent, InPlace, TypeOK, WorkflowState
  <2>2. undoCalls' \in [Workflows -> [Steps -> Nat]]
        BY <1>0, <1>11, <2>1, CountType DEF CallCompensation, TypeOK
  <2> QED BY <1>0, <1>11, <2>2
          DEF CallCompensation, TypeOK, Goto, PC, Waiting, db, server
<1>12. CASE EndCompensation(r) BY <1>0, <1>12, LeaveType DEF EndCompensation, Status
<1> QED BY <1>1, <1>2, <1>3, <1>4, <1>5, <1>6, <1>7, <1>8, <1>9, <1>10, <1>11, <1>12
        DEF RunStep

LEMMA TypeWakeup ==
    ASSUME TypeOK, Coherent, NEW r \in Runs, Wakeup(r)
    PROVE  TypeOK'
<1> USE PlanAssumption
<1>0. pc[r] \in Waiting /\ of[r] \in Workflows
  <2>1. pc[r] \in Waiting
        BY DEF Wakeup, CallCompletes, CallFails, CallRejects, BackoffElapses,
               CompensationReturns, Waiting
  <2> QED BY <2>1 DEF Coherent, InPlace, Live
<1>1. pc[r] = "call" => pos[r] \in Steps BY DEF Coherent, InPlace
<1>2. CASE CallCompletes(r)
  <2>1. landed' \in [Workflows -> [Steps -> Nat]]
        BY <1>0, <1>1, <1>2, CountType DEF CallCompletes, TypeOK
  <2> QED BY <1>2, <2>1
          DEF CallCompletes, Resolve, Goto, TypeOK, PC, Busy, Outcome, db, server
<1>3. CASE CallFails(r)
  <2>1. late' \in [Workflows -> [Steps -> Nat]]
        BY <1>0, <1>1, <1>3, CountType DEF CallFails, TypeOK
  <2> QED BY <1>3, <2>1
          DEF CallFails, Resolve, Goto, TypeOK, PC, Busy, Outcome, db, server
<1>4. CASE CallRejects(r)
  <2>1. late' \in [Workflows -> [Steps -> Nat]]
        BY <1>0, <1>1, <1>4, CountType DEF CallRejects, TypeOK
  <2> QED BY <1>4, <2>1
          DEF CallRejects, Resolve, Goto, TypeOK, PC, Busy, Waiting, Outcome, db, server
<1>5. CASE BackoffElapses(r)
  <2>1. attempt[r] + 1 \in 0 .. MaxRetries BY <1>5 DEF BackoffElapses, Coherent, InPlace, TypeOK
  <2> QED BY <1>5, <2>1 DEF BackoffElapses, Goto, TypeOK, PC, Waiting, db, server, world
<1>6. CASE CompensationReturns(r)
  <2>1. undo[r] - 1 \in Nat BY <1>6 DEF CompensationReturns, Coherent, InPlace, TypeOK
  <2> QED BY <1>6, <2>1 DEF CompensationReturns, Goto, TypeOK, PC, Busy, db, server, world
<1> QED BY <1>2, <1>3, <1>4, <1>5, <1>6 DEF Wakeup

\* The body of startWorkflow, whether an adapter call or a route runs it.
LEMMA TypeBegin ==
    ASSUME TypeOK, NEW r \in Runs, NEW w \in Workflows,
           NEW o \in [skipApproval : BOOLEAN, dryRun : BOOLEAN], Begin(r, w, o)
    PROVE  TypeOK'
<1>1. [row[w] EXCEPT !.status = "running"] \in WorkflowState
      BY StatusType DEF TypeOK, Status
<1> QED BY <1>1 DEF Begin, Rewrite, Goto, TypeOK, PC, Busy, server, world

\* The single-row operations of the adapter.
Request(w) == Create(w) \/ Approve(w) \/ Reject(w) \/ Cancel(w) \/ Pause(w)

LEMMA RewriteType ==
    ASSUME TypeOK, NEW w \in Workflows, NEW status \in Status, Rewrite(w, status)
    PROVE  row' \in [Workflows -> WorkflowState]
<1>1. [row[w] EXCEPT !.status = status] \in WorkflowState BY StatusType DEF TypeOK
<1> QED BY <1>1 DEF TypeOK, Rewrite

LEMMA TypeRequest ==
    ASSUME TypeOK, NEW w \in Workflows, Request(w)
    PROVE  TypeOK'
<1>1. CASE Create(w)
  <2>1. row' \in [Workflows -> WorkflowState]
        BY <1>1, RewriteType DEF Create, NewStatus, Status
  <2> QED BY <1>1, <2>1 DEF Create, TypeOK, runs, server, world
<1>2. CASE Approve(w)
  <2>1. row' \in [Workflows -> WorkflowState] BY <1>2, RewriteType DEF Approve, Status
  <2> QED BY <1>2, <2>1 DEF Approve, TypeOK, runs, server, world
<1>3. CASE Reject(w)
  <2>1. row' \in [Workflows -> WorkflowState] BY <1>3, RewriteType DEF Reject, Status
  <2> QED BY <1>3, <2>1 DEF Reject, TypeOK, runs, server, world
<1>4. CASE Cancel(w)
  <2>1. [row[w] EXCEPT !.status = "cancelled"] \in WorkflowState
        BY StatusType DEF TypeOK, Status
  <2>2. row[w] \in WorkflowState BY DEF TypeOK
  <2>3. PICK m \in WorkflowState : row' = [row EXCEPT ![w] = m]
        BY <1>4, <2>1, <2>2 DEF Cancel, TypeOK, WorkflowState
  <2>4. row' \in [Workflows -> WorkflowState] BY <2>3 DEF TypeOK
  <2>5. aborted' \in [Runs -> BOOLEAN] BY <1>4 DEF Cancel
  <2> QED BY <1>4, <2>4, <2>5 DEF Cancel, TypeOK, server, world
<1>5. CASE Pause(w)
  <2>1. row' \in [Workflows -> WorkflowState] BY <1>5, RewriteType DEF Pause, Status
  <2> QED BY <1>5, <2>1 DEF Pause, TypeOK, runs, server, world
<1> QED BY <1>1, <1>2, <1>3, <1>4, <1>5 DEF Request

LEMMA TypeProcess ==
    ASSUME TypeOK, Process
    PROVE  TypeOK'
<1> USE PlanAssumption, RunsAssumption
<1>1. CASE Crash
  <2>1. \A w \in Workflows, s \in Steps :
           late[w][s] + Cardinality({r \in Runs : pc[r] = "call" /\ of[r] = w /\ pos[r] = s}) \in Nat
    <3> TAKE w \in Workflows, s \in Steps
    <3>1. IsFiniteSet({r \in Runs : pc[r] = "call" /\ of[r] = w /\ pos[r] = s})
          BY FS_Subset
    <3>2. Cardinality({r \in Runs : pc[r] = "call" /\ of[r] = w /\ pos[r] = s}) \in Nat
          BY <3>1, FS_CardinalityType
    <3> QED BY <3>2 DEF TypeOK
  <2>2. late' \in [Workflows -> [Steps -> Nat]] BY <1>1, <2>1 DEF Crash
  <2>3. /\ pc' \in [Runs -> PC]
        /\ controllers' \in [Workflows -> Runs \cup {None}]
        /\ thread' \in Runs \cup {None}
        BY <1>1 DEF Crash, TypeOK, PC
  <2>4. crashes' \in 0 .. MaxCrashes BY <1>1 DEF Crash, TypeOK
  <2>5. up' \in BOOLEAN BY <1>1 DEF Crash
  <2> QED BY <1>1, <2>2, <2>3, <2>4, <2>5 DEF Crash, TypeOK, db
<1>2. CASE Restart
  <2>1. \A w \in Workflows : [row[w] EXCEPT !.status = "failed"] \in WorkflowState
        BY StatusType DEF TypeOK, Status
  <2> DEFINE mark(w) == IF row[w].status = "running" THEN [row[w] EXCEPT !.status = "failed"]
                                                     ELSE row[w]
  <2>2. \A w \in Workflows : mark(w) \in WorkflowState BY <2>1 DEF TypeOK
  <2>3. row' = [w \in Workflows |-> mark(w)] BY <1>2 DEF Restart
  <2> HIDE DEF mark
  <2>4. row' \in [Workflows -> WorkflowState] BY <2>2, <2>3
  <2> QED BY <1>2, <2>4 DEF Restart, TypeOK, runs, world
<1>3. ASSUME NEW w \in Workflows, NEW s \in Steps, LateLanding(w, s) PROVE TypeOK'
  <2>1. landed' \in [Workflows -> [Steps -> Nat]]
        BY <1>3, CountType DEF LateLanding, TypeOK
  <2>2. late[w][s] - 1 \in Nat BY <1>3 DEF LateLanding, TypeOK
  <2>3. late' \in [Workflows -> [Steps -> Nat]] BY <1>3, <2>2 DEF LateLanding, TypeOK
  <2> QED BY <1>3, <2>1, <2>3 DEF LateLanding, TypeOK, db, runs, server
<1> QED BY <1>1, <1>2, <1>3 DEF Process

-----------------------------------------------------------------------------
(* Coherence of the runs                                                   *)

\* What the runs' steps have in common: only run r changes.
OnlyRun(r) ==
    /\ \A q \in Runs \ {r} :
          /\ pc'[q] = pc[q] /\ of'[q] = of[q] /\ mem'[q] = mem[q] /\ pos'[q] = pos[q]
          /\ attempt'[q] = attempt[q] /\ undo'[q] = undo[q] /\ result'[q] = result[q]

LEMMA OnlyRunStep ==
    ASSUME TypeOK, NEW r \in Runs, RunStep(r) \/ Wakeup(r)
    PROVE  OnlyRun(r) /\ of'[r] = of[r] /\ up /\ up'
<1> USE DEF TypeOK, OnlyRun, Holds, Idle, SetStatus, End, Goto, Leave, Resolve
<1>1. CASE StopOnAbort(r) BY <1>1 DEF StopOnAbort, AtStep, AtLoop, server
<1>2. CASE SkipCompleted(r) BY <1>2 DEF SkipCompleted, AtStep, AtLoop, server
<1>3. CASE AwaitApproval(r) BY <1>3 DEF AwaitApproval, Fresh, AtStep, AtLoop, server
<1>4. CASE DepsMissing(r) BY <1>4 DEF DepsMissing, Fresh, AtStep, AtLoop, server
<1>5. CASE Dispatch(r) BY <1>5 DEF Dispatch, Fresh, AtStep, AtLoop, server
<1>6. CASE Finish(r) BY <1>6 DEF Finish, AtLoop, server
<1>7. CASE RecordStepExecution(r) BY <1>7 DEF RecordStepExecution, server
<1>8. CASE Checkpoint(r) BY <1>8 DEF Checkpoint, server
<1>9. CASE FailStep(r) BY <1>9 DEF FailStep, server
<1>10. CASE StartCompensation(r) BY <1>10 DEF StartCompensation, server
<1>11. CASE CallCompensation(r) BY <1>11 DEF CallCompensation, server
<1>12. CASE EndCompensation(r) BY <1>12 DEF EndCompensation, server
<1>13. CASE CallCompletes(r) BY <1>13 DEF CallCompletes, server
<1>14. CASE CallFails(r) BY <1>14 DEF CallFails, server
<1>15. CASE CallRejects(r) BY <1>15 DEF CallRejects, server
<1>16. CASE BackoffElapses(r) BY <1>16 DEF BackoffElapses, server
<1>17. CASE CompensationReturns(r) BY <1>17 DEF CompensationReturns, server
<1> QED BY <1>1, <1>2, <1>3, <1>4, <1>5, <1>6, <1>7, <1>8, <1>9, <1>10, <1>11, <1>12,
           <1>13, <1>14, <1>15, <1>16, <1>17 DEF RunStep, Wakeup

\* The other runs are where they were.
LEMMA OthersInPlace ==
    ASSUME Coherent, NEW r \in Runs, OnlyRun(r)
    PROVE  \A q \in Runs \ {r} : InPlace(q)'
<1> TAKE q \in Runs \ {r}
<1>1. InPlace(q) BY DEF Coherent
<1> QED BY <1>1 DEF InPlace, OnlyRun, Live

LEMMA ThreadRunStep ==
    ASSUME TypeOK, Coherent, NEW r \in Runs, RunStep(r) \/ Wakeup(r)
    PROVE  ThreadHeld'
<1> SUFFICES /\ (pc'[r] \in Busy /\ thread' = r) \/ (pc'[r] \notin Busy /\ thread' = None)
             /\ \A q \in Runs \ {r} : pc[q] \notin Busy
    BY OnlyRunStep, RunsAssumption DEF OnlyRun, ThreadHeld
<1>0. Holds(r) \/ (Idle /\ pc[r] \in Waiting)
      BY DEF RunStep, StopOnAbort, SkipCompleted, AwaitApproval, DepsMissing, Dispatch,
             Finish, RecordStepExecution, Checkpoint, FailStep, StartCompensation,
             CallCompensation, EndCompensation, Fresh, AtStep, AtLoop,
             Wakeup, CallCompletes, CallFails, CallRejects, BackoffElapses,
             CompensationReturns, Waiting
<1>a. \A q \in Runs \ {r} : pc[q] \notin Busy
      BY <1>0, RunsAssumption DEF Coherent, ThreadHeld, Holds, Idle
<1> USE DEF TypeOK, Holds, Idle, SetStatus, End, Goto, Leave, Resolve, Busy
<1>1. CASE StopOnAbort(r) BY <1>1, <1>a DEF StopOnAbort
<1>2. CASE SkipCompleted(r) BY <1>2, <1>a DEF SkipCompleted, AtStep, AtLoop
<1>3. CASE AwaitApproval(r) BY <1>3, <1>a DEF AwaitApproval
<1>4. CASE DepsMissing(r) BY <1>4, <1>a DEF DepsMissing
<1>5. CASE Dispatch(r) BY <1>5, <1>a DEF Dispatch, Fresh, AtStep, AtLoop
<1>6. CASE Finish(r) BY <1>6, <1>a DEF Finish
<1>7. CASE RecordStepExecution(r) BY <1>7, <1>a DEF RecordStepExecution
<1>8. CASE Checkpoint(r) BY <1>8, <1>a DEF Checkpoint
<1>9. CASE FailStep(r) BY <1>9, <1>a DEF FailStep
<1>10. CASE StartCompensation(r) BY <1>10, <1>a DEF StartCompensation
<1>11. CASE CallCompensation(r) BY <1>11, <1>a DEF CallCompensation
<1>12. CASE EndCompensation(r) BY <1>12, <1>a DEF EndCompensation
<1>13. CASE CallCompletes(r) BY <1>13, <1>a DEF CallCompletes
<1>14. CASE CallFails(r) BY <1>14, <1>a DEF CallFails
<1>15. CASE CallRejects(r) BY <1>15, <1>a DEF CallRejects
<1>16. CASE BackoffElapses(r) BY <1>16, <1>a DEF BackoffElapses
<1>17. CASE CompensationReturns(r) BY <1>17, <1>a DEF CompensationReturns
<1> QED BY <1>1, <1>2, <1>3, <1>4, <1>5, <1>6, <1>7, <1>8, <1>9, <1>10, <1>11, <1>12,
           <1>13, <1>14, <1>15, <1>16, <1>17 DEF RunStep, Wakeup

\* The run that moves ends up in its new place.
LEMMA InPlaceRunStep ==
    ASSUME TypeOK, Coherent, NEW r \in Runs, RunStep(r) \/ Wakeup(r)
    PROVE  InPlace(r)'
<1> USE PlanAssumption
<1>0. InPlace(r) BY DEF Coherent
<1>a. of'[r] = of[r] BY OnlyRunStep
<1>b. pc'[r] = "ended" => InPlace(r)'
      BY DEF InPlace, Live, Busy, Waiting
<1> USE DEF TypeOK, InPlace, Live, Busy, Waiting, Goto, Resolve
<1>1. CASE StopOnAbort(r) BY <1>1, <1>b DEF StopOnAbort, Leave, End
<1>2. CASE SkipCompleted(r) BY <1>0, <1>2, <1>a DEF SkipCompleted, AtStep, AtLoop, Steps
<1>3. CASE AwaitApproval(r) BY <1>3, <1>b DEF AwaitApproval, Leave, End
<1>4. CASE DepsMissing(r) BY <1>4, <1>b DEF DepsMissing, Leave, End
<1>5. CASE Dispatch(r)
      BY <1>0, <1>5, <1>a DEF Dispatch, Fresh, AtStep, AtLoop, DepsReady
<1>6. CASE Finish(r) BY <1>6, <1>b DEF Finish, Leave, End
<1>7. CASE RecordStepExecution(r) BY <1>0, <1>7, <1>a DEF RecordStepExecution
<1>8. CASE Checkpoint(r) BY <1>0, <1>8, <1>a DEF Checkpoint, WithStep, Steps
<1>9. CASE FailStep(r) BY <1>0, <1>9, <1>a, <1>b DEF FailStep, SetStatus, End
<1>10. CASE StartCompensation(r)
      BY <1>0, <1>10, <1>a DEF StartCompensation, SetStatus, WorkflowState
<1>11. CASE CallCompensation(r) BY <1>0, <1>11, <1>a DEF CallCompensation
<1>12. CASE EndCompensation(r) BY <1>12, <1>b DEF EndCompensation, Leave, End
<1>13. CASE CallCompletes(r) BY <1>0, <1>13, <1>a DEF CallCompletes
<1>14. CASE CallFails(r) BY <1>0, <1>14, <1>a DEF CallFails
<1>15. CASE CallRejects(r) BY <1>0, <1>15, <1>a DEF CallRejects
<1>16. CASE BackoffElapses(r) BY <1>0, <1>16, <1>a DEF BackoffElapses
<1>17. CASE CompensationReturns(r) BY <1>0, <1>17, <1>a DEF CompensationReturns, WorkflowState
<1> QED BY <1>1, <1>2, <1>3, <1>4, <1>5, <1>6, <1>7, <1>8, <1>9, <1>10, <1>11, <1>12,
           <1>13, <1>14, <1>15, <1>16, <1>17 DEF RunStep, Wakeup

LEMMA CoherentRunStep ==
    ASSUME TypeOK, Coherent, NEW r \in Runs, RunStep(r) \/ Wakeup(r)
    PROVE  Coherent'
<1>1. ThreadHeld' BY ThreadRunStep
<1>2. DownMeansDead' BY OnlyRunStep DEF DownMeansDead
<1>3. InPlace(r)' BY InPlaceRunStep
<1>4. \A q \in Runs \ {r} : InPlace(q)' BY OnlyRunStep, OthersInPlace
<1> QED BY <1>1, <1>2, <1>3, <1>4 DEF Coherent

\* Who may begin a run: an idle server for a new run, or the run's own handler.
MayBegin(r, w) ==
    (Idle /\ pc[r] = "new") \/ (Holds(r) /\ pc[r] = "starting" /\ of[r] = w)

LEMMA CoherentBegin ==
    ASSUME TypeOK, Coherent, NEW r \in Runs, NEW w \in Workflows, NEW o, MayBegin(r, w), Begin(r, w, o)
    PROVE  Coherent'
<1> USE RunsAssumption
<1>0. up /\ up' /\ \A q \in Runs \ {r} : pc[q] \notin Busy
      BY DEF MayBegin, Idle, Holds, Begin, server, Coherent, ThreadHeld
<1>1. ThreadHeld' BY <1>0 DEF Begin, Goto, ThreadHeld, TypeOK, Busy
<1>2. DownMeansDead' BY <1>0 DEF DownMeansDead
<1>3. \A q \in Runs \ {r} : InPlace(q)'
  <2>1. OnlyRun(r) BY DEF OnlyRun, Begin, Goto, TypeOK
  <2> QED BY <2>1, OthersInPlace
<1>4. InPlace(r)'
  <2>1. pos[r] = 1 BY DEF MayBegin, Coherent, InPlace
  <2> QED BY <2>1 DEF Begin, Goto, InPlace, TypeOK, WorkflowState, Live, Busy, Waiting
<1> QED BY <1>1, <1>2, <1>3, <1>4 DEF Coherent

LEMMA CoherentRequest ==
    ASSUME Coherent, NEW w \in Workflows, Request(w)
    PROVE  Coherent'
<1>1. /\ UNCHANGED <<pc, of, mem, pos, attempt, undo, thread>>
      /\ up' = up
      BY DEF Request, Create, Approve, Reject, Cancel, Pause, runs, server
<1> QED BY <1>1 DEF Coherent, ThreadHeld, DownMeansDead, InPlace, Live

LEMMA CoherentProcess ==
    ASSUME TypeOK, Coherent, Process
    PROVE  Coherent'
<1> USE RunsAssumption
<1>1. CASE Crash
  <2>1. \A r \in Runs : pc'[r] \in {"new", "ended"} /\ (pc'[r] = "new" => pc[r] = "new")
        BY <1>1 DEF Crash, TypeOK, PC, Live
  <2>2. thread' = None /\ ~up' BY <1>1 DEF Crash
  <2>3. ThreadHeld' BY <2>1, <2>2 DEF ThreadHeld, Busy
  <2>4. DownMeansDead' BY <2>1 DEF DownMeansDead, Live, Busy, Waiting
  <2>5. \A r \in Runs : InPlace(r)'
        BY <1>1, <2>1 DEF Crash, Coherent, InPlace, Live, Busy, Waiting
  <2> QED BY <2>3, <2>4, <2>5 DEF Coherent
<1>2. CASE Restart
  <2>1. /\ UNCHANGED <<pc, of, mem, pos, attempt, undo, thread>>
        /\ up' = TRUE
        BY <1>2 DEF Restart, runs
  <2> QED BY <2>1 DEF Coherent, ThreadHeld, DownMeansDead, InPlace, Live
<1>3. ASSUME NEW w \in Workflows, NEW s \in Steps, LateLanding(w, s) PROVE Coherent'
  <2>1. UNCHANGED <<pc, of, mem, pos, attempt, undo, thread, up>>
        BY <1>3 DEF LateLanding, runs, server
  <2> QED BY <2>1 DEF Coherent, ThreadHeld, DownMeansDead, InPlace, Live
<1> QED BY <1>1, <1>2, <1>3 DEF Process

-----------------------------------------------------------------------------
(* Rows and objects stay well formed                                       *)

LEMMA WellFormedSame ==
    ASSUME NEW m, NEW n, WellFormed(m), n.completed = m.completed, n.stack = m.stack
    PROVE  WellFormed(n)
BY DEF WellFormed

LEMMA WellFormedStatus ==
    ASSUME NEW m \in WorkflowState, WellFormed(m), NEW status
    PROVE  WellFormed([m EXCEPT !.status = status])
<1>1. /\ [m EXCEPT !.status = status].completed = m.completed
      /\ [m EXCEPT !.status = status].stack = m.stack
      BY DEF WorkflowState
<1> QED BY <1>1, WellFormedSame

\* Checkpointing the step after a completed prefix keeps the object well formed.
LEMMA WellFormedStep ==
    ASSUME NEW m \in WorkflowState, NEW s \in Steps \ m.completed,
           WellFormed(m), 1 .. s - 1 \subseteq m.completed
    PROVE  WellFormed(WithStep(m, s))
<1> USE PlanAssumption DEF Steps
<1> DEFINE n == WithStep(m, s)
<1>1. /\ n.completed = m.completed \cup {s}
      /\ n.stack = IF s \in Compensable THEN Append(m.stack, s) ELSE m.stack
      BY DEF WithStep
<1>2. m.completed \subseteq Steps /\ m.stack \in Seq(Steps) BY DEF WorkflowState
<1>3. \A t \in m.completed : t < s BY <1>2 DEF WellFormed
<1>4. \A i \in 1 .. Len(m.stack) : m.stack[i] \in m.completed /\ m.stack[i] < s
      BY <1>2, <1>3 DEF WellFormed
<1> HIDE DEF n
<1>5. \A t \in n.completed : \A u \in Steps : u < t => u \in n.completed
      BY <1>1, <1>2, <1>3 DEF WellFormed
<1>6. CASE s \in Compensable
  <2> DEFINE k == Len(m.stack)
  <2>1. k \in Nat BY <1>2
  <2>2. /\ Len(n.stack) = k + 1
        /\ \A i \in 1 .. k : n.stack[i] = m.stack[i]
        /\ n.stack[k + 1] = s
        BY <1>1, <1>2, <1>6
  <2>a. /\ \A i, j \in 1 .. k : i < j => m.stack[i] < m.stack[j]
        /\ \A t \in Steps :
              (t \in m.completed \cap Compensable) <=> (\E i \in 1 .. k : m.stack[i] = t)
        BY DEF WellFormed
  <2>b. \A i \in 1 .. k : m.stack[i] < s BY <1>4
  <2> HIDE DEF k
  <2>3. \A i, j \in 1 .. Len(n.stack) : i < j => n.stack[i] < n.stack[j]
    <3> TAKE i, j \in 1 .. Len(n.stack)
    <3> HAVE i < j
    <3>1. i \in 1 .. k BY <2>1, <2>2
    <3>2. CASE j \in 1 .. k BY <3>1, <3>2, <2>2, <2>a
    <3>3. CASE j = k + 1 BY <3>1, <3>3, <2>2, <2>b
    <3> QED BY <3>2, <3>3, <2>1, <2>2
  <2>4. \A t \in Steps :
           (t \in n.completed \cap Compensable)
              <=> (\E i \in 1 .. Len(n.stack) : n.stack[i] = t)
    <3> TAKE t \in Steps
    <3>1. 1 .. Len(n.stack) = 1 .. k \cup {k + 1} BY <2>1, <2>2
    <3>2. (\E i \in 1 .. Len(n.stack) : n.stack[i] = t)
             <=> ((\E i \in 1 .. k : m.stack[i] = t) \/ t = s)
          BY <3>1, <2>2
    <3> QED BY <3>2, <2>a, <1>1, <1>6
  <2> QED BY <1>5, <2>3, <2>4 DEF WellFormed, n
<1>7. CASE s \notin Compensable
  <2>1. n.stack = m.stack BY <1>1, <1>7
  <2> QED BY <1>1, <1>5, <1>7, <2>1 DEF WellFormed, n
<1> QED BY <1>6, <1>7

-----------------------------------------------------------------------------
(* What a run writes                                                       *)

\* A run writes its object as it is, under a new status other than `running',
\* or with one more completed step; or it writes nothing.
WritesObject(r) ==
    /\ row' = [row EXCEPT ![of[r]] = mem[r]] /\ mem' = mem
    /\ mem[r].status = "running" /\ pc'[r] \in {"call", "record"}

WritesStatus(r) ==
    \E status \in {"awaiting_approval", "completed", "failed", "compensating", "cancelled"} :
       /\ SetStatus(r, status)
       /\ status = "awaiting_approval" => pc[r] = "loop" /\ pc'[r] = "ended"

LEMMA RunWrites ==
    ASSUME TypeOK, Coherent, NEW r \in Runs, RunStep(r) \/ Wakeup(r)
    PROVE  \/ UNCHANGED <<row, mem>> /\ Live(r)'
           \/ WritesObject(r)
           \/ WritesStatus(r)
           \/ Checkpoint(r)
<1> USE DEF Leave, Status
<1>1. CASE StopOnAbort(r) BY <1>1 DEF StopOnAbort, WritesStatus
<1>2. CASE SkipCompleted(r)
      BY <1>2 DEF SkipCompleted, AtStep, AtLoop, db, Live, Busy
<1>3. CASE AwaitApproval(r)
      BY <1>3 DEF AwaitApproval, Fresh, AtStep, AtLoop, WritesStatus, End, TypeOK
<1>4. CASE DepsMissing(r) BY <1>4 DEF DepsMissing, WritesStatus
<1>5. CASE Dispatch(r)
      BY <1>5 DEF Dispatch, WritesObject, Goto, TypeOK, Coherent, InPlace, Fresh, AtStep, AtLoop
<1>6. CASE Finish(r) BY <1>6 DEF Finish, WritesStatus
<1>7. CASE RecordStepExecution(r)
      BY <1>7 DEF RecordStepExecution, Goto, TypeOK, Live, Busy
<1>8. CASE Checkpoint(r) BY <1>8
<1>9. CASE FailStep(r) BY <1>9 DEF FailStep, WritesStatus
<1>10. CASE StartCompensation(r) BY <1>10 DEF StartCompensation, WritesStatus
<1>11. CASE CallCompensation(r)
       BY <1>11 DEF CallCompensation, Goto, TypeOK, db, Live, Waiting
<1>12. CASE EndCompensation(r) BY <1>12 DEF EndCompensation, WritesStatus
<1>13. CASE Wakeup(r)
       BY <1>13 DEF Wakeup, CallCompletes, CallFails, CallRejects, BackoffElapses,
                    CompensationReturns, Resolve, Goto, TypeOK, db, Live, Busy, Waiting
<1> QED BY <1>1, <1>2, <1>3, <1>4, <1>5, <1>6, <1>7, <1>8, <1>9, <1>10, <1>11, <1>12, <1>13
        DEF RunStep

AllWellFormed == ObjectsWellFormed /\ StackMatchesCompleted

LEMMA WellFormedRunStep ==
    ASSUME TypeOK, Coherent, AllWellFormed, NEW r \in Runs, RunStep(r) \/ Wakeup(r)
    PROVE  AllWellFormed'
<1> USE DEF AllWellFormed, ObjectsWellFormed, StackMatchesCompleted
<1>1. WellFormed(mem[r]) /\ mem[r] \in WorkflowState BY DEF TypeOK
<1>2. CASE UNCHANGED <<row, mem>> BY <1>2
<1>3. CASE WritesObject(r) BY <1>1, <1>3 DEF WritesObject, TypeOK
<1>4. CASE WritesStatus(r)
  <2>1. PICK status : SetStatus(r, status) BY <1>4 DEF WritesStatus
  <2>2. WellFormed([mem[r] EXCEPT !.status = status]) BY <1>1, WellFormedStatus
  <2> QED BY <2>1, <2>2 DEF SetStatus, TypeOK
<1>5. CASE Checkpoint(r)
  <2>1. pos[r] \in Steps \ mem[r].completed /\ 1 .. pos[r] - 1 \subseteq mem[r].completed
        BY <1>5 DEF Checkpoint, Coherent, InPlace
  <2>2. WellFormed(WithStep(mem[r], pos[r])) BY <1>1, <2>1, WellFormedStep
  <2> QED BY <1>5, <2>2 DEF Checkpoint, TypeOK
<1> QED BY <1>2, <1>3, <1>4, <1>5, RunWrites

LEMMA WellFormedBegin ==
    ASSUME TypeOK, AllWellFormed, NEW r \in Runs, NEW w \in Workflows, NEW o, Begin(r, w, o)
    PROVE  AllWellFormed'
<1>1. WellFormed([row[w] EXCEPT !.status = "running"])
      BY WellFormedStatus DEF AllWellFormed, StackMatchesCompleted, TypeOK
<1> QED BY <1>1 DEF Begin, Rewrite, TypeOK, AllWellFormed, ObjectsWellFormed, StackMatchesCompleted

\* Requests and the process touch nothing of a row but its status.
OnlyStatuses ==
    /\ mem' = mem
    /\ \A w \in Workflows :
          row'[w].completed = row[w].completed /\ row'[w].stack = row[w].stack

LEMMA RequestStatuses ==
    ASSUME TypeOK, NEW w \in Workflows, Request(w)
    PROVE  OnlyStatuses /\ UNCHANGED <<stepLog, pc, of, pos, result>>
<1> USE DEF TypeOK, WorkflowState, OnlyStatuses, Rewrite, runs
<1>1. CASE Create(w) BY <1>1 DEF Create
<1>2. CASE Approve(w) BY <1>2 DEF Approve
<1>3. CASE Reject(w) BY <1>3 DEF Reject
<1>4. CASE Cancel(w) BY <1>4 DEF Cancel
<1>5. CASE Pause(w) BY <1>5 DEF Pause
<1> QED BY <1>1, <1>2, <1>3, <1>4, <1>5 DEF Request

LEMMA ProcessStatuses ==
    ASSUME TypeOK, Process
    PROVE  /\ OnlyStatuses
           /\ UNCHANGED <<stepLog, of, pos, result>>
           /\ \A r \in Runs : pc'[r] = pc[r] \/ pc'[r] = "ended"
<1> USE DEF TypeOK, WorkflowState, OnlyStatuses, runs, db
<1>1. CASE Crash BY <1>1 DEF Crash
<1>2. CASE Restart BY <1>2 DEF Restart
<1>3. ASSUME NEW w \in Workflows, NEW s \in Steps, LateLanding(w, s)
      PROVE  /\ OnlyStatuses
             /\ UNCHANGED <<stepLog, of, pos, result>>
             /\ \A r \in Runs : pc'[r] = pc[r] \/ pc'[r] = "ended"
      BY <1>3 DEF LateLanding
<1> QED BY <1>1, <1>2, <1>3 DEF Process

LEMMA WellFormedStatuses ==
    ASSUME AllWellFormed, OnlyStatuses
    PROVE  AllWellFormed'
<1>1. \A w \in Workflows : WellFormed(row'[w])
      BY WellFormedSame DEF AllWellFormed, StackMatchesCompleted, OnlyStatuses
<1> QED BY <1>1 DEF AllWellFormed, ObjectsWellFormed, StackMatchesCompleted, OnlyStatuses

-----------------------------------------------------------------------------
(* A row claims only recorded steps                                        *)

AllLogged == LoggedByRuns /\ LoggedBeforeCheckpointed

\* Execution records are only ever added.
LEMMA LogGrows ==
    ASSUME TypeOK, NEW r \in Runs, RunStep(r) \/ Wakeup(r)
    PROVE  \/ UNCHANGED stepLog
           \/ RecordStepExecution(r)
<1> USE DEF Leave, db
<1>1. CASE RunStep(r)
      BY <1>1 DEF RunStep, StopOnAbort, SkipCompleted, AwaitApproval, DepsMissing, Dispatch,
             Finish, Checkpoint, FailStep, StartCompensation, CallCompensation, EndCompensation
<1>2. CASE Wakeup(r)
      BY <1>2 DEF Wakeup, CallCompletes, CallFails, CallRejects, BackoffElapses,
             CompensationReturns
<1> QED BY <1>1, <1>2

LEMMA LoggedRunStep ==
    ASSUME TypeOK, Coherent, AllLogged, NEW r \in Runs, RunStep(r) \/ Wakeup(r)
    PROVE  AllLogged'
<1>1. Live(r) /\ pc[r] # "starting" /\ of[r] \in Workflows
  <2>1. Live(r) /\ pc[r] # "starting"
        BY DEF RunStep, StopOnAbort, SkipCompleted, AwaitApproval, DepsMissing, Dispatch,
               Finish, RecordStepExecution, Checkpoint, FailStep, StartCompensation,
               CallCompensation, EndCompensation, Fresh, AtStep, AtLoop, Wakeup,
               CallCompletes, CallFails, CallRejects, BackoffElapses,
               CompensationReturns, Live, Busy, Waiting
  <2> QED BY <2>1 DEF Coherent, InPlace
<1>2. /\ mem[r].completed \subseteq stepLog[of[r]]["completed"]
      /\ \A w \in Workflows : row[w].completed \subseteq stepLog[w]["completed"]
      BY <1>1 DEF AllLogged, LoggedByRuns, LoggedBeforeCheckpointed
<1>3. \A w \in Workflows : stepLog[w]["completed"] \subseteq stepLog'[w]["completed"]
  <2>1. CASE UNCHANGED stepLog BY <2>1
  <2>2. CASE RecordStepExecution(r)
    <3>1. stepLog' = [stepLog EXCEPT ![of[r]][result[r]] = stepLog[of[r]][result[r]] \cup {pos[r]}]
          BY <2>2 DEF RecordStepExecution
    <3>2. result[r] \in Outcome BY DEF TypeOK
    <3> QED BY <3>1, <3>2, <1>1 DEF TypeOK, Outcome
  <2> QED BY <2>1, <2>2, LogGrows
<1>4. OnlyRun(r) /\ of' = of
  <2>1. OnlyRun(r) /\ of'[r] = of[r] BY OnlyRunStep
  <2>2. of' = of
        BY DEF RunStep, StopOnAbort, SkipCompleted, AwaitApproval, DepsMissing, Dispatch,
               Finish, RecordStepExecution, Checkpoint, FailStep, StartCompensation,
               CallCompensation, EndCompensation, Leave, Wakeup,
               CallCompletes, CallFails, CallRejects, BackoffElapses, CompensationReturns
  <2> QED BY <2>1, <2>2
<1>5. /\ mem'[r].completed \subseteq stepLog'[of[r]]["completed"]
      /\ \A w \in Workflows : row'[w].completed \subseteq stepLog'[w]["completed"]
  <2>1. CASE UNCHANGED <<row, mem>> BY <2>1, <1>1, <1>2, <1>3
  <2>2. CASE WritesObject(r) BY <2>2, <1>1, <1>2, <1>3 DEF WritesObject, TypeOK
  <2>3. CASE WritesStatus(r)
    <3>1. PICK status : SetStatus(r, status) BY <2>3 DEF WritesStatus
    <3>2. [mem[r] EXCEPT !.status = status].completed = mem[r].completed
          BY DEF TypeOK, WorkflowState
    <3> QED BY <3>1, <3>2, <1>1, <1>2, <1>3 DEF SetStatus, TypeOK, WorkflowState
  <2>4. CASE Checkpoint(r)
    <3>1. pos[r] \in stepLog[of[r]]["completed"]
          BY <2>4, <1>1 DEF Checkpoint, AllLogged, LoggedByRuns
    <3>2. WithStep(mem[r], pos[r]).completed \subseteq stepLog[of[r]]["completed"]
          BY <3>1, <1>2 DEF WithStep
    <3> QED BY <2>4, <3>2, <1>1, <1>2, <1>3 DEF Checkpoint, TypeOK
  <2> QED BY <2>1, <2>2, <2>3, <2>4, RunWrites
<1>6. pc'[r] = "settle" /\ result'[r] = "completed" => pos'[r] \in stepLog'[of[r]]["completed"]
  <2>1. CASE RecordStepExecution(r)
        BY <2>1, <1>1 DEF RecordStepExecution, TypeOK, Outcome
  <2>2. CASE ~RecordStepExecution(r)
    <3>1. pc'[r] # "settle"
      <4> USE DEF TypeOK, Goto, End, Leave, Resolve
      <4>1. CASE RunStep(r)
            BY <4>1, <2>2 DEF RunStep, StopOnAbort, SkipCompleted, AwaitApproval, DepsMissing,
               Dispatch, Finish, Checkpoint, FailStep, StartCompensation, CallCompensation,
               EndCompensation, AtStep, AtLoop
      <4>2. CASE Wakeup(r)
            BY <4>2 DEF Wakeup, CallCompletes, CallFails, CallRejects, BackoffElapses,
               CompensationReturns
      <4> QED BY <4>1, <4>2
    <3> QED BY <3>1
  <2> QED BY <2>1, <2>2
<1>7. \A q \in Runs \ {r} : Live(q)' /\ pc'[q] # "starting" =>
         /\ mem'[q].completed \subseteq stepLog'[of'[q]]["completed"]
         /\ pc'[q] = "settle" /\ result'[q] = "completed" =>
               pos'[q] \in stepLog'[of'[q]]["completed"]
      BY <1>3, <1>4 DEF OnlyRun, AllLogged, LoggedByRuns, Live, Coherent, InPlace
<1> QED BY <1>4, <1>5, <1>6, <1>7 DEF AllLogged, LoggedByRuns, LoggedBeforeCheckpointed, Live

LEMMA LoggedBegin ==
    ASSUME TypeOK, AllLogged, NEW r \in Runs, NEW w \in Workflows, NEW o, Begin(r, w, o)
    PROVE  AllLogged'
<1>1. [row[w] EXCEPT !.status = "running"].completed = row[w].completed
      BY DEF TypeOK, WorkflowState
<1>2. /\ row' = [row EXCEPT ![w] = [row[w] EXCEPT !.status = "running"]]
      /\ mem' = [mem EXCEPT ![r] = [row[w] EXCEPT !.status = "running"]]
      /\ pc' = [pc EXCEPT ![r] = "loop"] /\ of' = [of EXCEPT ![r] = w]
      /\ UNCHANGED <<stepLog, pos, result>>
      BY DEF Begin, Rewrite, Goto
<1>3. LoggedBeforeCheckpointed'
      BY <1>1, <1>2 DEF TypeOK, AllLogged, LoggedBeforeCheckpointed
<1>4. LoggedByRuns'
      BY <1>1, <1>2 DEF TypeOK, AllLogged, LoggedBeforeCheckpointed, LoggedByRuns, Live
<1> QED BY <1>3, <1>4 DEF AllLogged

LEMMA LoggedStatuses ==
    ASSUME TypeOK, AllLogged, OnlyStatuses, UNCHANGED <<stepLog, of, pos, result>>,
           \A r \in Runs : pc'[r] = pc[r] \/ pc'[r] = "ended"
    PROVE  AllLogged'
<1>1. LoggedBeforeCheckpointed' BY DEF AllLogged, LoggedBeforeCheckpointed, OnlyStatuses
<1>2. LoggedByRuns'
      BY DEF AllLogged, LoggedByRuns, OnlyStatuses, Live, Busy, Waiting
<1> QED BY <1>1, <1>2 DEF AllLogged

-----------------------------------------------------------------------------
(* A row that says `running' has a run                                     *)

LEMMA RunningRunStep ==
    ASSUME TypeOK, Coherent, RunningHasRun, NEW r \in Runs, RunStep(r) \/ Wakeup(r)
    PROVE  RunningHasRun'
<1>0. up /\ OnlyRun(r) /\ of'[r] = of[r] BY OnlyRunStep
<1> SUFFICES ASSUME NEW w \in Workflows, row'[w].status = "running"
             PROVE  \E q \in Runs : Live(q)' /\ of'[q] = w /\ mem'[q].status = "running"
    BY DEF RunningHasRun, LiveOn
\* A witness of the state before serves again if it is another run.
<1>1. ASSUME row[w].status = "running", of[r] # w
      PROVE  \E q \in Runs : Live(q)' /\ of'[q] = w /\ mem'[q].status = "running"
  <2>1. PICK q \in Runs : Live(q) /\ of[q] = w /\ mem[q].status = "running"
        BY <1>0, <1>1 DEF RunningHasRun, LiveOn
  <2>2. q # r BY <2>1, <1>1
  <2> QED BY <2>1, <2>2, <1>0 DEF OnlyRun, Live
<1>2. CASE UNCHANGED <<row, mem>> /\ Live(r)'
  <2>1. PICK q \in Runs : Live(q) /\ of[q] = w /\ mem[q].status = "running"
        BY <1>0, <1>2 DEF RunningHasRun, LiveOn
  <2>2. CASE q = r BY <2>1, <2>2, <1>0, <1>2
  <2>3. CASE q # r BY <2>1, <2>3, <1>0 DEF OnlyRun, Live
  <2> QED BY <2>2, <2>3
<1>3. CASE WritesObject(r)
  <2>1. Live(r)' /\ mem'[r].status = "running"
        BY <1>3 DEF WritesObject, Live, Busy, Waiting
  <2>2. CASE of[r] = w BY <2>1, <2>2, <1>0
  <2>3. CASE of[r] # w BY <2>3, <1>1, <1>3 DEF WritesObject, TypeOK
  <2> QED BY <2>2, <2>3
<1>4. CASE WritesStatus(r)
  <2>1. PICK status \in Status : SetStatus(r, status) /\ status # "running"
        BY <1>4 DEF WritesStatus, Status
  <2>2. of[r] # w BY <2>1 DEF SetStatus, TypeOK, WorkflowState
  <2>3. row[w].status = "running" BY <2>1, <2>2 DEF SetStatus, TypeOK
  <2> QED BY <2>2, <2>3, <1>1
<1>5. CASE Checkpoint(r)
  <2>1. Live(r)' /\ mem'[r].status = "running"
        BY <1>5 DEF Checkpoint, WithStep, Goto, TypeOK, Coherent, InPlace, Live, Busy
  <2>2. CASE of[r] = w BY <2>1, <2>2, <1>0
  <2>3. CASE of[r] # w BY <2>3, <1>1, <1>5 DEF Checkpoint, TypeOK
  <2> QED BY <2>2, <2>3
<1> QED BY <1>2, <1>3, <1>4, <1>5, RunWrites

LEMMA RunningBegin ==
    ASSUME TypeOK, RunningHasRun, NEW r \in Runs, NEW w \in Workflows, NEW o,
           MayBegin(r, w), Begin(r, w, o)
    PROVE  RunningHasRun'
<1> SUFFICES ASSUME NEW v \in Workflows, row'[v].status = "running"
             PROVE  \E q \in Runs : Live(q)' /\ of'[q] = v /\ mem'[q].status = "running"
    BY DEF RunningHasRun, LiveOn
<1>1. /\ row' = [row EXCEPT ![w] = [row[w] EXCEPT !.status = "running"]]
      /\ mem' = [mem EXCEPT ![r] = [row[w] EXCEPT !.status = "running"]]
      /\ pc' = [pc EXCEPT ![r] = "loop"] /\ of' = [of EXCEPT ![r] = w]
      BY DEF Begin, Rewrite, Goto
<1>2. CASE v = w
      BY <1>1, <1>2 DEF TypeOK, WorkflowState, Live, Busy
<1>3. CASE v # w
  <2>1. row[v].status = "running" BY <1>1, <1>3 DEF TypeOK
  <2>2. PICK q \in Runs : Live(q) /\ of[q] = v /\ mem[q].status = "running"
        BY <2>1 DEF RunningHasRun, LiveOn, MayBegin, Idle, Holds
  <2>3. q # r BY <2>2, <1>3 DEF MayBegin, Live, Busy, Waiting
  <2> QED BY <2>2, <2>3, <1>1 DEF TypeOK, Live
<1> QED BY <1>2, <1>3

LEMMA RunningRequest ==
    ASSUME TypeOK, RunningHasRun, NEW w \in Workflows, Request(w)
    PROVE  RunningHasRun'
<1>1. /\ UNCHANGED <<pc, of, mem>> /\ up' = up
      /\ \A v \in Workflows : row'[v].status = "running" => row[v].status = "running"
  <2> USE DEF TypeOK, WorkflowState, Rewrite, runs, server, NewStatus
  <2>1. CASE Create(w) BY <2>1 DEF Create
  <2>2. CASE Approve(w) BY <2>2 DEF Approve
  <2>3. CASE Reject(w) BY <2>3 DEF Reject
  <2>4. CASE Cancel(w) BY <2>4 DEF Cancel
  <2>5. CASE Pause(w) BY <2>5 DEF Pause
  <2> QED BY <2>1, <2>2, <2>3, <2>4, <2>5 DEF Request
<1> QED BY <1>1 DEF RunningHasRun, LiveOn, Live

LEMMA RunningProcess ==
    ASSUME TypeOK, RunningHasRun, Process
    PROVE  RunningHasRun'
<1>1. CASE Crash BY <1>1 DEF Crash, RunningHasRun
<1>2. CASE Restart
  <2>1. \A w \in Workflows : row'[w].status # "running"
        BY <1>2 DEF Restart, TypeOK, WorkflowState
  <2> QED BY <2>1 DEF RunningHasRun
<1>3. ASSUME NEW w \in Workflows, NEW s \in Steps, LateLanding(w, s) PROVE RunningHasRun'
  <2>1. UNCHANGED <<row, pc, of, mem, up>> BY <1>3 DEF LateLanding, db, runs, server
  <2> QED BY <2>1 DEF RunningHasRun, LiveOn, Live
<1> QED BY <1>1, <1>2, <1>3 DEF Process

-----------------------------------------------------------------------------
(* The theorems                                                            *)

EngineInv == TypeOK /\ Coherent /\ AllWellFormed /\ AllLogged /\ RunningHasRun

LEMMA EngineInit == Init => EngineInv
<1> SUFFICES ASSUME Init PROVE EngineInv OBVIOUS
<1> USE PlanAssumption, RunsAssumption
<1>1. Absent \in WorkflowState BY DEF Absent, WorkflowState, Status
<1>2. WellFormed(Absent) BY DEF Absent, WellFormed
<1>3. TypeOK BY <1>1 DEF Init, TypeOK, PC, Outcome, NoOptions, Steps
<1>4. Coherent
      BY DEF Init, Coherent, ThreadHeld, DownMeansDead, InPlace, Live, Busy, Waiting
<1>5. AllWellFormed
      BY <1>2 DEF Init, AllWellFormed, ObjectsWellFormed, StackMatchesCompleted
<1>6. AllLogged
      BY DEF Init, AllLogged, LoggedByRuns, LoggedBeforeCheckpointed, Live, Busy, Waiting, Absent
<1>7. RunningHasRun BY DEF Init, RunningHasRun, Absent
<1> QED BY <1>3, <1>4, <1>5, <1>6, <1>7 DEF EngineInv

\* Each group of actions preserves the invariant.
LEMMA EngineInvRunStep ==
    ASSUME EngineInv, NEW r \in Runs, RunStep(r) \/ Wakeup(r)
    PROVE  EngineInv'
BY TypeRunStep, TypeWakeup, CoherentRunStep, WellFormedRunStep, LoggedRunStep, RunningRunStep
   DEF EngineInv

LEMMA EngineInvBegin ==
    ASSUME EngineInv, NEW r \in Runs, NEW w \in Workflows,
           NEW o \in [skipApproval : BOOLEAN, dryRun : BOOLEAN],
           MayBegin(r, w), Begin(r, w, o)
    PROVE  EngineInv'
BY TypeBegin, CoherentBegin, WellFormedBegin, LoggedBegin, RunningBegin DEF EngineInv

LEMMA EngineInvRequest ==
    ASSUME EngineInv, NEW w \in Workflows, Request(w)
    PROVE  EngineInv'
<1>1. OnlyStatuses /\ UNCHANGED <<stepLog, pc, of, pos, result>>
      BY RequestStatuses DEF EngineInv
<1> QED BY <1>1, TypeRequest, CoherentRequest, WellFormedStatuses, LoggedStatuses, RunningRequest
        DEF EngineInv

LEMMA EngineInvProcess ==
    ASSUME EngineInv, Process
    PROVE  EngineInv'
BY TypeProcess, CoherentProcess, ProcessStatuses, WellFormedStatuses, LoggedStatuses,
   RunningProcess DEF EngineInv

LEMMA EngineInvStutter ==
    ASSUME EngineInv, UNCHANGED vars
    PROVE  EngineInv'
<1>1. UNCHANGED <<row, stepLog, controllers, pc, of, mem, pos, opts, attempt, result, undo,
                  aborted, thread, up, crashes, late, landed, undoCalls>>
      BY DEF vars, db, runs, server, world
<1> QED BY <1>1 DEF EngineInv, TypeOK, Coherent, ThreadHeld, DownMeansDead, InPlace, Live,
        AllWellFormed, ObjectsWellFormed, StackMatchesCompleted, AllLogged, LoggedByRuns,
        LoggedBeforeCheckpointed, RunningHasRun, LiveOn

LEMMA EngineInvNext == EngineInv /\ [Next]_vars => EngineInv'
<1> SUFFICES ASSUME EngineInv, [Next]_vars PROVE EngineInv' OBVIOUS
<1>1. ASSUME NEW r \in Runs, RunStep(r) \/ Wakeup(r) PROVE EngineInv'
      BY <1>1, EngineInvRunStep
<1>2. ASSUME NEW r \in Runs, NEW w \in Workflows, NEW o \in Options,
             Start(r, w, o) \/ Resume(r, w, o)
      PROVE  EngineInv'
      BY <1>2, OptionsAssumption, EngineInvBegin DEF Start, Resume, MayBegin
<1>3. ASSUME NEW w \in Workflows, Create(w) \/ Approve(w) \/ Reject(w) \/ Cancel(w) \/ Pause(w)
      PROVE  EngineInv'
      BY <1>3, EngineInvRequest DEF Request
<1>4. CASE Process BY <1>4, EngineInvProcess
<1>5. CASE UNCHANGED vars BY <1>5, EngineInvStutter
<1> QED BY <1>1, <1>2, <1>3, <1>4, <1>5 DEF Next

\* The engine's state always has its shape, for every plan and any callers.
THEOREM TypeCorrect == Spec => []TypeOK
<1>1. EngineInv => TypeOK BY DEF EngineInv
<1> QED BY EngineInit, EngineInvNext, <1>1, PTL DEF Spec

\* The stack of a persisted row is exactly what rolling it back has to undo,
\* whatever is interleaved with the runs and wherever the process crashes.
THEOREM StackCorrect == Spec => []StackMatchesCompleted
<1>1. EngineInv => StackMatchesCompleted BY DEF EngineInv, AllWellFormed
<1> QED BY EngineInit, EngineInvNext, <1>1, PTL DEF Spec

\* A persisted row claims only steps whose completed execution is on record.
THEOREM CheckpointsAreRecorded == Spec => []LoggedBeforeCheckpointed
<1>1. EngineInv => LoggedBeforeCheckpointed BY DEF EngineInv, AllLogged
<1> QED BY EngineInit, EngineInvNext, <1>1, PTL DEF Spec

\* A step is with the executor only while its dependencies are on record.
THEOREM DependenciesComeFirst == Spec => []DependenciesRecorded
<1>1. EngineInv => DependenciesRecorded
  <2> SUFFICES ASSUME EngineInv, NEW r \in Runs, pc[r] \in {"call", "backoff"}
               PROVE  Deps[pos[r]] \subseteq stepLog[of[r]]["completed"]
      BY DEF DependenciesRecorded
  <2>1. Deps[pos[r]] \subseteq mem[r].completed BY DEF EngineInv, Coherent, InPlace
  <2>2. mem[r].completed \subseteq stepLog[of[r]]["completed"]
        BY DEF EngineInv, AllLogged, LoggedByRuns, Live, Waiting
  <2> QED BY <2>1, <2>2
<1> QED BY EngineInit, EngineInvNext, <1>1, PTL DEF Spec

\* While the server is up, no row says `running' without a run behind it.
THEOREM RunningIsReal == Spec => []RunningHasRun
<1>1. EngineInv => RunningHasRun BY DEF EngineInv
<1> QED BY EngineInit, EngineInvNext, <1>1, PTL DEF Spec
=============================================================================
