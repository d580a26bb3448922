------------------------ MODULE WorkflowRoutesProofs ------------------------
(***************************************************************************)
(* Proofs about the engine driven by the HTTP API: two runs never share a  *)
(* workflow, and a recorded step is never handed to the executor again;    *)
(* and it implements the abstract saga.                                    *)
(***************************************************************************)
EXTENDS WorkflowRoutes, WorkflowEngineProofs

RoutesInv == EngineInv /\ SingleRun /\ RowOwned /\ LogCaughtUp

\* The steps on record as completed for the workflow of run r.
Recorded(r) == stepLog[of[r]]["completed"]

-----------------------------------------------------------------------------
(* A run's own steps                                                       *)

\* A run that moves was alive and past `starting', and its workflow is the only
\* one whose row and record it touches.
LEMMA RunStepFrame ==
    ASSUME TypeOK, Coherent, NEW r \in Runs, RunStep(r) \/ Wakeup(r)
    PROVE  /\ Live(r) /\ pc[r] # "starting" /\ pc'[r] # "starting"
           /\ of[r] \in Workflows /\ of' = of
           /\ \A w \in Workflows \ {of[r]} : row'[w] = row[w] /\ stepLog'[w] = stepLog[w]
<1>1. Live(r) /\ pc[r] # "starting" /\ of' = of
      BY DEF RunStep, StopOnAbort, SkipCompleted, AwaitApproval, DepsMissing, Dispatch,
             Finish, RecordStepExecution, Checkpoint, FailStep, StartCompensation,
             CallCompensation, EndCompensation, Fresh, AtStep, AtLoop, Leave, Wakeup,
             CallCompletes, CallFails, CallRejects, BackoffElapses, CompensationReturns,
             Live, Busy, Waiting
<1>2. of[r] \in Workflows BY <1>1 DEF Coherent, InPlace
<1>3. pc'[r] # "starting"
  <2> USE DEF TypeOK, Goto, End, Leave, Resolve
  <2>1. CASE RunStep(r)
        BY <1>1, <2>1 DEF RunStep, StopOnAbort, SkipCompleted, AwaitApproval, DepsMissing,
             Dispatch, Finish, RecordStepExecution, Checkpoint, FailStep, StartCompensation,
             CallCompensation, EndCompensation
  <2>2. CASE Wakeup(r)
        BY <2>2 DEF Wakeup, CallCompletes, CallFails, CallRejects, BackoffElapses,
             CompensationReturns
  <2> QED BY <2>1, <2>2
<1>4. \A w \in Workflows \ {of[r]} : row'[w] = row[w]
      BY RunWrites DEF TypeOK, WritesObject, WritesStatus, SetStatus, Checkpoint
<1>5. \A w \in Workflows \ {of[r]} : stepLog'[w] = stepLog[w]
      BY LogGrows DEF TypeOK, RecordStepExecution
<1> QED BY <1>1, <1>2, <1>3, <1>4, <1>5

\* The object of the run keeps up with the record.
LEMMA RunStepCaughtUp ==
    ASSUME TypeOK, Coherent, LogCaughtUp, NEW r \in Runs, RunStep(r) \/ Wakeup(r)
    PROVE  /\ pc'[r] \in {"loop", "call", "backoff", "record"} =>
                 Recorded(r)' \subseteq mem'[r].completed
           /\ pc'[r] = "settle" => Recorded(r)' \subseteq mem'[r].completed \cup {pos'[r]}
<1>0. /\ pc[r] \in {"loop", "call", "backoff", "record"} => Recorded(r) \subseteq mem[r].completed
      /\ pc[r] = "settle" => Recorded(r) \subseteq mem[r].completed \cup {pos[r]}
      BY DEF LogCaughtUp, Recorded
<1>a. of[r] \in Workflows /\ of' = of BY RunStepFrame
<1>1. CASE SkipCompleted(r)
      BY <1>0, <1>1, <1>a DEF SkipCompleted, AtStep, AtLoop, Recorded, db
<1>2. CASE Dispatch(r)
      BY <1>0, <1>2, <1>a DEF Dispatch, Fresh, AtStep, AtLoop, Recorded, Goto, TypeOK
<1>3. CASE RecordStepExecution(r)
  <2>1. pc'[r] = "settle" /\ mem' = mem /\ pos' = pos /\ pc[r] = "record"
        BY <1>3 DEF RecordStepExecution, Goto, TypeOK
  <2>2. stepLog' = [stepLog EXCEPT ![of[r]][result[r]] = stepLog[of[r]][result[r]] \cup {pos[r]}]
        BY <1>3 DEF RecordStepExecution
  <2>3. Recorded(r)' \subseteq Recorded(r) \cup {pos[r]}
        BY <2>2, <1>a DEF Recorded, TypeOK, Outcome
  <2> QED BY <1>0, <2>1, <2>3
<1>4. CASE Checkpoint(r)
      BY <1>0, <1>4, <1>a DEF Checkpoint, WithStep, Goto, Recorded, TypeOK
<1>5. CASE Wakeup(r)
      BY <1>0, <1>5, <1>a DEF Wakeup, CallCompletes, CallFails, CallRejects, BackoffElapses,
         CompensationReturns, Resolve, Goto, Recorded, TypeOK, db
<1>6. CASE StopOnAbort(r) \/ AwaitApproval(r) \/ DepsMissing(r) \/ Finish(r) \/ EndCompensation(r)
  <2>1. End(r) BY <1>6 DEF StopOnAbort, AwaitApproval, DepsMissing, Finish, EndCompensation, Leave
  <2> QED BY <2>1 DEF End, TypeOK
<1>7. CASE FailStep(r) BY <1>7 DEF FailStep, End, Goto, TypeOK
<1>8. CASE StartCompensation(r) BY <1>8 DEF StartCompensation, Goto, TypeOK
<1>9. CASE CallCompensation(r) BY <1>9 DEF CallCompensation, Goto, TypeOK
<1> QED BY <1>1, <1>2, <1>3, <1>4, <1>5, <1>6, <1>7, <1>8, <1>9 DEF RunStep

\* While the run lives its row is none that a route would start; if the run
\* leaves such a row behind (a wait for approval), the row knows the record.
LEMMA RunStepRow ==
    ASSUME TypeOK, Coherent, RowOwned, LogCaughtUp, NEW r \in Runs, RunStep(r) \/ Wakeup(r)
    PROVE  /\ Live(r)' => row'[of[r]].status \notin Unstarted
           /\ row'[of[r]].status \in Unstarted => Recorded(r)' \subseteq row'[of[r]].completed
<1>1. Live(r) /\ pc[r] # "starting" /\ of[r] \in Workflows /\ of' = of BY RunStepFrame
<1>2. row[of[r]].status \notin Unstarted BY <1>1 DEF RowOwned
<1>3. CASE UNCHANGED <<row, mem>> /\ Live(r)' BY <1>1, <1>2, <1>3
<1>4. CASE WritesObject(r) BY <1>1, <1>4 DEF WritesObject, TypeOK, Unstarted
<1>5. CASE WritesStatus(r)
  <2>1. PICK status \in {"awaiting_approval", "completed", "failed", "compensating", "cancelled"} :
             /\ SetStatus(r, status)
             /\ status = "awaiting_approval" => pc[r] = "loop" /\ pc'[r] = "ended"
        BY <1>5 DEF WritesStatus
  <2>2. row'[of[r]] = [mem[r] EXCEPT !.status = status] BY <2>1, <1>1 DEF SetStatus, TypeOK
  <2>3. row'[of[r]].status = status /\ row'[of[r]].completed = mem[r].completed
        BY <2>2 DEF TypeOK, WorkflowState
  <2>4. CASE status = "awaiting_approval"
    <3>1. UNCHANGED stepLog
          BY <2>1, <2>4, LogGrows DEF RecordStepExecution
    <3>2. Recorded(r) \subseteq mem[r].completed BY <2>1, <2>4 DEF LogCaughtUp, Recorded
    <3> QED BY <1>1, <2>1, <2>3, <2>4, <3>1, <3>2 DEF Recorded, Live, Busy, Waiting
  <2>5. CASE status # "awaiting_approval" BY <2>1, <2>3, <2>5 DEF Unstarted
  <2> QED BY <2>4, <2>5
<1>6. CASE Checkpoint(r)
  <2>1. mem[r].status = "running" BY <1>6 DEF Checkpoint, Coherent, InPlace
  <2> QED BY <1>1, <1>6, <2>1 DEF Checkpoint, WithStep, TypeOK, Unstarted
<1> QED BY <1>3, <1>4, <1>5, <1>6, RunWrites

LEMMA RoutesInvRunStep ==
    ASSUME RoutesInv, NEW r \in Runs, RunStep(r) \/ Wakeup(r)
    PROVE  RoutesInv'
<1> USE DEF RoutesInv
<1>0. TypeOK /\ Coherent BY DEF EngineInv
<1>1. EngineInv' BY EngineInvRunStep
<1>2. /\ Live(r) /\ pc'[r] # "starting" /\ of[r] \in Workflows /\ of' = of
      /\ \A w \in Workflows \ {of[r]} : row'[w] = row[w] /\ stepLog'[w] = stepLog[w]
      BY <1>0, RunStepFrame
<1>3. OnlyRun(r) BY <1>0, OnlyRunStep
<1>4. \A q \in Runs \ {r} : Live(q) => of[q] \in Workflows \ {of[r]}
      BY <1>0, <1>2 DEF SingleRun, Coherent, InPlace
<1>5. SingleRun' BY <1>2, <1>3 DEF SingleRun, OnlyRun, Live
<1>6. RowOwned'
  <2>1. Live(r)' => row'[of[r]].status \notin Unstarted BY <1>0, RunStepRow
  <2>2. \A q \in Runs \ {r} : Live(q) => row'[of[q]] = row[of[q]] BY <1>2, <1>4
  <2> QED BY <1>2, <1>3, <2>1, <2>2 DEF RowOwned, OnlyRun, Live
<1>7. LogCaughtUp'
  <2>1. \A w \in Workflows : row'[w].status \in Unstarted =>
           stepLog'[w]["completed"] \subseteq row'[w].completed
        BY <1>0, <1>2, RunStepRow DEF LogCaughtUp, Recorded
  <2>2. \A q \in Runs \ {r} : Live(q) => stepLog'[of[q]] = stepLog[of[q]] BY <1>2, <1>4
  <2>3. \A q \in Runs \ {r} :
           /\ pc'[q] \in {"loop", "call", "backoff", "record"} =>
                 stepLog'[of'[q]]["completed"] \subseteq mem'[q].completed
           /\ pc'[q] = "settle" =>
                 stepLog'[of'[q]]["completed"] \subseteq mem'[q].completed \cup {pos'[q]}
        BY <1>2, <1>3, <2>2 DEF LogCaughtUp, OnlyRun, Live, Busy, Waiting
  <2>4. /\ pc'[r] \in {"loop", "call", "backoff", "record"} =>
              stepLog'[of'[r]]["completed"] \subseteq mem'[r].completed
        /\ pc'[r] = "settle" =>
              stepLog'[of'[r]]["completed"] \subseteq mem'[r].completed \cup {pos'[r]}
        BY <1>0, RunStepCaughtUp DEF Recorded
  <2> QED BY <2>1, <2>3, <2>4 DEF LogCaughtUp
<1> QED BY <1>1, <1>5, <1>6, <1>7

-----------------------------------------------------------------------------
(* A route hands a workflow over to a run                                  *)

\* The row becomes `pending' and a new run is about to start it.
HandsOver(r, w, o) == Idle /\ Rewrite(w, "pending") /\ HandOver(r, w, o)

LEMMA EngineInvHandOver ==
    ASSUME EngineInv, NEW r \in Runs, NEW w \in Workflows,
           NEW o \in [skipApproval : BOOLEAN, dryRun : BOOLEAN], HandsOver(r, w, o)
    PROVE  EngineInv'
<1> USE RunsAssumption
<1>0. TypeOK /\ Coherent /\ AllWellFormed /\ AllLogged /\ RunningHasRun BY DEF EngineInv
<1>1. /\ pc[r] = "new" /\ pc' = [pc EXCEPT ![r] = "starting"]
      /\ of' = [of EXCEPT ![r] = w] /\ opts' = [opts EXCEPT ![r] = o]
      /\ thread' = r /\ thread = None /\ up /\ up' = up
      /\ row' = [row EXCEPT ![w] = [row[w] EXCEPT !.status = "pending"]]
      /\ UNCHANGED <<stepLog, mem, pos, attempt, result, undo>>
      BY DEF HandsOver, HandOver, Idle, Goto, Rewrite, server
<1>2. TypeOK'
  <2>1. row' \in [Workflows -> WorkflowState]
        BY <1>0, RewriteType DEF HandsOver, Status
  <2>2. pc' \in [Runs -> PC] BY <1>0, <1>1 DEF TypeOK, PC, Busy
  <2> QED BY <1>0, <1>1, <2>1, <2>2 DEF HandsOver, HandOver, TypeOK, server, world
<1>3. Coherent'
  <2>1. ThreadHeld' BY <1>0, <1>1 DEF TypeOK, Coherent, ThreadHeld, Busy
  <2>2. DownMeansDead' BY <1>1 DEF DownMeansDead
  <2>3. \A q \in Runs \ {r} : InPlace(q)'
    <3>1. OnlyRun(r) BY <1>0, <1>1 DEF OnlyRun, TypeOK
    <3> QED BY <1>0, <3>1, OthersInPlace
  <2>4. InPlace(r)' BY <1>0, <1>1 DEF TypeOK, Coherent, InPlace
  <2> QED BY <2>1, <2>2, <2>3, <2>4 DEF Coherent
<1>4. OnlyStatuses BY <1>0, <1>1 DEF OnlyStatuses, TypeOK, WorkflowState
<1>5. AllWellFormed' BY <1>0, <1>4, WellFormedStatuses
<1>6. AllLogged'
  <2>1. LoggedBeforeCheckpointed'
        BY <1>0, <1>1, <1>4 DEF AllLogged, LoggedBeforeCheckpointed, OnlyStatuses
  <2>2. LoggedByRuns' BY <1>0, <1>1 DEF AllLogged, LoggedByRuns, Live, TypeOK
  <2> QED BY <2>1, <2>2 DEF AllLogged
<1>7. RunningHasRun'
  <2> SUFFICES ASSUME NEW v \in Workflows, row'[v].status = "running"
               PROVE  \E q \in Runs : Live(q)' /\ of'[q] = v /\ mem'[q].status = "running"
      BY DEF RunningHasRun, LiveOn
  <2>1. row[v].status = "running" BY <1>0, <1>1 DEF TypeOK, WorkflowState
  <2>2. PICK q \in Runs : Live(q) /\ of[q] = v /\ mem[q].status = "running"
        BY <1>0, <1>1, <2>1 DEF RunningHasRun, LiveOn
  <2>3. q # r BY <1>1, <2>2 DEF Live, Busy, Waiting
  <2> QED BY <1>0, <1>1, <2>2, <2>3 DEF TypeOK, Live
<1> QED BY <1>2, <1>3, <1>5, <1>6, <1>7 DEF EngineInv

\* A row that a route starts has no live run.
LEMMA StartableIsFree ==
    ASSUME Coherent, RowOwned, Idle, NEW w \in Workflows, row[w].status \in Unstarted
    PROVE  \A q \in Runs : Live(q) => of[q] # w
<1> SUFFICES ASSUME NEW q \in Runs, Live(q), of[q] = w PROVE FALSE OBVIOUS
<1>1. pc[q] # "starting" BY RunsAssumption DEF Coherent, ThreadHeld, Idle, Busy
<1> QED BY <1>1 DEF RowOwned

LEMMA RoutesInvHandOver ==
    ASSUME RoutesInv, NEW r \in Runs, NEW w \in Workflows,
           NEW o \in [skipApproval : BOOLEAN, dryRun : BOOLEAN], HandsOver(r, w, o),
           row[w].status \in {"absent", "awaiting_approval"}
    PROVE  RoutesInv'
<1> USE DEF RoutesInv
<1>0. TypeOK /\ Coherent BY DEF EngineInv
<1>1. EngineInv' BY EngineInvHandOver
<1>2. /\ pc[r] = "new" /\ pc' = [pc EXCEPT ![r] = "starting"]
      /\ of' = [of EXCEPT ![r] = w]
      /\ row' = [row EXCEPT ![w] = [row[w] EXCEPT !.status = "pending"]]
      /\ UNCHANGED <<stepLog, mem, pos>>
      BY DEF HandsOver, HandOver, Goto, Rewrite
<1>3. \A q \in Runs : Live(q) => of[q] # w /\ q # r
  <2>1. \A q \in Runs : Live(q) => of[q] # w
        BY <1>0, StartableIsFree DEF HandsOver, Unstarted
  <2> QED BY <1>2, <2>1 DEF Live, Busy, Waiting
<1>4. \A q \in Runs \ {r} : pc'[q] = pc[q] /\ of'[q] = of[q] BY <1>0, <1>2 DEF TypeOK
<1>5. pc'[r] = "starting" /\ of'[r] = w BY <1>0, <1>2 DEF TypeOK
<1>6. SingleRun' BY <1>3, <1>4, <1>5 DEF SingleRun, Live
<1>7. RowOwned'
  <2>1. row'[w].status = "pending" BY <1>0, <1>2 DEF TypeOK, WorkflowState
  <2>2. \A q \in Runs \ {r} : Live(q) => row'[of[q]] = row[of[q]]
        BY <1>0, <1>2, <1>3 DEF TypeOK, Coherent, InPlace
  <2> QED BY <1>4, <1>5, <2>1, <2>2 DEF RowOwned, Live
<1>8. LogCaughtUp'
  <2>1. \A v \in Workflows : row'[v].status \in Unstarted =>
           row[v].status \in Unstarted /\ row'[v].completed = row[v].completed
        BY <1>0, <1>2 DEF TypeOK, WorkflowState, Unstarted
  <2> QED BY <1>2, <1>4, <1>5, <2>1 DEF LogCaughtUp
<1> QED BY <1>1, <1>6, <1>7, <1>8

\* The handler goes on and starts the workflow it was handed.
LEMMA RoutesInvStartRun ==
    ASSUME RoutesInv, NEW r \in Runs, StartRun(r)
    PROVE  RoutesInv'
<1> USE DEF RoutesInv
<1>0. TypeOK /\ Coherent BY DEF EngineInv
<1>1. Holds(r) /\ pc[r] = "starting" /\ Begin(r, of[r], opts[r]) BY DEF StartRun
<1>2. of[r] \in Workflows BY <1>0, <1>1, HolderIsLive
<1>3. EngineInv' BY <1>0, <1>1, <1>2, EngineInvBegin DEF MayBegin, TypeOK
<1>4. /\ pc' = [pc EXCEPT ![r] = "loop"] /\ of' = of
      /\ mem' = [mem EXCEPT ![r] = [row[of[r]] EXCEPT !.status = "running"]]
      /\ row' = [row EXCEPT ![of[r]] = [row[of[r]] EXCEPT !.status = "running"]]
      /\ UNCHANGED <<stepLog, pos>>
      BY <1>0, <1>1 DEF Begin, Goto, Rewrite, TypeOK
<1>5. Live(r) /\ row[of[r]].status = "pending" BY <1>1 DEF RowOwned, Live, Busy
<1>6. \A q \in Runs \ {r} : pc'[q] = pc[q] /\ (Live(q) => of[q] \in Workflows \ {of[r]})
      BY <1>0, <1>4, <1>5 DEF SingleRun, TypeOK, Coherent, InPlace
<1>7. SingleRun' BY <1>4, <1>5, <1>6 DEF SingleRun, Live
<1>8. /\ pc'[r] = "loop" /\ row'[of[r]].status = "running"
      /\ mem'[r].completed = row[of[r]].completed
      BY <1>0, <1>2, <1>4 DEF TypeOK, WorkflowState
<1>9. RowOwned'
  <2>1. \A q \in Runs \ {r} : Live(q) => row'[of[q]] = row[of[q]] BY <1>0, <1>4, <1>6 DEF TypeOK
  <2> QED BY <1>4, <1>6, <1>8, <2>1 DEF RowOwned, Unstarted, Live
<1>10. LogCaughtUp'
  <2>1. Recorded(r) \subseteq mem'[r].completed
        BY <1>2, <1>5, <1>8 DEF LogCaughtUp, Recorded, Unstarted
  <2>2. \A q \in Runs \ {r} : mem'[q] = mem[q] BY <1>0, <1>4 DEF TypeOK
  <2>3. \A w \in Workflows : row'[w].status \in Unstarted => row'[w] = row[w]
        BY <1>0, <1>4, <1>8 DEF TypeOK, Unstarted
  <2> QED BY <1>4, <1>6, <1>8, <2>1, <2>2, <2>3 DEF LogCaughtUp, Recorded
<1> QED BY <1>3, <1>7, <1>9, <1>10

-----------------------------------------------------------------------------
(* The other requests, and the process                                     *)

LEMMA RoutesInvRequest ==
    ASSUME RoutesInv, NEW w \in Workflows,
           Create(w) \/ Approve(w) \/ Reject(w) \/ Cancel(w)
    PROVE  RoutesInv'
<1> USE DEF RoutesInv
<1>0. TypeOK /\ Coherent BY DEF EngineInv
<1>1. EngineInv' BY EngineInvRequest DEF Request
<1>2. OnlyStatuses /\ UNCHANGED <<stepLog, pc, of, pos>>
      BY <1>0, RequestStatuses DEF Request
\* Nothing but a new row becomes startable, and what was startable is free.
<1>3. /\ Idle
      /\ \A v \in Workflows : row'[v].status \in Unstarted => row[v].status \in Unstarted
      /\ row[w].status \in Unstarted \/ row'[w].status \notin Unstarted
      /\ \A v \in Workflows \ {w} : row'[v] = row[v]
  <2> USE DEF TypeOK, WorkflowState, Rewrite, Unstarted
  <2>1. CASE Create(w) BY <1>0, <2>1 DEF Create
  <2>2. CASE Reject(w) BY <1>0, <2>2 DEF Reject
  <2>3. CASE Cancel(w) BY <1>0, <2>3 DEF Cancel
  <2>4. CASE Approve(w) BY <1>0, <2>4 DEF Approve
  <2> QED BY <2>1, <2>2, <2>3, <2>4
<1>4. SingleRun' BY <1>2 DEF SingleRun, Live
<1>5. RowOwned'
  <2>1. \A q \in Runs : Live(q) => pc[q] # "starting" /\ of[q] \in Workflows
        BY <1>0, <1>3, RunsAssumption DEF Coherent, InPlace, ThreadHeld, Idle, Busy
  <2>2. \A q \in Runs : Live(q) => row[of[q]].status \notin Unstarted BY <2>1 DEF RowOwned
  <2>3. \A q \in Runs : Live(q) => row'[of[q]].status \notin Unstarted BY <1>3, <2>1, <2>2
  <2> QED BY <1>2, <2>1, <2>3 DEF RowOwned, Live
<1>6. LogCaughtUp' BY <1>2, <1>3 DEF LogCaughtUp, OnlyStatuses
<1> QED BY <1>1, <1>4, <1>5, <1>6

LEMMA RoutesInvProcess ==
    ASSUME RoutesInv, Process
    PROVE  RoutesInv'
<1> USE DEF RoutesInv
<1>0. TypeOK /\ Coherent BY DEF EngineInv
<1>1. EngineInv' BY EngineInvProcess
<1>2. CASE Crash
  <2>1. \A r \in Runs : pc'[r] \in {"new", "ended"}
        BY <1>0, <1>2 DEF Crash, TypeOK, PC, Live
  <2>2. UNCHANGED <<row, stepLog, of, mem, pos>> BY <1>2 DEF Crash, db
  <2> QED BY <1>1, <2>1, <2>2 DEF SingleRun, RowOwned, LogCaughtUp, Live, Busy, Waiting
<1>3. CASE Restart
  <2>1. \A r \in Runs : ~Live(r) BY <1>0, <1>3 DEF Restart, Coherent, DownMeansDead
  <2>2. UNCHANGED <<stepLog, pc, of, mem, pos>> BY <1>3 DEF Restart, runs
  <2>3. \A w \in Workflows : row'[w].status \in Unstarted => row'[w] = row[w]
        BY <1>0, <1>3 DEF Restart, TypeOK, WorkflowState, Unstarted
  <2> QED BY <1>1, <2>1, <2>2, <2>3 DEF SingleRun, RowOwned, LogCaughtUp, Live
<1>4. ASSUME NEW w \in Workflows, NEW s \in Steps, LateLanding(w, s) PROVE RoutesInv'
  <2>1. UNCHANGED <<row, stepLog, pc, of, mem, pos>> BY <1>4 DEF LateLanding, db, runs
  <2> QED BY <1>1, <2>1 DEF SingleRun, RowOwned, LogCaughtUp, Live
<1> QED BY <1>2, <1>3, <1>4 DEF Process

-----------------------------------------------------------------------------
(* Compensation                                                            *)

Compensates(r) == pc[r] \in {"undo", "undoing"}

\* No compensation of the workflow was called yet.
Untouched(w) == \A s \in Steps : undoCalls[w][s] = 0

\* The entries of the stack below this one are still to be called.
Below(r) == IF pc[r] = "undoing" THEN undo[r] - 1 ELSE undo[r]

\* A run that compensates has called what is above, once, and nothing below.
UndoneDown(r) ==
    \A i \in 1 .. Len(mem[r].stack) :
        undoCalls[of[r]][mem[r].stack[i]] = IF i <= Below(r) THEN 0 ELSE 1

\* The run will go forward no more, and its object says all that was done.
Failing(r) ==
    pc[r] \in {"compensate", "undo", "undoing"} \/ (pc[r] = "settle" /\ result[r] = "failed")

\* Compensations are called by one run of a workflow, down its stack, and no
\* other run starts on the workflow after that.
UndoInv ==
    /\ CompensatedOnce
    /\ \A w \in Workflows : row[w].status \in Unstarted => Untouched(w)
    /\ \A r \in Runs :
          /\ Live(r) /\ ~Compensates(r) => Untouched(of[r])
          /\ Compensates(r) => UndoneDown(r)
          /\ Failing(r) => Recorded(r) \subseteq mem[r].completed

\* A run's step either leaves the calls alone and does not reach into the stack,
\* or it belongs to the compensation.
LEMMA CompensationSteps ==
    ASSUME TypeOK, Coherent, NEW r \in Runs, RunStep(r) \/ Wakeup(r)
    PROVE  \/ StartCompensation(r) \/ CallCompensation(r) \/ CompensationReturns(r)
           \/ EndCompensation(r)
           \/ undoCalls' = undoCalls /\ ~Compensates(r) /\ ~Compensates(r)'
<1> USE DEF Compensates, Leave, world, TypeOK
<1>1. CASE StopOnAbort(r) BY <1>1 DEF StopOnAbort, AtStep, AtLoop, End
<1>2. CASE SkipCompleted(r) BY <1>2 DEF SkipCompleted, AtStep, AtLoop
<1>3. CASE AwaitApproval(r) BY <1>3 DEF AwaitApproval, Fresh, AtStep, AtLoop, End
<1>4. CASE DepsMissing(r) BY <1>4 DEF DepsMissing, Fresh, AtStep, AtLoop, End
<1>5. CASE Dispatch(r) BY <1>5 DEF Dispatch, Fresh, AtStep, AtLoop, Goto
<1>6. CASE Finish(r) BY <1>6 DEF Finish, AtLoop, End
<1>7. CASE RecordStepExecution(r) BY <1>7 DEF RecordStepExecution, Goto
<1>8. CASE Checkpoint(r) BY <1>8 DEF Checkpoint, Goto
<1>9. CASE FailStep(r) BY <1>9 DEF FailStep, End, Goto
<1>10. CASE CallCompletes(r) \/ CallFails(r) \/ CallRejects(r) \/ BackoffElapses(r)
       BY <1>10 DEF CallCompletes, CallFails, CallRejects, BackoffElapses, Resolve, Goto
<1> QED BY <1>1, <1>2, <1>3, <1>4, <1>5, <1>6, <1>7, <1>8, <1>9, <1>10 DEF RunStep, Wakeup

\* What was recorded of a run that fails was checkpointed: the step that failed
\* was not on record as completed, or it would have been skipped.
LEMMA FailingKnowsAll ==
    ASSUME RoutesInv, UndoInv, NEW r \in Runs, RunStep(r) \/ Wakeup(r), Failing(r)'
    PROVE  Recorded(r)' \subseteq mem'[r].completed
<1> USE DEF Failing
<1>0. TypeOK /\ Coherent /\ LogCaughtUp BY DEF RoutesInv, EngineInv
<1>1. of[r] \in Workflows /\ of' = of BY <1>0, RunStepFrame
<1>2. CASE RecordStepExecution(r)
  <2>1. /\ pc[r] = "record" /\ pc'[r] = "settle" /\ result' = result /\ mem' = mem
        /\ stepLog' = [stepLog EXCEPT ![of[r]][result[r]] = stepLog[of[r]][result[r]] \cup {pos[r]}]
        BY <1>0, <1>2 DEF RecordStepExecution, Goto, TypeOK
  <2>2. result[r] = "failed" BY <2>1
  <2>3. Recorded(r)' = Recorded(r) BY <1>0, <1>1, <2>1, <2>2 DEF Recorded, TypeOK, Outcome
  <2> QED BY <1>0, <2>1, <2>3 DEF LogCaughtUp, Recorded
<1>3. CASE FailStep(r)
  <2>1. pc[r] = "settle" /\ result[r] = "failed" /\ stepLog' = stepLog BY <1>3 DEF FailStep
  <2>2. mem'[r].completed = mem[r].completed
        BY <1>0, <1>3 DEF FailStep, SetStatus, TypeOK, WorkflowState
  <2> QED BY <1>1, <2>1, <2>2 DEF UndoInv, Recorded
<1>4. CASE StartCompensation(r)
  <2>1. pc[r] = "compensate" /\ stepLog' = stepLog BY <1>4 DEF StartCompensation
  <2>2. mem'[r].completed = mem[r].completed
        BY <1>0, <1>4 DEF StartCompensation, SetStatus, TypeOK, WorkflowState
  <2> QED BY <1>1, <2>1, <2>2 DEF UndoInv, Recorded
<1>5. CASE CallCompensation(r) \/ CompensationReturns(r)
  <2>1. Failing(r) /\ stepLog' = stepLog /\ mem' = mem
        BY <1>5 DEF CallCompensation, CompensationReturns, db
  <2> QED BY <1>1, <2>1 DEF UndoInv, Recorded
<1>6. CASE Checkpoint(r) \/ SkipCompleted(r)
      BY <1>0, <1>6 DEF Checkpoint, SkipCompleted, AtStep, AtLoop, Goto, TypeOK
<1>7. CASE StopOnAbort(r) \/ AwaitApproval(r) \/ DepsMissing(r) \/ Finish(r) \/ EndCompensation(r)
  <2>1. End(r) BY <1>7 DEF StopOnAbort, AwaitApproval, DepsMissing, Finish, EndCompensation, Leave
  <2> QED BY <1>0, <2>1 DEF End, TypeOK
<1>8. CASE Dispatch(r) \/ CallCompletes(r) \/ CallFails(r) \/ CallRejects(r) \/ BackoffElapses(r)
      BY <1>0, <1>8 DEF Dispatch, CallCompletes, CallFails, CallRejects, BackoffElapses,
                        Resolve, Goto, TypeOK
<1> QED BY <1>2, <1>3, <1>4, <1>5, <1>6, <1>7, <1>8 DEF RunStep, Wakeup

\* The calls of the run's own workflow, and whether its row could be started.
LEMMA UndoOwn ==
    ASSUME RoutesInv, UndoInv, NEW r \in Runs, RunStep(r) \/ Wakeup(r)
    PROVE  /\ \A w \in Workflows \ {of[r]} : undoCalls'[w] = undoCalls[w]
           /\ \A s \in Steps : undoCalls'[of[r]][s] <= 1
           /\ row'[of[r]].status \in Unstarted => Untouched(of[r])'
           /\ Live(r)' /\ ~Compensates(r)' => Untouched(of[r])'
           /\ Compensates(r)' => UndoneDown(r)'
<1>0. TypeOK /\ Coherent /\ RowOwned /\ LogCaughtUp /\ WellFormed(mem[r])
      BY DEF RoutesInv, EngineInv, AllWellFormed, ObjectsWellFormed
<1>1. Live(r) /\ of[r] \in Workflows /\ of' = of BY <1>0, RunStepFrame
<1>2. Live(r)' => row'[of[r]].status \notin Unstarted BY <1>0, RunStepRow
<1>3. \A s \in Steps : undoCalls[of[r]][s] <= 1 BY <1>1 DEF UndoInv, CompensatedOnce
<1>4. CASE undoCalls' = undoCalls /\ ~Compensates(r) /\ ~Compensates(r)'
      BY <1>1, <1>3, <1>4 DEF UndoInv, Untouched
<1>5. CASE StartCompensation(r)
  <2>1. /\ pc[r] = "compensate" /\ pc'[r] = "undo" /\ undoCalls' = undoCalls
        /\ mem'[r].stack = mem[r].stack /\ undo'[r] = Len(mem[r].stack)
        BY <1>0, <1>5 DEF StartCompensation, SetStatus, Goto, TypeOK, WorkflowState, world
  <2>2. Untouched(of[r]) BY <1>1, <2>1 DEF UndoInv, Compensates
  <2>3. \A i \in 1 .. Len(mem[r].stack) : mem[r].stack[i] \in Steps
        BY <1>0 DEF TypeOK, WorkflowState
  <2>4. UndoneDown(r)' BY <1>1, <2>1, <2>2, <2>3 DEF UndoneDown, Below, Untouched
  <2>5. Compensates(r)' /\ Live(r)' BY <2>1 DEF Compensates, Live, Busy
  <2> QED BY <1>2, <1>3, <2>1, <2>4, <2>5
<1>6. CASE CallCompensation(r)
  <2> DEFINE top == mem[r].stack[undo[r]]
  <2>1. /\ pc[r] = "undo" /\ pc'[r] = "undoing" /\ undo[r] > 0
        /\ undoCalls' = [undoCalls EXCEPT ![of[r]][top] = undoCalls[of[r]][top] + 1]
        /\ mem' = mem /\ undo' = undo
        BY <1>0, <1>6 DEF CallCompensation, Goto, TypeOK, Count
  <2>2. undo[r] \in 1 .. Len(mem[r].stack) BY <1>0, <2>1 DEF Coherent, InPlace
  <2>3. \A i \in 1 .. Len(mem[r].stack) : mem[r].stack[i] \in Steps
        BY <1>0 DEF TypeOK, WorkflowState
  <2>4. UndoneDown(r) BY <2>1 DEF UndoInv, Compensates
  <2>5. undoCalls[of[r]][top] = 0 BY <2>1, <2>2, <2>4 DEF UndoneDown, Below
  <2>6. \A i \in 1 .. Len(mem[r].stack) : i # undo[r] => mem[r].stack[i] # top
    <3> SUFFICES ASSUME NEW i \in 1 .. Len(mem[r].stack), i # undo[r], mem[r].stack[i] = top
                 PROVE  FALSE
        OBVIOUS
    <3>1. i < undo[r] \/ undo[r] < i BY <2>2
    <3>2. top < top BY <1>0, <2>2, <3>1 DEF WellFormed
    <3> QED BY <2>2, <2>3, <3>2 DEF Steps
  <2> HIDE DEF top
  <2>7. /\ \A w \in Workflows \ {of[r]} : undoCalls'[w] = undoCalls[w]
        /\ \A s \in Steps : s # top => undoCalls'[of[r]][s] = undoCalls[of[r]][s]
        /\ top \in Steps => undoCalls'[of[r]][top] = 1
        BY <1>0, <1>1, <2>1, <2>5 DEF TypeOK
  <2>8. top \in Steps BY <2>2, <2>3 DEF top
  <2>9. UndoneDown(r)'
    <3> SUFFICES ASSUME NEW i \in 1 .. Len(mem[r].stack)
                 PROVE  undoCalls'[of[r]][mem[r].stack[i]] = IF i <= undo[r] - 1 THEN 0 ELSE 1
        BY <1>1, <2>1 DEF UndoneDown, Below
    <3>1. CASE i = undo[r] BY <2>2, <2>7, <2>8, <3>1 DEF top
    <3>2. CASE i # undo[r]
      <4>1. undoCalls[of[r]][mem[r].stack[i]] = IF i <= undo[r] THEN 0 ELSE 1
            BY <2>1, <2>4 DEF UndoneDown, Below
      <4> QED BY <2>2, <2>3, <2>6, <2>7, <3>2, <4>1
    <3> QED BY <3>1, <3>2
  <2>10. Compensates(r)' /\ Live(r)' BY <2>1 DEF Compensates, Live, Waiting
  <2>11. \A s \in Steps : undoCalls'[of[r]][s] <= 1 BY <1>3, <2>7, <2>8
  <2> QED BY <1>2, <2>7, <2>9, <2>10, <2>11
<1>7. CASE CompensationReturns(r)
  <2>1. /\ pc[r] = "undoing" /\ pc'[r] = "undo" /\ undoCalls' = undoCalls
        /\ mem' = mem /\ undo'[r] = undo[r] - 1
        BY <1>0, <1>7 DEF CompensationReturns, Goto, TypeOK, world
  <2>2. UndoneDown(r)' BY <1>1, <2>1 DEF UndoInv, Compensates, UndoneDown, Below
  <2>3. Compensates(r)' /\ Live(r)' BY <2>1 DEF Compensates, Live, Busy
  <2> QED BY <1>2, <1>3, <2>1, <2>2, <2>3
<1>8. CASE EndCompensation(r)
  <2>1. /\ undoCalls' = undoCalls /\ pc'[r] = "ended"
        /\ row' = [row EXCEPT ![of[r]] = [mem[r] EXCEPT !.status = "failed"]]
        BY <1>0, <1>8 DEF EndCompensation, Leave, SetStatus, End, TypeOK, world
  <2>2. row'[of[r]].status = "failed" BY <1>0, <1>1, <2>1 DEF TypeOK, WorkflowState
  <2> QED BY <1>3, <2>1, <2>2 DEF Unstarted, Live, Busy, Waiting, Compensates
<1> QED BY <1>0, <1>4, <1>5, <1>6, <1>7, <1>8, CompensationSteps

LEMMA UndoRunStep ==
    ASSUME RoutesInv, UndoInv, NEW r \in Runs, RunStep(r) \/ Wakeup(r)
    PROVE  UndoInv'
<1>0. TypeOK /\ Coherent /\ SingleRun BY DEF RoutesInv, EngineInv
<1>1. /\ Live(r) /\ of[r] \in Workflows /\ of' = of
      /\ \A w \in Workflows \ {of[r]} : row'[w] = row[w] /\ stepLog'[w] = stepLog[w]
      BY <1>0, RunStepFrame
<1>2. OnlyRun(r) BY <1>0, OnlyRunStep
<1>3. /\ \A w \in Workflows \ {of[r]} : undoCalls'[w] = undoCalls[w]
      /\ \A s \in Steps : undoCalls'[of[r]][s] <= 1
      /\ row'[of[r]].status \in Unstarted => Untouched(of[r])'
      /\ Live(r)' /\ ~Compensates(r)' => Untouched(of[r])'
      /\ Compensates(r)' => UndoneDown(r)'
      BY UndoOwn
<1>4. Failing(r)' => Recorded(r)' \subseteq mem'[r].completed BY FailingKnowsAll
<1>5. CompensatedOnce' BY <1>3 DEF UndoInv, CompensatedOnce
<1>6. \A w \in Workflows : row'[w].status \in Unstarted => Untouched(w)'
      BY <1>1, <1>3 DEF UndoInv, Untouched
<1>7. ASSUME NEW q \in Runs \ {r}
      PROVE  /\ Live(q)' /\ ~Compensates(q)' => Untouched(of[q])'
             /\ Compensates(q)' => UndoneDown(q)'
             /\ Failing(q)' => Recorded(q)' \subseteq mem'[q].completed
  <2>1. /\ pc'[q] = pc[q] /\ mem'[q] = mem[q] /\ undo'[q] = undo[q] /\ result'[q] = result[q]
        BY <1>2 DEF OnlyRun
  <2>2. Compensates(q) \/ Failing(q) => Live(q)
        BY DEF Compensates, Failing, Live, Busy, Waiting
  <2>3. Live(q) => of[q] \in Workflows \ {of[r]}
        BY <1>0, <1>1 DEF SingleRun, Coherent, InPlace
  <2>4. Live(q) => undoCalls'[of[q]] = undoCalls[of[q]] /\ stepLog'[of[q]] = stepLog[of[q]]
        BY <1>1, <1>3, <2>3
  <2>5. Live(q)' /\ ~Compensates(q)' => Untouched(of[q])'
        BY <1>1, <2>1, <2>4 DEF UndoInv, Live, Compensates, Untouched
  <2>6. Compensates(q)' => UndoneDown(q)'
        BY <1>1, <2>1, <2>2, <2>4 DEF UndoInv, Compensates, UndoneDown, Below
  <2>7. Failing(q)' => Recorded(q)' \subseteq mem'[q].completed
        BY <1>1, <2>1, <2>2, <2>4 DEF UndoInv, Failing, Recorded
  <2> QED BY <2>5, <2>6, <2>7
<1> QED BY <1>1, <1>3, <1>4, <1>5, <1>6, <1>7 DEF UndoInv

\* A run begins on a workflow that nobody has touched.
LEMMA UndoHandOver ==
    ASSUME RoutesInv, UndoInv, NEW r \in Runs, NEW w \in Workflows,
           NEW o \in [skipApproval : BOOLEAN, dryRun : BOOLEAN], HandsOver(r, w, o),
           row[w].status \in {"absent", "awaiting_approval"}
    PROVE  UndoInv'
<1>0. TypeOK BY DEF RoutesInv, EngineInv
<1>1. /\ pc' = [pc EXCEPT ![r] = "starting"]
      /\ of' = [of EXCEPT ![r] = w]
      /\ row' = [row EXCEPT ![w] = [row[w] EXCEPT !.status = "pending"]]
      /\ UNCHANGED <<stepLog, mem, undo, result, undoCalls>>
      BY DEF HandsOver, HandOver, Goto, Rewrite, world
<1>2. Untouched(w) BY DEF UndoInv, Unstarted
<1>3. CompensatedOnce' BY <1>1 DEF UndoInv, CompensatedOnce
<1>4. \A v \in Workflows : row'[v].status \in Unstarted => Untouched(v)'
      BY <1>0, <1>1, <1>2 DEF UndoInv, Untouched, TypeOK
<1>5. pc'[r] = "starting" /\ of'[r] = w BY <1>0, <1>1 DEF TypeOK
<1>6. \A q \in Runs \ {r} : pc'[q] = pc[q] /\ of'[q] = of[q] BY <1>0, <1>1 DEF TypeOK
<1>7. ASSUME NEW q \in Runs
      PROVE  /\ Live(q)' /\ ~Compensates(q)' => Untouched(of[q])'
             /\ Compensates(q)' => UndoneDown(q)'
             /\ Failing(q)' => Recorded(q)' \subseteq mem'[q].completed
  <2>1. CASE q = r
        BY <1>5, <1>2, <2>1, <1>1 DEF Compensates, Failing, Untouched
  <2>2. CASE q # r
    <3>1. pc'[q] = pc[q] /\ of'[q] = of[q] /\ mem'[q] = mem[q] BY <1>1, <1>6, <2>2
    <3> QED BY <1>1, <3>1 DEF UndoInv, Live, Compensates, Untouched, UndoneDown, Below, Failing,
                              Recorded
  <2> QED BY <2>1, <2>2
<1> QED BY <1>3, <1>4, <1>7 DEF UndoInv

LEMMA UndoStartRun ==
    ASSUME RoutesInv, UndoInv, NEW r \in Runs, StartRun(r)
    PROVE  UndoInv'
<1>0. TypeOK /\ Coherent BY DEF RoutesInv, EngineInv
<1>1. Holds(r) /\ pc[r] = "starting" /\ Begin(r, of[r], opts[r]) BY DEF StartRun
<1>2. of[r] \in Workflows BY <1>0, <1>1, HolderIsLive
<1>3. /\ pc' = [pc EXCEPT ![r] = "loop"] /\ of' = of
      /\ mem' = [mem EXCEPT ![r] = [row[of[r]] EXCEPT !.status = "running"]]
      /\ row' = [row EXCEPT ![of[r]] = [row[of[r]] EXCEPT !.status = "running"]]
      /\ UNCHANGED <<stepLog, undo, result, undoCalls>>
      BY <1>0, <1>1 DEF Begin, Goto, Rewrite, TypeOK, world
<1>4. Untouched(of[r]) BY <1>1 DEF UndoInv, Live, Busy, Compensates
<1>5. CompensatedOnce' BY <1>3 DEF UndoInv, CompensatedOnce
<1>6. \A v \in Workflows : row'[v].status \in Unstarted => Untouched(v)'
      BY <1>0, <1>3, <1>4 DEF UndoInv, Untouched, TypeOK
<1>7. \A q \in Runs \ {r} : pc'[q] = pc[q] /\ mem'[q] = mem[q] BY <1>0, <1>3 DEF TypeOK
<1>8. pc'[r] = "loop" BY <1>0, <1>3 DEF TypeOK
<1>9. ASSUME NEW q \in Runs
      PROVE  /\ Live(q)' /\ ~Compensates(q)' => Untouched(of[q])'
             /\ Compensates(q)' => UndoneDown(q)'
             /\ Failing(q)' => Recorded(q)' \subseteq mem'[q].completed
  <2>1. CASE q = r
    <3>1. pc'[q] = "loop" /\ of' = of /\ undoCalls' = undoCalls BY <1>3, <1>8, <2>1
    <3>2. ~Compensates(q)' /\ ~Failing(q)' BY <3>1 DEF Compensates, Failing
    <3>3. Untouched(of[q])' BY <1>4, <2>1, <3>1 DEF Untouched
    <3> QED BY <3>2, <3>3
  <2>2. CASE q # r
    <3>1. pc'[q] = pc[q] /\ mem'[q] = mem[q] BY <1>7, <2>2
    <3>2. UNCHANGED <<stepLog, of, undo, result, undoCalls>> BY <1>3
    <3>3. Live(q)' /\ ~Compensates(q)' => Untouched(of[q])'
          BY <3>1, <3>2 DEF UndoInv, Live, Compensates, Untouched
    <3>4. Compensates(q)' => UndoneDown(q)'
          BY <3>1, <3>2 DEF UndoInv, Compensates, UndoneDown, Below
    <3>5. Failing(q)' => Recorded(q)' \subseteq mem'[q].completed
          BY <3>1, <3>2 DEF UndoInv, Failing, Recorded
    <3> QED BY <3>3, <3>4, <3>5
  <2> QED BY <2>1, <2>2
<1> QED BY <1>5, <1>6, <1>9 DEF UndoInv

\* Requests and the process touch no run and make no row startable.
LEMMA UndoOthers ==
    ASSUME RoutesInv, UndoInv, UNCHANGED <<stepLog, of, mem, undo, result, undoCalls>>,
           \A q \in Runs : pc'[q] = pc[q] \/ pc'[q] = "ended",
           \A w \in Workflows : row'[w].status \in Unstarted => row[w].status \in Unstarted
    PROVE  UndoInv'
<1>1. CompensatedOnce' BY DEF UndoInv, CompensatedOnce
<1>2. \A w \in Workflows : row'[w].status \in Unstarted => Untouched(w)' BY DEF UndoInv, Untouched
<1>3. ASSUME NEW q \in Runs
      PROVE  /\ Live(q)' /\ ~Compensates(q)' => Untouched(of[q])'
             /\ Compensates(q)' => UndoneDown(q)'
             /\ Failing(q)' => Recorded(q)' \subseteq mem'[q].completed
  <2>1. CASE pc'[q] = pc[q]
        BY <2>1 DEF UndoInv, Live, Compensates, Untouched, UndoneDown, Below, Failing, Recorded
  <2>2. CASE pc'[q] = "ended" BY <2>2 DEF Live, Busy, Waiting, Compensates, Failing
  <2> QED BY <2>1, <2>2
<1> QED BY <1>1, <1>2, <1>3 DEF UndoInv

LEMMA UndoRequest ==
    ASSUME RoutesInv, UndoInv, NEW w \in Workflows,
           Create(w) \/ Approve(w) \/ Reject(w) \/ Cancel(w)
    PROVE  UndoInv'
<1>0. TypeOK BY DEF RoutesInv, EngineInv
<1>1. UNCHANGED <<stepLog, pc, of, mem, undo, result, undoCalls>>
      BY DEF Create, Approve, Reject, Cancel, runs, world
<1>2. \A v \in Workflows : row'[v].status \in Unstarted => row[v].status \in Unstarted
  <2> USE DEF TypeOK, WorkflowState, Rewrite, Unstarted
  <2>1. CASE Create(w) BY <1>0, <2>1 DEF Create
  <2>2. CASE Reject(w) BY <1>0, <2>2 DEF Reject
  <2>3. CASE Cancel(w) BY <1>0, <2>3 DEF Cancel
  <2>4. CASE Approve(w) BY <1>0, <2>4 DEF Approve
  <2> QED BY <2>1, <2>2, <2>3, <2>4
<1> QED BY <1>1, <1>2, UndoOthers

LEMMA UndoProcess ==
    ASSUME RoutesInv, UndoInv, Process
    PROVE  UndoInv'
<1>0. TypeOK BY DEF RoutesInv, EngineInv
<1>1. \A r \in Runs : pc'[r] = pc[r] \/ pc'[r] = "ended" BY <1>0, ProcessStatuses
<1>2. UNCHANGED <<stepLog, of, mem, undo, result, undoCalls>>
      BY DEF Process, Crash, Restart, LateLanding, db, runs, world
<1>3. \A w \in Workflows : row'[w].status \in Unstarted => row[w].status \in Unstarted
  <2>1. CASE UNCHANGED row BY <2>1
  <2>2. CASE Restart BY <1>0, <2>2 DEF Restart, TypeOK, WorkflowState, Unstarted
  <2> QED BY <2>1, <2>2 DEF Process, Crash, LateLanding, db
<1> QED BY <1>1, <1>2, <1>3, UndoOthers

LEMMA UndoInit == Init => UndoInv
BY DEF Init, UndoInv, CompensatedOnce, Untouched, Live, Busy, Waiting, Compensates, Failing

LEMMA UndoNext == RoutesInv /\ UndoInv /\ [RoutesNext]_vars => UndoInv'
<1> SUFFICES ASSUME RoutesInv, UndoInv, [RoutesNext]_vars PROVE UndoInv' OBVIOUS
<1>1. ASSUME NEW r \in Runs, Handler(r) \/ Wakeup(r) PROVE UndoInv'
      BY <1>1, UndoRunStep, UndoStartRun DEF Handler
<1>2. ASSUME NEW r \in Runs, NEW w \in Workflows, ExecuteAndStart(r, w) \/ ApproveRoute(r, w)
      PROVE  UndoInv'
  <2>1. /\ SkipApproval \in [skipApproval : BOOLEAN, dryRun : BOOLEAN]
        /\ NoOptions \in [skipApproval : BOOLEAN, dryRun : BOOLEAN]
        BY DEF SkipApproval, NoOptions
  <2>2. CASE ExecuteAndStart(r, w)
        BY <2>1, <2>2, UndoHandOver DEF ExecuteAndStart, HandsOver, NewStatus
  <2>3. CASE ApproveRoute(r, w) BY <2>1, <2>3, UndoHandOver DEF ApproveRoute, HandsOver
  <2> QED BY <1>2, <2>2, <2>3
<1>3. ASSUME NEW w \in Workflows,
             ExecuteAndWait(w) \/ ApproveUnstarted(w) \/ Reject(w) \/ Cancel(w)
      PROVE  UndoInv'
      BY <1>3, UndoRequest DEF ExecuteAndWait, ApproveUnstarted
<1>4. CASE Process BY <1>4, UndoProcess
<1>5. CASE UNCHANGED vars BY <1>5, UndoOthers DEF vars, db, runs, world
<1> QED BY <1>1, <1>2, <1>3, <1>4, <1>5 DEF RoutesNext

\* A run ends in `failed' with its whole stack called: by EndCompensation, at the
\* bottom of it, or by FailStep, if it is empty.  A dependency that is missing
\* would be a third way; a plan of the planner has none.
LEMMA FailedAreUndone ==
    ASSUME RoutesInv, UndoInv, [RoutesNext]_vars, NEW r \in Runs,
           Live(r), pc'[r] = "ended", up', mem'[r].status = "failed"
    PROVE  \A s \in Compensable \cap stepLog'[of[r]]["completed"] : undoCalls'[of[r]][s] > 0
<1>0. TypeOK /\ Coherent /\ RowOwned /\ WellFormed(mem[r])
      BY DEF RoutesInv, EngineInv, AllWellFormed, ObjectsWellFormed
<1>1. EndCompensation(r) \/ FailStep(r)
  <2> USE <1>0 DEF Live, Busy, Waiting
  <2>1. ASSUME NEW q \in Runs, RunStep(q) \/ Wakeup(q) PROVE q = r
        BY <2>1, OnlyRunStep DEF OnlyRun
  <2>2. CASE RunStep(r)
    <3>1. ~DepsMissing(r)
      <4> SUFFICES ASSUME DepsMissing(r) PROVE FALSE OBVIOUS
      <4>1. AtStep(r) /\ ~DepsReady(r) BY DEF DepsMissing, Fresh
      <4>2. pos[r] \in Steps /\ 1 .. pos[r] - 1 \subseteq mem[r].completed
            BY <4>1 DEF AtStep, AtLoop, Coherent, InPlace
      <4> QED BY <4>1, <4>2, PlannerAssumption DEF DepsReady
    <3>2. \A status : Leave(r, status) => mem'[r].status = status
          BY DEF Leave, SetStatus, TypeOK, WorkflowState
    <3>3. ~StopOnAbort(r) /\ ~AwaitApproval(r) /\ ~Finish(r)
          BY <3>2 DEF StopOnAbort, AwaitApproval, Finish
    <3>4. \A place : pc' = [pc EXCEPT ![r] = place] => place = "ended" BY DEF TypeOK
    <3>5. /\ ~SkipCompleted(r) /\ ~Dispatch(r) /\ ~RecordStepExecution(r) /\ ~Checkpoint(r)
          /\ ~StartCompensation(r) /\ ~CallCompensation(r)
          BY <3>4 DEF SkipCompleted, Dispatch, RecordStepExecution, Checkpoint,
                      StartCompensation, CallCompensation, Goto
    <3> QED BY <2>2, <3>1, <3>3, <3>5 DEF RunStep
  <2>3. ~Wakeup(r)
        BY DEF Wakeup, CallCompletes, CallFails, CallRejects, BackoffElapses,
               CompensationReturns, Resolve, Goto, TypeOK
  <2>4. ASSUME NEW q \in Runs, StartRun(q) PROVE FALSE
        BY <2>4 DEF StartRun, Begin, Goto, TypeOK
  <2>5. ASSUME NEW q \in Runs, NEW w \in Workflows, ExecuteAndStart(q, w) \/ ApproveRoute(q, w)
        PROVE  FALSE
        BY <2>5 DEF ExecuteAndStart, ApproveRoute, HandOver, Goto, TypeOK
  <2>6. ASSUME NEW w \in Workflows,
               ExecuteAndWait(w) \/ ApproveUnstarted(w) \/ Reject(w) \/ Cancel(w)
        PROVE  FALSE
        BY <2>6 DEF ExecuteAndWait, ApproveUnstarted, Create, Approve, Reject, Cancel, runs
  <2>7. ~Process BY DEF Process, Crash, Restart, LateLanding, runs
  <2>8. ~UNCHANGED vars BY DEF vars, runs
  <2> QED BY <2>1, <2>2, <2>3, <2>4, <2>5, <2>6, <2>7, <2>8 DEF RoutesNext, Handler
<1>2. stepLog' = stepLog /\ undoCalls' = undoCalls
      BY <1>1 DEF EndCompensation, FailStep, Leave, world
<1>3. Failing(r) BY <1>1 DEF EndCompensation, FailStep, Failing
<1>4. Recorded(r) \subseteq mem[r].completed BY <1>3 DEF UndoInv
<1>5. \A i \in 1 .. Len(mem[r].stack) : undoCalls[of[r]][mem[r].stack[i]] = 1
  <2>1. CASE EndCompensation(r)
    <3>1. pc[r] = "undo" /\ undo[r] = 0 BY <2>1 DEF EndCompensation
    <3>2. UndoneDown(r) BY <3>1 DEF UndoInv, Compensates
    <3> QED BY <3>1, <3>2 DEF UndoneDown, Below
  <2>2. CASE FailStep(r)
    <3>1. mem[r].stack = <<>> BY <1>0, <2>2 DEF FailStep, Goto, TypeOK
    <3> QED BY <3>1
  <2> QED BY <1>1, <2>1, <2>2
<1> SUFFICES ASSUME NEW s \in Compensable \cap stepLog[of[r]]["completed"]
             PROVE  undoCalls[of[r]][s] > 0
    BY <1>2
<1>6. s \in Steps /\ s \in mem[r].completed BY <1>4, PlanAssumption DEF Recorded
<1>7. PICK i \in 1 .. Len(mem[r].stack) : mem[r].stack[i] = s BY <1>0, <1>6 DEF WellFormed
<1> QED BY <1>5, <1>7

-----------------------------------------------------------------------------
(* A run cancelled before its last step                                    *)

\* An object says `completed' only when its run has left the loop at the end.
CompletedAtEnd == \A r \in Runs : mem[r].status = "completed" => pos[r] = N + 1

\* A run that has been told to stop in time: at the last step it can only be
\* back at the head of the loop, where the signal is seen.
CutShort(r) ==
    /\ aborted[r] /\ mem[r].status # "completed"
    /\ pos[r] < N \/ (pos[r] <= N /\ pc[r] \in {"loop", "ended"})

\* What a run's own step makes of the signal, the position and the status.
LEMMA RunStepProgress ==
    ASSUME TypeOK, Coherent, NEW r \in Runs, RunStep(r) \/ Wakeup(r)
    PROVE  /\ aborted' = aborted
           /\ \/ pos' = pos /\ mem'[r].status # "completed"
              \/ /\ pos' = pos /\ mem'[r].status = mem[r].status /\ pc[r] # "loop"
              \/ /\ pos' = pos /\ mem'[r].status = mem[r].status /\ Fresh(r)
              \/ /\ pos'[r] = pos[r] + 1 /\ \A q \in Runs \ {r} : pos'[q] = pos[q]
                 /\ mem'[r].status = "running" /\ pc'[r] = "loop"
                 /\ pc[r] # "loop" \/ ~aborted[r]
              \/ pos' = pos /\ pos[r] = N + 1 /\ pc[r] = "loop"
           /\ pc'[r] = "loop" => pc[r] \in {"loop", "settle"}
           /\ pc[r] # "ended"
           /\ pc[r] = "loop" /\ aborted[r] => pc'[r] \in {"loop", "ended"}
<1> USE DEF TypeOK, WorkflowState, SetStatus, Leave, End, Goto, Resolve
<1>1. CASE StopOnAbort(r) BY <1>1 DEF StopOnAbort, AtStep, AtLoop
<1>2. CASE SkipCompleted(r)
      BY <1>2 DEF SkipCompleted, AtStep, AtLoop, Coherent, InPlace
<1>3. CASE AwaitApproval(r) BY <1>3 DEF AwaitApproval, Fresh, AtStep, AtLoop
<1>4. CASE DepsMissing(r) BY <1>4 DEF DepsMissing, Fresh, AtStep, AtLoop
<1>5. CASE Dispatch(r) BY <1>5 DEF Dispatch, Fresh, AtStep, AtLoop
<1>6. CASE Finish(r) BY <1>6 DEF Finish, AtLoop
<1>7. CASE RecordStepExecution(r) BY <1>7 DEF RecordStepExecution
<1>8. CASE Checkpoint(r)
  <2>1. mem[r].status = "running" BY <1>8 DEF Checkpoint, Coherent, InPlace
  <2> QED BY <1>8, <2>1 DEF Checkpoint, WithStep
<1>9. CASE FailStep(r) BY <1>9 DEF FailStep
<1>10. CASE StartCompensation(r) BY <1>10 DEF StartCompensation
<1>11. CASE CallCompensation(r) BY <1>11 DEF CallCompensation
<1>12. CASE EndCompensation(r) BY <1>12 DEF EndCompensation
<1>13. CASE Wakeup(r)
       BY <1>13 DEF Wakeup, CallCompletes, CallFails, CallRejects, BackoffElapses,
          CompensationReturns
<1> QED BY <1>1, <1>2, <1>3, <1>4, <1>5, <1>6, <1>7, <1>8, <1>9, <1>10, <1>11, <1>12, <1>13
        DEF RunStep

LEMMA CutShortRunStep ==
    ASSUME TypeOK, Coherent, CompletedAtEnd, NEW r \in Runs, RunStep(r) \/ Wakeup(r)
    PROVE  /\ CompletedAtEnd'
           /\ \A q \in Runs : CutShort(q) => CutShort(q)'
<1> USE PlanAssumption DEF TypeOK
<1>1. OnlyRun(r) BY OnlyRunStep
<1>2. \A q \in Runs \ {r} : mem'[q] = mem[q] /\ pos'[q] = pos[q] /\ pc'[q] = pc[q]
      BY <1>1 DEF OnlyRun
<1>3. CompletedAtEnd' BY <1>2, RunStepProgress DEF CompletedAtEnd
<1>4. ASSUME CutShort(r) PROVE CutShort(r)'
      BY <1>4, RunStepProgress DEF CutShort, Fresh
<1>5. \A q \in Runs \ {r} : CutShort(q) => CutShort(q)'
      BY <1>2, RunStepProgress DEF CutShort
<1> QED BY <1>3, <1>4, <1>5

\* A handler that starts a run leaves its position alone: it is the first.
LEMMA CutShortStartRun ==
    ASSUME TypeOK, Coherent, CompletedAtEnd, NEW r \in Runs, StartRun(r)
    PROVE  /\ CompletedAtEnd'
           /\ \A q \in Runs : CutShort(q) => CutShort(q)'
<1>1. /\ Holds(r) /\ pc[r] = "starting" /\ pc' = [pc EXCEPT ![r] = "loop"]
      /\ mem' = [mem EXCEPT ![r] = [row[of[r]] EXCEPT !.status = "running"]]
      /\ UNCHANGED <<pos, aborted>>
      BY DEF StartRun, Begin, Goto
<1>2. row[of[r]] \in WorkflowState BY <1>1, HolderIsLive DEF TypeOK
<1>3. mem'[r].status = "running" BY <1>1, <1>2 DEF TypeOK, WorkflowState
<1> QED BY <1>1, <1>3 DEF TypeOK, CompletedAtEnd, CutShort

\* A hand-over, a request and the process change no object and no position; only
\* a cancellation sets a signal, and only a crash moves a run: to its end.
LEMMA CutShortHandOver ==
    ASSUME TypeOK, CompletedAtEnd, NEW r \in Runs, NEW w \in Workflows, NEW o, HandOver(r, w, o)
    PROVE  /\ CompletedAtEnd'
           /\ \A q \in Runs : CutShort(q) => CutShort(q)'
<1>1. /\ pc[r] = "new" /\ pc' = [pc EXCEPT ![r] = "starting"]
      /\ UNCHANGED <<mem, pos, aborted>>
      BY DEF HandOver, Goto
<1> QED BY <1>1 DEF TypeOK, CompletedAtEnd, CutShort

LEMMA CutShortOthers ==
    ASSUME TypeOK, CompletedAtEnd, UNCHANGED <<mem, pos>>,
           \A q \in Runs : aborted[q] => aborted'[q],
           \A q \in Runs : pc'[q] = pc[q] \/ pc'[q] = "ended"
    PROVE  /\ CompletedAtEnd'
           /\ \A q \in Runs : CutShort(q) => CutShort(q)'
<1> USE PlanAssumption
<1>1. CompletedAtEnd' BY DEF CompletedAtEnd
<1>2. \A q \in Runs : CutShort(q) => CutShort(q)' BY DEF CutShort, TypeOK
<1> QED BY <1>1, <1>2

LEMMA CutShortNext ==
    ASSUME TypeOK, Coherent, CompletedAtEnd, [RoutesNext]_vars
    PROVE  /\ CompletedAtEnd'
           /\ \A q \in Runs : CutShort(q) => CutShort(q)'
<1> DEFINE Goal == CompletedAtEnd' /\ \A q \in Runs : CutShort(q) => CutShort(q)'
<1>1. ASSUME NEW r \in Runs, Handler(r) \/ Wakeup(r) PROVE Goal
      BY <1>1, CutShortRunStep, CutShortStartRun DEF Handler
<1>2. ASSUME NEW r \in Runs, NEW w \in Workflows, ExecuteAndStart(r, w) \/ ApproveRoute(r, w)
      PROVE  Goal
      BY <1>2, CutShortHandOver DEF ExecuteAndStart, ApproveRoute
<1>3. ASSUME NEW w \in Workflows,
             ExecuteAndWait(w) \/ ApproveUnstarted(w) \/ Reject(w) \/ Cancel(w)
      PROVE  Goal
  <2>1. /\ UNCHANGED <<pc, mem, pos>>
        /\ \A q \in Runs : aborted[q] => aborted'[q]
        BY <1>3 DEF ExecuteAndWait, ApproveUnstarted, Create, Approve, Reject, Cancel, runs
  <2> QED BY <2>1, CutShortOthers
<1>4. CASE Process
  <2>1. /\ UNCHANGED <<mem, pos, aborted>>
        /\ \A q \in Runs : pc'[q] = pc[q] \/ pc'[q] = "ended"
        BY <1>4, ProcessStatuses DEF Process, Crash, Restart, LateLanding, runs
  <2> QED BY <2>1, CutShortOthers
<1>5. CASE UNCHANGED vars
  <2>1. UNCHANGED <<pc, mem, pos, aborted>> BY <1>5 DEF vars, runs
  <2> QED BY <2>1, CutShortOthers
<1> QED BY <1>1, <1>2, <1>3, <1>4, <1>5 DEF RoutesNext

-----------------------------------------------------------------------------
(* The theorems                                                            *)

LEMMA RoutesInit == Init => RoutesInv
<1> SUFFICES ASSUME Init PROVE RoutesInv OBVIOUS
<1>1. EngineInv BY EngineInit
<1>2. SingleRun /\ RowOwned BY DEF Init, SingleRun, RowOwned, Live, Busy, Waiting
<1>3. LogCaughtUp BY DEF Init, LogCaughtUp, Outcome
<1> QED BY <1>1, <1>2, <1>3 DEF RoutesInv

LEMMA RoutesInvNext == RoutesInv /\ [RoutesNext]_vars => RoutesInv'
<1> SUFFICES ASSUME RoutesInv, [RoutesNext]_vars PROVE RoutesInv' OBVIOUS
<1>1. ASSUME NEW r \in Runs, Handler(r) \/ Wakeup(r) PROVE RoutesInv'
      BY <1>1, RoutesInvRunStep, RoutesInvStartRun DEF Handler
<1>2. ASSUME NEW r \in Runs, NEW w \in Workflows, ExecuteAndStart(r, w) \/ ApproveRoute(r, w)
      PROVE  RoutesInv'
  <2>1. /\ SkipApproval \in [skipApproval : BOOLEAN, dryRun : BOOLEAN]
        /\ NoOptions \in [skipApproval : BOOLEAN, dryRun : BOOLEAN]
        BY DEF SkipApproval, NoOptions
  <2>2. CASE ExecuteAndStart(r, w)
        BY <2>1, <2>2, RoutesInvHandOver DEF ExecuteAndStart, HandsOver, NewStatus
  <2>3. CASE ApproveRoute(r, w)
        BY <2>1, <2>3, RoutesInvHandOver DEF ApproveRoute, HandsOver
  <2> QED BY <1>2, <2>2, <2>3
<1>3. ASSUME NEW w \in Workflows,
             ExecuteAndWait(w) \/ ApproveUnstarted(w) \/ Reject(w) \/ Cancel(w)
      PROVE  RoutesInv'
      BY <1>3, RoutesInvRequest DEF ExecuteAndWait, ApproveUnstarted
<1>4. CASE Process BY <1>4, RoutesInvProcess
<1>5. CASE UNCHANGED vars
  <2>1. EngineInv' BY <1>5, EngineInvStutter DEF RoutesInv
  <2>2. UNCHANGED <<row, stepLog, pc, of, mem, pos>> BY <1>5 DEF vars, db, runs
  <2> QED BY <2>1, <2>2 DEF RoutesInv, SingleRun, RowOwned, LogCaughtUp, Live
<1> QED BY <1>1, <1>2, <1>3, <1>4, <1>5 DEF RoutesNext

\* Behind the API a workflow never has two runs at once, however approvals,
\* cancellations, failures and restarts are interleaved: startWorkflow itself
\* would accept a second run of a workflow whose row says `cancelled'.
THEOREM RunsAreSingle == RoutesSpec => []SingleRun
<1>1. RoutesInv => SingleRun BY DEF RoutesInv
<1> QED BY RoutesInit, RoutesInvNext, <1>1, PTL DEF RoutesSpec

\* A step whose completion is on record is never with the executor again.
THEOREM RecordedStepsStayDone == RoutesSpec => []NoRedispatch
<1>1. RoutesInv => NoRedispatch
  <2> SUFFICES ASSUME RoutesInv, NEW r \in Runs, pc[r] = "call"
               PROVE  pos[r] \notin stepLog[of[r]]["completed"]
      BY DEF NoRedispatch
  <2>1. pos[r] \notin mem[r].completed BY DEF RoutesInv, EngineInv, Coherent, InPlace
  <2>2. stepLog[of[r]]["completed"] \subseteq mem[r].completed BY DEF RoutesInv, LogCaughtUp
  <2> QED BY <2>1, <2>2
<1> QED BY RoutesInit, RoutesInvNext, <1>1, PTL DEF RoutesSpec

\* Behind the API no compensation is called twice, whatever fails, is cancelled,
\* crashes or is approved again.
THEOREM CompensationsAreSingle == RoutesSpec => []CompensatedOnce
<1>1. UndoInv => CompensatedOnce BY DEF UndoInv
<1> QED BY RoutesInit, RoutesInvNext, UndoInit, UndoNext, <1>1, PTL DEF RoutesSpec

\* A run that ends in `failed' has called the compensation of every step on record
\* that has one, for every plan that the planner makes.
THEOREM FailuresAreUndone == RoutesSpec => FailureIsUndone
<1>1. RoutesInv /\ UndoInv /\ [RoutesNext]_vars =>
          [\A r \in Runs :
              Live(r) /\ pc'[r] = "ended" /\ up' /\ mem'[r].status = "failed" =>
                  \A s \in Compensable \cap stepLog'[of[r]]["completed"] :
                      undoCalls'[of[r]][s] > 0]_vars
      BY FailedAreUndone
<1> QED BY RoutesInit, RoutesInvNext, UndoInit, UndoNext, <1>1, PTL
        DEF RoutesSpec, FailureIsUndone

\* A run whose controller is aborted before its last step never reports the
\* workflow as completed, at any later time: whatever was with the executor when
\* the signal came, the loop looks at the signal before the next step.
THEOREM CancelledRunsStop == RoutesSpec => CancelledRunNeverCompletes
<1>1. Init => CompletedAtEnd BY DEF Init, CompletedAtEnd, Absent
<1>2. RoutesInv /\ CompletedAtEnd /\ [RoutesNext]_vars => CompletedAtEnd'
      BY CutShortNext DEF RoutesInv, EngineInv
<1>3. RoutesSpec => [](RoutesInv /\ CompletedAtEnd)
      BY RoutesInit, RoutesInvNext, <1>1, <1>2, PTL DEF RoutesSpec
<1>4. ASSUME NEW r \in Runs
      PROVE  RoutesSpec => [](aborted[r] /\ pos[r] < N => [](mem[r].status # "completed"))
  <2>1. RoutesInv /\ CompletedAtEnd /\ aborted[r] /\ pos[r] < N => CutShort(r)
        BY PlanAssumption DEF RoutesInv, EngineInv, TypeOK, CompletedAtEnd, CutShort
  <2>2. RoutesInv /\ CompletedAtEnd /\ CutShort(r) /\ [RoutesNext]_vars => CutShort(r)'
        BY CutShortNext DEF RoutesInv, EngineInv
  <2>3. CutShort(r) => mem[r].status # "completed" BY DEF CutShort
  <2> QED BY <1>3, <2>1, <2>2, <2>3, PTL DEF RoutesSpec
<1> QED BY <1>4 DEF CancelledRunNeverCompletes

-----------------------------------------------------------------------------
(***************************************************************************)
(* The engine driven by the HTTP API implements Saga, for every plan of    *)
(* the planner and any number of workflows, runs and crashes: the          *)
(* refinement mapping takes each step to a step of a saga or to a stutter. *)
(***************************************************************************)

\* Where a live run is, in the terms of a saga.
RunPhase(place) ==
    IF place = "starting" THEN "idle"
    ELSE IF place \in {"compensate", "undo", "undoing"} THEN "backward" ELSE "forward"

\* The three variables of the saga, as the mapping has them.
Phases == [w \in Workflows |-> SagaPhase(w)]
Counts == [w \in Workflows |-> Cardinality(stepLog[w]["completed"])]
Undone == [w \in Workflows |-> {s \in Steps : undoCalls[w][s] > 0}]

\* A workflow that nobody runs is idle in these, and has ended in any other.
RestingRows == {"absent", "awaiting_approval"}

\* Who lives on the workflow, and where, tells the phase; so without a change in
\* either the phase stays.
LEMMA PhaseOfLive ==
    ASSUME NEW r \in Runs, NEW w \in Workflows
    PROVE  /\ SingleRun /\ Live(r) /\ of[r] = w => SagaPhase(w) = RunPhase(pc[r])
           /\ SingleRun' /\ Live(r)' /\ of'[r] = w => SagaPhase(w)' = RunPhase(pc'[r])
<1>1. ASSUME SingleRun, Live(r), of[r] = w PROVE SagaPhase(w) = RunPhase(pc[r])
  <2>1. LiveOn(w) = {r} BY <1>1 DEF SingleRun, LiveOn
  <2>2. Runner(w) = r BY <2>1 DEF Runner
  <2> QED BY <2>1, <2>2 DEF SagaPhase, RunPhase
<1>2. ASSUME SingleRun', Live(r)', of'[r] = w PROVE SagaPhase(w)' = RunPhase(pc'[r])
  <2>1. LiveOn(w)' = {r} BY <1>2 DEF SingleRun, LiveOn
  <2>2. Runner(w)' = r BY <2>1 DEF Runner
  <2> QED BY <2>1, <2>2 DEF SagaPhase, RunPhase
<1> QED BY <1>1, <1>2

LEMMA PhaseOfDead ==
    ASSUME NEW w \in Workflows
    PROVE  /\ LiveOn(w) = {} =>
                SagaPhase(w) = IF row[w].status \in RestingRows THEN "idle" ELSE "ended"
           /\ LiveOn(w)' = {} =>
                SagaPhase(w)' = IF row'[w].status \in RestingRows THEN "idle" ELSE "ended"
BY DEF SagaPhase, RestingRows

LEMMA PhaseKept ==
    ASSUME NEW w \in Workflows, LiveOn(w)' = LiveOn(w), \A q \in LiveOn(w) : pc'[q] = pc[q],
           row'[w].status \in RestingRows <=> row[w].status \in RestingRows
    PROVE  SagaPhase(w)' = SagaPhase(w)
<1>1. CASE LiveOn(w) = {} BY <1>1, PhaseOfDead
<1>2. CASE LiveOn(w) # {}
  <2>1. Runner(w) \in LiveOn(w) BY <1>2 DEF Runner
  <2>2. Runner(w)' = Runner(w) BY DEF Runner
  <2> QED BY <1>2, <2>1, <2>2 DEF SagaPhase
<1> QED BY <1>1, <1>2

-----------------------------------------------------------------------------
(* Steps of the saga, from what they do to the mapped variables            *)

LEMMA NothingMoves ==
    ASSUME UNCHANGED <<Phases, Counts, Undone>>
    PROVE  UNCHANGED Sagas!svars
BY DEF Phases, Counts, Undone, Sagas!svars

LEMMA Moves ==
    ASSUME NEW w \in Workflows, NEW from, NEW to, SagaPhase(w) = from, SagaPhase(w)' = to,
           \A v \in Workflows \ {w} : SagaPhase(v)' = SagaPhase(v)
    PROVE  Sagas!Move(w, from, to)
BY DEF Sagas!Move

LEMMA EndsOne ==
    ASSUME NEW w \in Workflows, SagaPhase(w)' = "ended",
           \A v \in Workflows \ {w} : SagaPhase(v)' = SagaPhase(v),
           UNCHANGED <<Counts, Undone>>
    PROVE  Sagas!Stop({w})
BY DEF Sagas!Stop, Counts, Undone

-----------------------------------------------------------------------------
(* The invariant: steps are recorded in order                              *)

\* The steps on record are the first ones of the plan.
LogIsPrefix == \A w \in Workflows : \E k \in 0 .. N : stepLog[w]["completed"] = 1 .. k

SagaInv == RoutesInv /\ UndoInv /\ LogIsPrefix

\* A completed step is recorded right after those that are on record.
LEMMA RecordAppends ==
    ASSUME RoutesInv, NEW r \in Runs, RecordStepExecution(r), NEW k \in 0 .. N,
           stepLog[of[r]]["completed"] = 1 .. k
    PROVE  stepLog'[of[r]]["completed"] = 1 .. k
           \/ (k < N /\ stepLog'[of[r]]["completed"] = 1 .. k + 1)
<1> USE PlanAssumption
<1>0. TypeOK /\ Coherent /\ LoggedByRuns /\ LogCaughtUp BY DEF RoutesInv, EngineInv, AllLogged
<1>1. /\ pc[r] = "record" /\ Live(r)
      /\ stepLog' = [stepLog EXCEPT ![of[r]][result[r]] = stepLog[of[r]][result[r]] \cup {pos[r]}]
      BY DEF RecordStepExecution, Live, Busy
<1>2. of[r] \in Workflows BY <1>0, <1>1 DEF Coherent, InPlace
<1>3. /\ pos[r] \in Steps /\ pos[r] \notin mem[r].completed
      /\ 1 .. pos[r] - 1 \subseteq mem[r].completed
      BY <1>0, <1>1 DEF Coherent, InPlace
<1>4. mem[r].completed = 1 .. k BY <1>0, <1>1 DEF LoggedByRuns, LogCaughtUp
<1>5. CASE result[r] = "failed"
  <2>1. stepLog'[of[r]]["completed"] = stepLog[of[r]]["completed"]
        BY <1>0, <1>1, <1>2, <1>5 DEF TypeOK, Outcome
  <2> QED BY <2>1
<1>6. CASE result[r] = "completed"
  <2>1. stepLog'[of[r]]["completed"] = 1 .. k \cup {pos[r]}
        BY <1>0, <1>1, <1>2, <1>6 DEF TypeOK, Outcome
  <2>2. pos[r] \in 1 .. N /\ pos[r] \notin 1 .. k /\ 1 .. pos[r] - 1 \subseteq 1 .. k
        BY <1>3, <1>4 DEF Steps
  <2>3. pos[r] = k + 1
    <3>1. pos[r] > k BY <2>2
    <3>2. pos[r] - 1 \in 1 .. pos[r] - 1 \/ pos[r] = 1 BY <2>2
    <3>3. pos[r] - 1 <= k BY <2>2, <3>2
    <3> QED BY <2>2, <3>1, <3>3
  <2>4. 1 .. k \cup {k + 1} = 1 .. k + 1 OBVIOUS
  <2> QED BY <2>1, <2>2, <2>3, <2>4
<1>7. result[r] \in Outcome BY <1>0 DEF TypeOK
<1> QED BY <1>5, <1>6, <1>7 DEF Outcome

LEMMA PrefixRunStep ==
    ASSUME RoutesInv, LogIsPrefix, NEW r \in Runs, RunStep(r) \/ Wakeup(r)
    PROVE  LogIsPrefix'
<1> USE PlanAssumption
<1>0. TypeOK /\ Coherent BY DEF RoutesInv, EngineInv
<1>1. CASE UNCHANGED stepLog BY <1>1 DEF LogIsPrefix
<1>2. CASE RecordStepExecution(r)
  <2>1. of[r] \in Workflows /\ \A w \in Workflows \ {of[r]} : stepLog'[w] = stepLog[w]
        BY <1>0, RunStepFrame
  <2>2. PICK k \in 0 .. N : stepLog[of[r]]["completed"] = 1 .. k BY <2>1 DEF LogIsPrefix
  <2>3. \E l \in 0 .. N : stepLog'[of[r]]["completed"] = 1 .. l
        BY <1>2, <2>2, RecordAppends
  <2> QED BY <2>1, <2>3 DEF LogIsPrefix
<1> QED BY <1>0, <1>1, <1>2, LogGrows

LEMMA PrefixNext == RoutesInv /\ LogIsPrefix /\ [RoutesNext]_vars => LogIsPrefix'
<1> SUFFICES ASSUME RoutesInv, LogIsPrefix, [RoutesNext]_vars PROVE LogIsPrefix' OBVIOUS
<1>1. ASSUME NEW r \in Runs, RunStep(r) \/ Wakeup(r) PROVE LogIsPrefix'
      BY <1>1, PrefixRunStep
<1>2. CASE UNCHANGED stepLog BY <1>2 DEF LogIsPrefix
<1>3. \/ \E r \in Runs : RunStep(r) \/ Wakeup(r)
      \/ UNCHANGED stepLog
      BY DEF RoutesNext, Handler, StartRun, Begin, ExecuteAndStart, ApproveRoute, HandOver,
             ExecuteAndWait, ApproveUnstarted, Create, Approve, Reject, Cancel, Process, Crash,
             Restart, LateLanding, vars, db
<1> QED BY <1>1, <1>2, <1>3

LEMMA SagaInvInit == Init => SagaInv
<1> SUFFICES ASSUME Init PROVE SagaInv OBVIOUS
<1>1. 0 \in 0 .. N /\ 1 .. 0 = {} BY PlanAssumption
<1>2. \A w \in Workflows : stepLog[w]["completed"] = {} BY DEF Init, Outcome
<1>3. LogIsPrefix BY <1>1, <1>2 DEF LogIsPrefix
<1> QED BY <1>3, RoutesInit, UndoInit DEF SagaInv

LEMMA SagaInvNext == SagaInv /\ [RoutesNext]_vars => SagaInv'
BY RoutesInvNext, UndoNext, PrefixNext DEF SagaInv

-----------------------------------------------------------------------------
(* Requests and the process                                                *)

\* A crash ends what lives; other workflows are where they were.
LEMMA CrashStops ==
    ASSUME SagaInv, Crash
    PROVE  \E W \in SUBSET Workflows : Sagas!Stop(W)
<1>0. TypeOK /\ Coherent /\ RowOwned BY DEF SagaInv, RoutesInv, EngineInv
<1> DEFINE W == {w \in Workflows : LiveOn(w) # {}}
<1>1. /\ \A r \in Runs : ~Live(r)'
      /\ UNCHANGED <<row, stepLog, of, undoCalls>>
      BY <1>0 DEF Crash, db, Live, Busy, Waiting, TypeOK
<1>2. \A w \in Workflows : LiveOn(w)' = {} BY <1>1 DEF LiveOn
<1>3. \A w \in W : SagaPhase(w)' = "ended"
  <2> SUFFICES ASSUME NEW w \in W PROVE SagaPhase(w)' = "ended" OBVIOUS
  <2>1. PICK r \in Runs : Live(r) /\ of[r] = w BY DEF LiveOn
  <2>2. row[w].status \notin RestingRows BY <1>0, <2>1 DEF RowOwned, Unstarted, RestingRows
  <2> QED BY <1>1, <1>2, <2>2, PhaseOfDead
<1>4. \A w \in Workflows \ W : SagaPhase(w)' = SagaPhase(w)
      BY <1>1, <1>2, PhaseOfDead
<1>5. UNCHANGED <<Counts, Undone>> BY <1>1 DEF Counts, Undone
<1> HIDE DEF W
<1>6. W \in SUBSET Workflows BY DEF W
<1>7. Sagas!Stop(W) BY <1>3, <1>4, <1>5, <1>6 DEF Sagas!Stop, Counts, Undone
<1> QED BY <1>6, <1>7

\* Requests and the restart write rows; of no live run's workflow do they change
\* the phase, and of another they may end it.
LEMMA RowsOnly ==
    ASSUME SagaInv, NEW w \in Workflows, UNCHANGED <<pc, of, stepLog, undoCalls>>,
           \A v \in Workflows \ {w} :
               row'[v].status \in RestingRows <=> row[v].status \in RestingRows,
           row'[w].status \in RestingRows => row[w].status \in RestingRows
    PROVE  [Sagas!SagaNext]_Sagas!svars
<1>1. \A v \in Workflows : LiveOn(v)' = LiveOn(v) BY DEF LiveOn, Live
<1>2. \A v \in Workflows \ {w} : SagaPhase(v)' = SagaPhase(v) BY <1>1, PhaseKept
<1>3. UNCHANGED <<Counts, Undone>> BY DEF Counts, Undone
<1>4. CASE SagaPhase(w)' = SagaPhase(w)
  <2>1. UNCHANGED Phases BY <1>2, <1>4 DEF Phases
  <2> QED BY <1>3, <2>1, NothingMoves
<1>5. CASE SagaPhase(w)' # SagaPhase(w)
  <2>1. LiveOn(w) = {} /\ ~(row'[w].status \in RestingRows <=> row[w].status \in RestingRows)
    <3>1. CASE LiveOn(w) # {}
      <4>1. Runner(w)' = Runner(w) BY <1>1 DEF Runner
      <4> QED BY <1>1, <1>5, <3>1, <4>1 DEF SagaPhase
    <3>2. ~(row'[w].status \in RestingRows <=> row[w].status \in RestingRows)
          BY <1>1, <1>5, PhaseKept
    <3> QED BY <3>1, <3>2
  <2>2. SagaPhase(w)' = "ended" BY <1>1, <2>1, PhaseOfDead
  <2>3. Sagas!Stop({w}) BY <1>2, <1>3, <2>2, EndsOne
  <2> QED BY <2>3 DEF Sagas!SagaNext
<1> QED BY <1>4, <1>5

LEMMA RequestsMap ==
    ASSUME SagaInv, NEW w \in Workflows,
           Create(w) \/ Approve(w) \/ Reject(w) \/ Cancel(w)
    PROVE  [Sagas!SagaNext]_Sagas!svars
<1>0. TypeOK BY DEF SagaInv, RoutesInv, EngineInv
<1>1. UNCHANGED <<pc, of, stepLog, undoCalls>>
      BY DEF Create, Approve, Reject, Cancel, runs, world
<1>2. /\ row'[w].status \in RestingRows => row[w].status \in RestingRows
      /\ \A v \in Workflows \ {w} : row'[v] = row[v]
  <2> USE DEF TypeOK, WorkflowState, Rewrite, RestingRows
  <2>1. CASE Create(w) BY <1>0, <2>1 DEF Create
  <2>2. CASE Reject(w) BY <1>0, <2>2 DEF Reject
  <2>3. CASE Cancel(w) BY <1>0, <2>3 DEF Cancel
  <2>4. CASE Approve(w) BY <1>0, <2>4 DEF Approve
  <2> QED BY <2>1, <2>2, <2>3, <2>4
<1> QED BY <1>1, <1>2, RowsOnly

LEMMA ProcessMaps ==
    ASSUME SagaInv, Process
    PROVE  [Sagas!SagaNext]_Sagas!svars
<1>0. TypeOK BY DEF SagaInv, RoutesInv, EngineInv
<1>1. CASE Crash BY <1>1, CrashStops DEF Sagas!SagaNext
<1>2. CASE UNCHANGED <<pc, of, stepLog, undoCalls>> /\ \A v \in Workflows :
               row'[v].status \in RestingRows <=> row[v].status \in RestingRows
  <2>1. \A v \in Workflows : LiveOn(v)' = LiveOn(v) BY <1>2 DEF LiveOn, Live
  <2>2. \A v \in Workflows : SagaPhase(v)' = SagaPhase(v) BY <1>2, <2>1, PhaseKept
  <2>3. UNCHANGED <<Phases, Counts, Undone>> BY <1>2, <2>2 DEF Phases, Counts, Undone
  <2> QED BY <2>3, NothingMoves
<1>3. CASE Restart
  <2>1. UNCHANGED <<pc, of, stepLog, undoCalls>> BY <1>3 DEF Restart, runs, world
  <2>2. \A v \in Workflows : row'[v].status \in RestingRows <=> row[v].status \in RestingRows
        BY <1>0, <1>3 DEF Restart, TypeOK, WorkflowState, RestingRows
  <2> QED BY <1>2, <2>1, <2>2
<1>4. CASE \E w \in Workflows, s \in Steps : LateLanding(w, s)
      BY <1>2, <1>4 DEF LateLanding, db, runs
<1> QED BY <1>1, <1>3, <1>4 DEF Process

\* A route that hands a workflow over leaves it idle; the start launches it.
LEMMA HandOverMaps ==
    ASSUME SagaInv, NEW r \in Runs, NEW w \in Workflows,
           NEW o \in [skipApproval : BOOLEAN, dryRun : BOOLEAN], HandsOver(r, w, o),
           row[w].status \in RestingRows
    PROVE  [Sagas!SagaNext]_Sagas!svars
<1>0. TypeOK /\ Coherent /\ RowOwned BY DEF SagaInv, RoutesInv, EngineInv
<1>1. RoutesInv' BY RoutesInvHandOver DEF SagaInv, RestingRows
<1>2. /\ pc[r] = "new" /\ pc' = [pc EXCEPT ![r] = "starting"]
      /\ of' = [of EXCEPT ![r] = w]
      /\ row' = [row EXCEPT ![w] = [row[w] EXCEPT !.status = "pending"]]
      /\ UNCHANGED <<stepLog, undoCalls>>
      BY DEF HandsOver, HandOver, Goto, Rewrite, world
<1>3. /\ pc'[r] = "starting" /\ of'[r] = w /\ ~Live(r)
      /\ \A q \in Runs \ {r} : pc'[q] = pc[q] /\ of'[q] = of[q]
      BY <1>0, <1>2 DEF TypeOK, Live, Busy, Waiting
<1>4. \A v \in Workflows \ {w} : LiveOn(v)' = LiveOn(v) /\ \A q \in LiveOn(v) : pc'[q] = pc[q]
      BY <1>3 DEF LiveOn, Live
<1>5. \A v \in Workflows \ {w} : SagaPhase(v)' = SagaPhase(v)
  <2>1. \A v \in Workflows \ {w} : row'[v] = row[v] BY <1>0, <1>2 DEF TypeOK
  <2> QED BY <1>4, <2>1, PhaseKept
<1>6. SagaPhase(w) = "idle"
  <2>1. \A q \in Runs : Live(q) => of[q] # w
        BY <1>0, StartableIsFree DEF HandsOver, Unstarted, RestingRows
  <2>2. LiveOn(w) = {} BY <2>1 DEF LiveOn
  <2> QED BY <2>2, PhaseOfDead
<1>7. SagaPhase(w)' = "idle"
  <2>1. Live(r)' BY <1>3 DEF Live, Busy
  <2>2. SagaPhase(w)' = RunPhase(pc'[r]) BY <1>1, <1>3, <2>1, PhaseOfLive DEF RoutesInv
  <2> QED BY <1>3, <2>2 DEF RunPhase
<1>8. UNCHANGED <<Phases, Counts, Undone>>
      BY <1>2, <1>5, <1>6, <1>7 DEF Phases, Counts, Undone
<1> QED BY <1>8, NothingMoves

LEMMA StartMaps ==
    ASSUME SagaInv, NEW r \in Runs, StartRun(r)
    PROVE  Sagas!SagaNext
<1>0. TypeOK /\ Coherent /\ SingleRun BY DEF SagaInv, RoutesInv, EngineInv
<1>1. SingleRun' BY RoutesInvStartRun DEF SagaInv, RoutesInv
<1>2. Holds(r) /\ pc[r] = "starting" /\ Begin(r, of[r], opts[r]) BY DEF StartRun
<1>3. PICK w \in Workflows : of[r] = w BY <1>0, <1>2, HolderIsLive
<1>4. /\ pc' = [pc EXCEPT ![r] = "loop"] /\ of' = of
      /\ row' = [row EXCEPT ![w] = [row[w] EXCEPT !.status = "running"]]
      /\ UNCHANGED <<stepLog, undoCalls>>
      BY <1>0, <1>2, <1>3 DEF Begin, Goto, Rewrite, TypeOK, world
<1>5. /\ pc'[r] = "loop" /\ Live(r) /\ Live(r)'
      /\ \A q \in Runs \ {r} : pc'[q] = pc[q]
      BY <1>0, <1>2, <1>4 DEF TypeOK, Live, Busy
<1>6. \A v \in Workflows \ {w} : SagaPhase(v)' = SagaPhase(v)
  <2>1. \A v \in Workflows \ {w} : row'[v] = row[v] BY <1>0, <1>4 DEF TypeOK
  <2>2. \A v \in Workflows \ {w} :
           LiveOn(v)' = LiveOn(v) /\ \A q \in LiveOn(v) : pc'[q] = pc[q]
        BY <1>3, <1>4, <1>5 DEF LiveOn, Live
  <2> QED BY <2>1, <2>2, PhaseKept
<1>7. SagaPhase(w) = "idle"
  <2>1. SagaPhase(w) = RunPhase(pc[r]) BY <1>0, <1>3, <1>5, PhaseOfLive
  <2> QED BY <1>2, <2>1 DEF RunPhase
<1>8. SagaPhase(w)' = "forward"
  <2>1. SagaPhase(w)' = RunPhase(pc'[r]) BY <1>1, <1>3, <1>4, <1>5, PhaseOfLive
  <2> QED BY <1>5, <2>1 DEF RunPhase
<1>9. Sagas!Move(w, "idle", "forward") BY <1>6, <1>7, <1>8, Moves
<1>10. UNCHANGED <<Counts, Undone>> BY <1>4 DEF Counts, Undone
<1>11. Sagas!Launch(w) BY <1>9, <1>10 DEF Sagas!Launch, Counts, Undone
<1> QED BY <1>11 DEF Sagas!SagaNext

-----------------------------------------------------------------------------
(* A run's own steps, one lemma per kind of step of a saga                 *)

\* Of other workflows nothing changes.
LEMMA RunStepElsewhere ==
    ASSUME SagaInv, NEW r \in Runs, RunStep(r) \/ Wakeup(r), NEW w \in Workflows, of[r] = w
    PROVE  /\ \A v \in Workflows \ {w} : SagaPhase(v)' = SagaPhase(v)
           /\ \A v \in Workflows \ {w} : stepLog'[v] = stepLog[v] /\ undoCalls'[v] = undoCalls[v]
           /\ SagaPhase(w) = RunPhase(pc[r]) /\ pc[r] # "starting" /\ pc'[r] # "starting"
           /\ Live(r)' => SagaPhase(w)' = RunPhase(pc'[r])
           /\ ~Live(r)' =>
                SagaPhase(w)' = IF row'[w].status \in RestingRows THEN "idle" ELSE "ended"
<1>0. TypeOK /\ Coherent /\ SingleRun BY DEF SagaInv, RoutesInv, EngineInv
<1>1. /\ Live(r) /\ pc[r] # "starting" /\ pc'[r] # "starting" /\ of' = of
      /\ \A v \in Workflows \ {w} : row'[v] = row[v] /\ stepLog'[v] = stepLog[v]
      BY <1>0, RunStepFrame
<1>2. OnlyRun(r) BY <1>0, OnlyRunStep
<1>3. SingleRun' BY RoutesInvRunStep DEF SagaInv, RoutesInv
<1>4. \A v \in Workflows \ {w} : SagaPhase(v)' = SagaPhase(v)
  <2>1. \A v \in Workflows \ {w} :
           LiveOn(v)' = LiveOn(v) /\ \A q \in LiveOn(v) : pc'[q] = pc[q]
        BY <1>1, <1>2 DEF LiveOn, Live, OnlyRun
  <2> QED BY <1>1, <2>1, PhaseKept
<1>5. \A v \in Workflows \ {w} : undoCalls'[v] = undoCalls[v] BY UndoOwn DEF SagaInv
<1>6. SagaPhase(w) = RunPhase(pc[r]) BY <1>0, <1>1, PhaseOfLive
<1>7. Live(r)' => SagaPhase(w)' = RunPhase(pc'[r]) BY <1>1, <1>3, PhaseOfLive
<1>8. ASSUME ~Live(r)'
      PROVE  SagaPhase(w)' = IF row'[w].status \in RestingRows THEN "idle" ELSE "ended"
  <2>1. LiveOn(w)' = {}
        BY <1>0, <1>1, <1>2, <1>8 DEF LiveOn, Live, OnlyRun, SingleRun
  <2> QED BY <2>1, PhaseOfDead
<1> QED BY <1>1, <1>4, <1>5, <1>6, <1>7, <1>8

\* The branches that return: the workflow ends, or waits for an approval.
LEMMA LeavingMaps ==
    ASSUME SagaInv, NEW r \in Runs,
           \/ StopOnAbort(r) \/ AwaitApproval(r) \/ DepsMissing(r) \/ Finish(r)
           \/ EndCompensation(r) \/ (FailStep(r) /\ End(r))
    PROVE  Sagas!SagaNext
<1>0. TypeOK /\ Coherent BY DEF SagaInv, RoutesInv, EngineInv
<1>1. RunStep(r) BY DEF RunStep
<1>2. PICK w \in Workflows : of[r] = w BY <1>0, <1>1, RunStepFrame
<1>3. /\ \A v \in Workflows \ {w} : SagaPhase(v)' = SagaPhase(v)
      /\ SagaPhase(w) = RunPhase(pc[r])
      /\ ~Live(r)' => SagaPhase(w)' = IF row'[w].status \in RestingRows THEN "idle" ELSE "ended"
      BY <1>1, <1>2, RunStepElsewhere
<1>4. /\ UNCHANGED <<stepLog, undoCalls>> /\ pc' = [pc EXCEPT ![r] = "ended"]
      BY DEF StopOnAbort, AwaitApproval, DepsMissing, Finish, EndCompensation, FailStep, Leave,
             End, world
<1>5. ~Live(r)' BY <1>0, <1>4 DEF TypeOK, Live, Busy, Waiting
<1>6. UNCHANGED <<Counts, Undone>> BY <1>4 DEF Counts, Undone
<1>7. \A status : SetStatus(r, status) => row'[w].status = status
      BY <1>0, <1>2 DEF SetStatus, TypeOK, WorkflowState
<1>8. CASE AwaitApproval(r)
  <2>1. pc[r] = "loop" /\ row'[w].status = "awaiting_approval"
        BY <1>7, <1>8 DEF AwaitApproval, Fresh, AtStep, AtLoop, Leave
  <2>2. SagaPhase(w) = "forward" /\ SagaPhase(w)' = "idle"
        BY <1>3, <1>5, <2>1 DEF RunPhase, RestingRows
  <2>3. Sagas!Move(w, "forward", "idle") BY <1>3, <2>2, Moves
  <2>4. Sagas!Suspend(w) BY <1>6, <2>3 DEF Sagas!Suspend, Counts, Undone
  <2> QED BY <2>4 DEF Sagas!SagaNext
<1>9. CASE ~AwaitApproval(r)
  <2>1. row'[w].status \in {"cancelled", "failed", "completed"}
        BY <1>7, <1>9 DEF StopOnAbort, DepsMissing, Finish, EndCompensation, FailStep, Leave
  <2>2. SagaPhase(w)' = "ended" BY <1>3, <1>5, <2>1 DEF RestingRows
  <2>3. Sagas!Stop({w}) BY <1>3, <1>6, <2>2, EndsOne
  <2> QED BY <2>3 DEF Sagas!SagaNext
<1> QED BY <1>8, <1>9

\* The record of a completed step.
LEMMA RecordMaps ==
    ASSUME SagaInv, NEW r \in Runs, RecordStepExecution(r)
    PROVE  [Sagas!SagaNext]_Sagas!svars
<1> USE PlanAssumption
<1>0. TypeOK /\ Coherent BY DEF SagaInv, RoutesInv, EngineInv
<1>1. RunStep(r) BY DEF RunStep
<1>2. PICK w \in Workflows : of[r] = w BY <1>0, <1>1, RunStepFrame
<1>3. /\ pc[r] = "record" /\ pc'[r] = "settle" /\ undoCalls' = undoCalls
      BY <1>0 DEF RecordStepExecution, Goto, TypeOK, world
<1>4. /\ \A v \in Workflows \ {w} : SagaPhase(v)' = SagaPhase(v) /\ stepLog'[v] = stepLog[v]
      /\ SagaPhase(w) = "forward" /\ SagaPhase(w)' = "forward"
      BY <1>1, <1>2, <1>3, RunStepElsewhere DEF RunPhase, Live, Busy
<1>5. UNCHANGED <<Phases, Undone>> BY <1>3, <1>4 DEF Phases, Undone
<1>6. PICK k \in 0 .. N : stepLog[w]["completed"] = 1 .. k BY DEF SagaInv, LogIsPrefix
<1>7. \A j \in 0 .. N + 1 : Cardinality(1 .. j) = j
  <2> TAKE j \in 0 .. N + 1
  <2> QED BY FS_Interval
<1>8. CASE stepLog'[w]["completed"] = 1 .. k
  <2>1. \A v \in Workflows : stepLog'[v]["completed"] = stepLog[v]["completed"]
        BY <1>4, <1>6, <1>8
  <2>2. UNCHANGED Counts BY <2>1 DEF Counts
  <2> QED BY <1>5, <2>2, NothingMoves
<1>9. CASE k < N /\ stepLog'[w]["completed"] = 1 .. k + 1
  <2>1. /\ Cardinality(stepLog[w]["completed"]) = k
        /\ Cardinality(stepLog'[w]["completed"]) = k + 1
        BY <1>6, <1>7, <1>9
  <2>2. Counts' = [Counts EXCEPT ![w] = @ + 1] BY <1>4, <2>1 DEF Counts
  <2>3. Sagas!Advance(w)
        BY <1>4, <1>5, <1>9, <2>1, <2>2 DEF Sagas!Advance, Counts, Phases, Undone
  <2> QED BY <2>3 DEF Sagas!SagaNext
<1> QED BY <1>2, <1>6, <1>8, <1>9, RecordAppends DEF SagaInv

\* A failure with something to undo: what is on the stack is on record, and no
\* compensation was called yet.
LEMMA FailureMaps ==
    ASSUME SagaInv, NEW r \in Runs, FailStep(r), ~End(r)
    PROVE  Sagas!SagaNext
<1>0. /\ TypeOK /\ Coherent /\ WellFormed(mem[r]) /\ LoggedByRuns
      BY DEF SagaInv, RoutesInv, EngineInv, AllWellFormed, ObjectsWellFormed, AllLogged
<1>1. RunStep(r) BY DEF RunStep
<1>2. PICK w \in Workflows : of[r] = w BY <1>0, <1>1, RunStepFrame
<1>3. /\ pc[r] = "settle" /\ pc'[r] = "compensate" /\ mem[r].stack # <<>>
      /\ UNCHANGED <<stepLog, undoCalls>>
      BY <1>0 DEF FailStep, Goto, TypeOK, world
<1>4. /\ \A v \in Workflows \ {w} : SagaPhase(v)' = SagaPhase(v)
      /\ SagaPhase(w) = "forward" /\ SagaPhase(w)' = "backward"
      BY <1>1, <1>2, <1>3, RunStepElsewhere DEF RunPhase, Live, Busy
<1>5. UNCHANGED <<Counts, Undone>> BY <1>3 DEF Counts, Undone
<1>6. Sagas!Move(w, "forward", "backward") BY <1>4, Moves
<1>7. PICK k \in 0 .. N : stepLog[w]["completed"] = 1 .. k BY DEF SagaInv, LogIsPrefix
<1>8. Cardinality(1 .. k) = k BY <1>7, FS_Interval, PlanAssumption
<1>9. mem[r].stack[1] \in Compensable \cap stepLog[w]["completed"] \cap Steps
  <2>1. 1 \in 1 .. Len(mem[r].stack) /\ mem[r].stack[1] \in Steps
        BY <1>0, <1>3 DEF TypeOK, WorkflowState
  <2>2. mem[r].stack[1] \in mem[r].completed \cap Compensable BY <1>0, <2>1 DEF WellFormed
  <2>3. mem[r].completed \subseteq stepLog[w]["completed"]
        BY <1>0, <1>2, <1>3 DEF LoggedByRuns, Live, Busy
  <2> QED BY <2>1, <2>2, <2>3
<1>10. undoCalls[w][mem[r].stack[1]] = 0
  <2>1. Untouched(w) BY <1>2, <1>3 DEF SagaInv, UndoInv, Live, Busy, Compensates
  <2> QED BY <1>9, <2>1 DEF Untouched
<1>11. Sagas!Standing(w) # {}
  <2>1. mem[r].stack[1] \in Sagas!Standing(w)
        BY <1>7, <1>8, <1>9, <1>10 DEF Sagas!Standing
  <2> QED BY <2>1
<1>12. Sagas!TurnBack(w) BY <1>5, <1>6, <1>11 DEF Sagas!TurnBack, Counts, Undone
<1> QED BY <1>12 DEF Sagas!SagaNext

\* A compensation call: of the steps that still stand it takes the last.
LEMMA CompensationMaps ==
    ASSUME SagaInv, NEW r \in Runs, CallCompensation(r)
    PROVE  Sagas!SagaNext
<1>0. TypeOK /\ Coherent /\ WellFormed(mem[r])
      BY DEF SagaInv, RoutesInv, EngineInv, AllWellFormed, ObjectsWellFormed
<1>1. RunStep(r) BY DEF RunStep
<1>2. PICK w \in Workflows : of[r] = w BY <1>0, <1>1, RunStepFrame
<1>3. PICK s : s = mem[r].stack[undo[r]] OBVIOUS
<1>4. /\ pc[r] = "undo" /\ pc'[r] = "undoing" /\ undo[r] > 0 /\ stepLog' = stepLog
      /\ undoCalls' = [undoCalls EXCEPT ![w][s] = undoCalls[w][s] + 1]
      BY <1>0, <1>2, <1>3 DEF CallCompensation, Goto, TypeOK, Count, db
<1>5. undo[r] \in 1 .. Len(mem[r].stack) BY <1>0, <1>4 DEF Coherent, InPlace
<1>6. s \in Steps BY <1>0, <1>3, <1>5 DEF TypeOK, WorkflowState
<1>7. /\ \A v \in Workflows \ {w} : SagaPhase(v)' = SagaPhase(v)
      /\ SagaPhase(w) = "backward" /\ SagaPhase(w)' = "backward"
      BY <1>1, <1>2, <1>4, RunStepElsewhere DEF RunPhase, Live, Waiting
<1>8. UNCHANGED <<Phases, Counts>> BY <1>4, <1>7 DEF Phases, Counts
<1>9. PICK k \in 0 .. N : stepLog[w]["completed"] = 1 .. k BY DEF SagaInv, LogIsPrefix
<1>10. Cardinality(1 .. k) = k BY <1>9, FS_Interval, PlanAssumption
<1>11. UndoneDown(r) /\ Recorded(r) \subseteq mem[r].completed
       BY <1>4 DEF SagaInv, UndoInv, Compensates, Failing
<1>12. Sagas!Standing(w) = {t \in Compensable \cap 1 .. k : undoCalls[w][t] = 0}
  <2>1. Sagas!Standing(w) =
            (Compensable \cap 1 .. k) \ {t \in Steps : undoCalls[w][t] > 0}
        BY <1>9, <1>10 DEF Sagas!Standing
  <2>2. \A t \in 1 .. k : t \in Steps BY PlanAssumption DEF Steps
  <2>3. \A t \in Steps : undoCalls[w][t] \in Nat BY <1>0 DEF TypeOK
  <2> QED BY <2>1, <2>2, <2>3
<1>13. s \in Sagas!Standing(w)
  <2>1. undoCalls[w][s] = 0 BY <1>2, <1>3, <1>4, <1>5, <1>11 DEF UndoneDown, Below
  <2>2. s \in mem[r].completed \cap Compensable BY <1>0, <1>3, <1>5, <1>6 DEF WellFormed
  <2>3. mem[r].completed \subseteq stepLog[w]["completed"]
        BY <1>2, <1>4 DEF SagaInv, RoutesInv, EngineInv, AllLogged, LoggedByRuns, Live, Busy
  <2> QED BY <1>9, <1>12, <2>1, <2>2, <2>3
<1>14. ASSUME NEW t \in Sagas!Standing(w) PROVE t <= s
  <2>1. t \in Compensable /\ t \in 1 .. k /\ undoCalls[w][t] = 0 BY <1>12
  <2>2. t \in mem[r].completed BY <1>2, <1>9, <1>11, <2>1 DEF Recorded
  <2>3. PICK i \in 1 .. Len(mem[r].stack) : mem[r].stack[i] = t
        BY <1>0, <2>1, <2>2, PlanAssumption DEF WellFormed
  <2>4. i <= undo[r] BY <1>2, <1>4, <1>11, <2>1, <2>3 DEF UndoneDown, Below
  <2>5. CASE i = undo[r] BY <1>3, <1>6, <2>3, <2>5 DEF Steps
  <2>6. CASE i < undo[r] BY <1>0, <1>3, <1>5, <1>6, <2>1, <2>3, <2>6 DEF WellFormed, Steps
  <2> QED BY <1>5, <2>4, <2>5, <2>6
<1>15. Undone' = [Undone EXCEPT ![w] = @ \cup {s}]
  <2>1. \A v \in Workflows \ {w} : undoCalls'[v] = undoCalls[v] BY <1>0, <1>4 DEF TypeOK
  <2>2. /\ \A t \in Steps \ {s} : undoCalls'[w][t] = undoCalls[w][t]
        /\ undoCalls'[w][s] = undoCalls[w][s] + 1 /\ undoCalls[w][s] \in Nat
        BY <1>0, <1>4, <1>6 DEF TypeOK
  <2>3. {t \in Steps : undoCalls'[w][t] > 0} = {t \in Steps : undoCalls[w][t] > 0} \cup {s}
        BY <1>6, <2>2
  <2> QED BY <2>1, <2>3 DEF Undone
<1>16. Sagas!UndoLatest(w)
       BY <1>7, <1>8, <1>13, <1>14, <1>15 DEF Sagas!UndoLatest, Phases, Counts, Undone
<1> QED BY <1>16 DEF Sagas!SagaNext

\* Everything else that a run does is hidden from the outside.
LEMMA HiddenMaps ==
    ASSUME SagaInv, NEW r \in Runs,
           \/ SkipCompleted(r) \/ Dispatch(r) \/ Checkpoint(r) \/ StartCompensation(r) \/ Wakeup(r)
    PROVE  UNCHANGED Sagas!svars
<1>0. TypeOK /\ Coherent BY DEF SagaInv, RoutesInv, EngineInv
<1>1. RunStep(r) \/ Wakeup(r) BY DEF RunStep
<1>2. PICK w \in Workflows : of[r] = w BY <1>0, <1>1, RunStepFrame
<1>3. /\ UNCHANGED <<stepLog, undoCalls>> /\ Live(r)' /\ RunPhase(pc'[r]) = RunPhase(pc[r])
  <2> USE <1>0 DEF TypeOK, Goto, Resolve, RunPhase, Live, Busy, Waiting, world, db
  <2>1. CASE SkipCompleted(r) BY <2>1 DEF SkipCompleted, AtStep, AtLoop
  <2>2. CASE Dispatch(r) BY <2>2 DEF Dispatch, Fresh, AtStep, AtLoop
  <2>3. CASE Checkpoint(r) BY <2>3 DEF Checkpoint
  <2>4. CASE StartCompensation(r) BY <2>4 DEF StartCompensation
  <2>5. CASE Wakeup(r)
        BY <2>5 DEF Wakeup, CallCompletes, CallFails, CallRejects, BackoffElapses,
                    CompensationReturns
  <2> QED BY <2>1, <2>2, <2>3, <2>4, <2>5
<1>4. \A v \in Workflows : SagaPhase(v)' = SagaPhase(v)
      BY <1>1, <1>2, <1>3, RunStepElsewhere
<1>5. UNCHANGED <<Phases, Counts, Undone>> BY <1>3, <1>4 DEF Phases, Counts, Undone
<1> QED BY <1>5, NothingMoves

LEMMA SagaStepMaps == SagaInv /\ [RoutesNext]_vars => [Sagas!SagaNext]_Sagas!svars
<1> SUFFICES ASSUME SagaInv, [RoutesNext]_vars PROVE [Sagas!SagaNext]_Sagas!svars OBVIOUS
<1>1. ASSUME NEW r \in Runs, RunStep(r) PROVE [Sagas!SagaNext]_Sagas!svars
  <2>1. CASE \/ StopOnAbort(r) \/ AwaitApproval(r) \/ DepsMissing(r) \/ Finish(r)
             \/ EndCompensation(r) \/ (FailStep(r) /\ End(r))
        BY <2>1, LeavingMaps
  <2>2. CASE FailStep(r) /\ ~End(r) BY <2>2, FailureMaps
  <2>3. CASE RecordStepExecution(r) BY <2>3, RecordMaps
  <2>4. CASE CallCompensation(r) BY <2>4, CompensationMaps
  <2>5. CASE SkipCompleted(r) \/ Dispatch(r) \/ Checkpoint(r) \/ StartCompensation(r)
        BY <2>5, HiddenMaps
  <2> QED BY <1>1, <2>1, <2>2, <2>3, <2>4, <2>5 DEF RunStep
<1>2. ASSUME NEW r \in Runs, Wakeup(r) PROVE [Sagas!SagaNext]_Sagas!svars
      BY <1>2, HiddenMaps
<1>3. ASSUME NEW r \in Runs, StartRun(r) PROVE [Sagas!SagaNext]_Sagas!svars
      BY <1>3, StartMaps
<1>4. ASSUME NEW r \in Runs, NEW w \in Workflows, ExecuteAndStart(r, w) \/ ApproveRoute(r, w)
      PROVE  [Sagas!SagaNext]_Sagas!svars
  <2>1. /\ SkipApproval \in [skipApproval : BOOLEAN, dryRun : BOOLEAN]
        /\ NoOptions \in [skipApproval : BOOLEAN, dryRun : BOOLEAN]
        BY DEF SkipApproval, NoOptions
  <2>2. CASE ExecuteAndStart(r, w)
        BY <2>1, <2>2, HandOverMaps DEF ExecuteAndStart, HandsOver, NewStatus, RestingRows
  <2>3. CASE ApproveRoute(r, w)
        BY <2>1, <2>3, HandOverMaps DEF ApproveRoute, HandsOver, RestingRows
  <2> QED BY <1>4, <2>2, <2>3
<1>5. ASSUME NEW w \in Workflows,
             ExecuteAndWait(w) \/ ApproveUnstarted(w) \/ Reject(w) \/ Cancel(w)
      PROVE  [Sagas!SagaNext]_Sagas!svars
      BY <1>5, RequestsMap DEF ExecuteAndWait, ApproveUnstarted
<1>6. CASE Process BY <1>6, ProcessMaps
<1>7. CASE UNCHANGED vars
  <2>1. UNCHANGED <<row, stepLog, pc, of, undoCalls>> BY <1>7 DEF vars, db, runs, world
  <2>2. \A v \in Workflows : LiveOn(v)' = LiveOn(v) BY <2>1 DEF LiveOn, Live
  <2>3. \A v \in Workflows : SagaPhase(v)' = SagaPhase(v) BY <2>1, <2>2, PhaseKept
  <2>4. UNCHANGED <<Phases, Counts, Undone>> BY <2>1, <2>3 DEF Phases, Counts, Undone
  <2> QED BY <2>4, NothingMoves
<1> QED BY <1>1, <1>2, <1>3, <1>4, <1>5, <1>6, <1>7 DEF RoutesNext, Handler

LEMMA SagaStarts == Init => Sagas!SagaInit
<1> SUFFICES ASSUME Init PROVE Sagas!SagaInit OBVIOUS
<1>1. \A w \in Workflows : LiveOn(w) = {} BY DEF Init, LiveOn, Live, Busy, Waiting
<1>2. \A w \in Workflows : SagaPhase(w) = "idle"
      BY <1>1, PhaseOfDead DEF Init, Absent, RestingRows
<1>3. \A w \in Workflows : Cardinality(stepLog[w]["completed"]) = 0
      BY FS_EmptySet DEF Init, Outcome
<1>4. \A w \in Workflows : {s \in Steps : undoCalls[w][s] > 0} = {} BY DEF Init
<1> QED BY <1>2, <1>3, <1>4 DEF Sagas!SagaInit

\* Each workflow behind the API behaves as a saga: steps complete in order, a
\* failure turns it to undoing them, last first and once each, and after its end
\* nothing more is done in its name.
THEOREM WorkflowsAreSagas == RoutesSpec => ImplementsSaga
<1> QED BY SagaStarts, SagaInvInit, SagaInvNext, SagaStepMaps, PTL
        DEF RoutesSpec, ImplementsSaga, Sagas!SagaSpec
=============================================================================
