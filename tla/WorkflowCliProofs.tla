-------------------------- MODULE WorkflowCliProofs --------------------------
(***************************************************************************)
(* Proofs about a command beside the server, for any workflows, runs,      *)
(* commands and plans of the planner: what the command marks and writes    *)
(* back does not disturb what the engine keeps of itself, though it        *)
(* undoes checkpoints.                                                     *)
(***************************************************************************)
EXTENDS WorkflowCli, WorkflowRoutesProofs

CliInv == EngineInv /\ SingleRun /\ NotHandedOver /\ SnapshotIsOld

-----------------------------------------------------------------------------
(* The server's own steps                                                  *)

\* A run's step, as behind the API: only the wait for an approval leaves a row that a route
\* would start, and it ends the run.
LEMMA CliRunStep ==
    ASSUME EngineInv, SingleRun, NotHandedOver, NEW r \in Runs, RunStep(r) \/ Wakeup(r)
    PROVE  SingleRun' /\ NotHandedOver'
<1>0. TypeOK /\ Coherent BY DEF EngineInv
<1>2. /\ Live(r) /\ of[r] \in Workflows /\ of' = of
      /\ \A w \in Workflows \ {of[r]} : row'[w] = row[w]
      BY <1>0, RunStepFrame
<1>3. OnlyRun(r) BY <1>0, OnlyRunStep
<1>4. \A q \in Runs \ {r} : Live(q) => of[q] \in Workflows \ {of[r]}
      BY <1>0, <1>2 DEF SingleRun, Coherent, InPlace
<1>5. SingleRun' BY <1>2, <1>3 DEF SingleRun, OnlyRun, Live
<1>6. Live(r)' => row'[of[r]].status \notin {"absent", "awaiting_approval"}
  <2>1. CASE UNCHANGED <<row, mem>> /\ Live(r)' BY <1>2, <2>1 DEF NotHandedOver
  <2>2. CASE WritesObject(r) BY <1>0, <1>2, <2>2 DEF WritesObject, TypeOK
  <2>3. CASE WritesStatus(r)
    <3>1. PICK status \in {"awaiting_approval", "completed", "failed", "compensating", "cancelled"} :
               /\ SetStatus(r, status)
               /\ status = "awaiting_approval" => pc[r] = "loop" /\ pc'[r] = "ended"
          BY <2>3 DEF WritesStatus
    <3>2. row'[of[r]] = [mem[r] EXCEPT !.status = status]
          BY <3>1, <1>0, <1>2 DEF SetStatus, TypeOK
    <3>3. row'[of[r]].status = status BY <1>0, <3>2 DEF TypeOK, WorkflowState
    <3> QED BY <3>1, <3>3 DEF Live, Busy, Waiting
  <2>4. CASE Checkpoint(r)
    <3>1. mem[r].status = "running" BY <1>0, <2>4 DEF Checkpoint, Coherent, InPlace
    <3> QED BY <1>0, <1>2, <2>4, <3>1 DEF Checkpoint, WithStep, TypeOK
  <2> QED BY <1>0, <2>1, <2>2, <2>3, <2>4, RunWrites
<1>7. NotHandedOver'
  <2>1. \A q \in Runs \ {r} : Live(q) => row'[of[q]] = row[of[q]] BY <1>2, <1>4
  <2> QED BY <1>2, <1>3, <1>6, <2>1 DEF NotHandedOver, OnlyRun, Live
<1> QED BY <1>5, <1>7

\* What a route hands over has no run.
LEMMA CliHandOver ==
    ASSUME EngineInv, SingleRun, NotHandedOver, NEW r \in Runs, NEW w \in Workflows, NEW o,
           HandsOver(r, w, o), row[w].status \in {"absent", "awaiting_approval"}
    PROVE  SingleRun' /\ NotHandedOver'
<1>0. TypeOK /\ Coherent BY DEF EngineInv
<1>2. /\ pc[r] = "new" /\ pc' = [pc EXCEPT ![r] = "starting"]
      /\ of' = [of EXCEPT ![r] = w]
      /\ row' = [row EXCEPT ![w] = [row[w] EXCEPT !.status = "pending"]]
      BY DEF HandsOver, HandOver, Goto, Rewrite
<1>3. \A q \in Runs : Live(q) => of[q] # w /\ q # r
      BY <1>2 DEF NotHandedOver, Live, Busy, Waiting
<1>4. \A q \in Runs \ {r} : pc'[q] = pc[q] /\ of'[q] = of[q] BY <1>0, <1>2 DEF TypeOK
<1>5. pc'[r] = "starting" /\ of'[r] = w BY <1>0, <1>2 DEF TypeOK
<1>6. SingleRun' BY <1>3, <1>4, <1>5 DEF SingleRun, Live
<1>7. NotHandedOver'
  <2>1. row'[w].status = "pending" BY <1>0, <1>2 DEF TypeOK, WorkflowState
  <2>2. \A q \in Runs \ {r} : Live(q) => row'[of[q]] = row[of[q]]
        BY <1>0, <1>2, <1>3 DEF TypeOK, Coherent, InPlace
  <2> QED BY <1>4, <1>5, <2>1, <2>2 DEF NotHandedOver, Live
<1> QED BY <1>6, <1>7

\* The handler starts what it was handed, whatever a command has made of the row meanwhile.
LEMMA CliStartRun ==
    ASSUME EngineInv, SingleRun, NotHandedOver, NEW r \in Runs, StartRun(r)
    PROVE  EngineInv' /\ SingleRun' /\ NotHandedOver'
<1>0. TypeOK /\ Coherent BY DEF EngineInv
<1>1. Holds(r) /\ pc[r] = "starting" /\ Begin(r, of[r], opts[r]) BY DEF StartRun
<1>2. of[r] \in Workflows /\ Live(r) BY <1>0, <1>1, HolderIsLive
<1>3. EngineInv' BY <1>0, <1>1, <1>2, EngineInvBegin DEF MayBegin, TypeOK
<1>4. /\ pc' = [pc EXCEPT ![r] = "loop"] /\ of' = of
      /\ row' = [row EXCEPT ![of[r]] = [row[of[r]] EXCEPT !.status = "running"]]
      BY <1>0, <1>1 DEF Begin, Goto, Rewrite, TypeOK
<1>5. \A q \in Runs \ {r} : pc'[q] = pc[q] /\ (Live(q) => of[q] \in Workflows \ {of[r]})
      BY <1>0, <1>2, <1>4 DEF SingleRun, TypeOK, Coherent, InPlace
<1>6. SingleRun' BY <1>4, <1>5 DEF SingleRun, Live
<1>7. row'[of[r]].status = "running" BY <1>0, <1>2, <1>4 DEF TypeOK, WorkflowState
<1>8. \A q \in Runs \ {r} : Live(q) => row'[of[q]] = row[of[q]] BY <1>0, <1>4, <1>5 DEF TypeOK
<1>9. NotHandedOver' BY <1>4, <1>5, <1>7, <1>8 DEF NotHandedOver, Live
<1> QED BY <1>3, <1>6, <1>9

\* No request makes a row one that a route would start, but of a workflow that was not there.
LEMMA CliRequest ==
    ASSUME EngineInv, SingleRun, NotHandedOver, NEW w \in Workflows,
           Create(w) \/ Approve(w) \/ Reject(w) \/ Cancel(w)
    PROVE  SingleRun' /\ NotHandedOver'
<1>0. TypeOK /\ Coherent BY DEF EngineInv
<1>1. UNCHANGED <<pc, of>> BY <1>0, RequestStatuses DEF Request
<1>2. \A v \in Workflows :
          row'[v].status \in {"absent", "awaiting_approval"}
              => row[v].status \in {"absent", "awaiting_approval"}
  <2> USE DEF TypeOK, WorkflowState, Rewrite
  <2>1. CASE Create(w) BY <1>0, <2>1 DEF Create
  <2>2. CASE Reject(w) BY <1>0, <2>2 DEF Reject
  <2>3. CASE Cancel(w) BY <1>0, <2>3 DEF Cancel
  <2>4. CASE Approve(w) BY <1>0, <2>4 DEF Approve
  <2> QED BY <2>1, <2>2, <2>3, <2>4
<1>3. \A q \in Runs : Live(q) => of[q] \in Workflows BY <1>0 DEF Coherent, InPlace
<1> QED BY <1>1, <1>2, <1>3 DEF SingleRun, NotHandedOver, Live

LEMMA CliProcess ==
    ASSUME EngineInv, SingleRun, NotHandedOver, Process
    PROVE  SingleRun' /\ NotHandedOver'
<1>0. TypeOK /\ Coherent BY DEF EngineInv
<1>2. CASE Crash
  <2>1. \A r \in Runs : pc'[r] \in {"new", "ended"} BY <1>0, <1>2 DEF Crash, TypeOK, PC, Live
  <2> QED BY <2>1 DEF SingleRun, NotHandedOver, Live, Busy, Waiting
<1>3. CASE Restart
  <2>1. \A r \in Runs : ~Live(r) BY <1>0, <1>3 DEF Restart, Coherent, DownMeansDead
  <2>2. UNCHANGED pc BY <1>3 DEF Restart, runs
  <2> QED BY <2>1, <2>2 DEF SingleRun, NotHandedOver, Live
<1>4. ASSUME NEW w \in Workflows, NEW s \in Steps, LateLanding(w, s)
      PROVE  SingleRun' /\ NotHandedOver'
  <2>1. UNCHANGED <<row, pc, of>> BY <1>4 DEF LateLanding, db, runs
  <2> QED BY <2>1 DEF SingleRun, NotHandedOver, Live
<1> QED BY <1>2, <1>3, <1>4 DEF Process

\* Execution records stay, so what a command has read stays on record.
LEMMA LogOnlyGrows ==
    ASSUME EngineInv, [RoutesNext]_vars
    PROVE  \A w \in Workflows : stepLog[w]["completed"] \subseteq stepLog'[w]["completed"]
<1>0. TypeOK /\ Coherent BY DEF EngineInv
<1>1. ASSUME NEW r \in Runs, RunStep(r) \/ Wakeup(r)
      PROVE  \A w \in Workflows : stepLog[w]["completed"] \subseteq stepLog'[w]["completed"]
  <2>1. of[r] \in Workflows BY <1>0, <1>1, RunStepFrame
  <2>2. CASE UNCHANGED stepLog BY <2>2
  <2>3. CASE RecordStepExecution(r)
    <3>1. stepLog' = [stepLog EXCEPT ![of[r]][result[r]] = stepLog[of[r]][result[r]] \cup {pos[r]}]
          BY <2>3 DEF RecordStepExecution
    <3> QED BY <1>0, <2>1, <3>1 DEF TypeOK, Outcome
  <2> QED BY <1>0, <1>1, <2>2, <2>3, LogGrows
<1>2. CASE \E r \in Runs : StartRun(r) BY <1>2 DEF StartRun, Begin
<1>3. CASE \E r \in Runs, w \in Workflows : ExecuteAndStart(r, w) \/ ApproveRoute(r, w)
      BY <1>3 DEF ExecuteAndStart, ApproveRoute, HandOver
<1>4. CASE \E w \in Workflows :
              ExecuteAndWait(w) \/ ApproveUnstarted(w) \/ Reject(w) \/ Cancel(w)
      BY <1>4 DEF ExecuteAndWait, ApproveUnstarted, Create, Approve, Reject, Cancel
<1>5. CASE Process BY <1>5 DEF Process, Crash, Restart, LateLanding, db
<1>6. CASE UNCHANGED vars BY <1>6 DEF vars, db
<1> QED BY <1>1, <1>2, <1>3, <1>4, <1>5, <1>6 DEF RoutesNext, Handler

LEMMA ServerKeeps ==
    ASSUME CliInv, [RoutesNext]_vars, UNCHANGED cliVars
    PROVE  CliInv'
<1>0. EngineInv /\ SingleRun /\ NotHandedOver /\ TypeOK BY DEF CliInv, EngineInv
<1>1. ASSUME NEW r \in Runs, Handler(r) \/ Wakeup(r)
      PROVE  EngineInv' /\ SingleRun' /\ NotHandedOver'
      BY <1>0, <1>1, EngineInvRunStep, CliRunStep, CliStartRun DEF Handler
<1>2. ASSUME NEW r \in Runs, NEW w \in Workflows, ExecuteAndStart(r, w) \/ ApproveRoute(r, w)
      PROVE  EngineInv' /\ SingleRun' /\ NotHandedOver'
  <2>1. /\ SkipApproval \in [skipApproval : BOOLEAN, dryRun : BOOLEAN]
        /\ NoOptions \in [skipApproval : BOOLEAN, dryRun : BOOLEAN]
        BY DEF SkipApproval, NoOptions
  <2>2. CASE ExecuteAndStart(r, w)
    <3>1. HandsOver(r, w, SkipApproval) /\ row[w].status = "absent"
          BY <2>2 DEF ExecuteAndStart, HandsOver, NewStatus
    <3> QED BY <1>0, <2>1, <3>1, EngineInvHandOver, CliHandOver
  <2>3. CASE ApproveRoute(r, w)
    <3>1. HandsOver(r, w, NoOptions) /\ row[w].status = "awaiting_approval"
          BY <2>3 DEF ApproveRoute, HandsOver
    <3> QED BY <1>0, <2>1, <3>1, EngineInvHandOver, CliHandOver
  <2> QED BY <1>2, <2>2, <2>3
<1>3. ASSUME NEW w \in Workflows,
             ExecuteAndWait(w) \/ ApproveUnstarted(w) \/ Reject(w) \/ Cancel(w)
      PROVE  EngineInv' /\ SingleRun' /\ NotHandedOver'
  <2>1. Create(w) \/ Approve(w) \/ Reject(w) \/ Cancel(w)
        BY <1>3 DEF ExecuteAndWait, ApproveUnstarted
  <2> QED BY <1>0, <2>1, EngineInvRequest, CliRequest DEF Request
<1>4. ASSUME Process PROVE EngineInv' /\ SingleRun' /\ NotHandedOver'
      BY <1>0, <1>4, EngineInvProcess, CliProcess
<1>5. ASSUME UNCHANGED vars PROVE EngineInv' /\ SingleRun' /\ NotHandedOver'
  <2>1. EngineInv' BY <1>0, <1>5, EngineInvStutter
  <2>2. UNCHANGED <<row, pc, of>> BY <1>5 DEF vars, db, runs
  <2> QED BY <1>0, <2>1, <2>2 DEF SingleRun, NotHandedOver, Live
<1>6. EngineInv' /\ SingleRun' /\ NotHandedOver'
      BY <1>1, <1>2, <1>3, <1>4, <1>5 DEF RoutesNext
<1>7. SnapshotIsOld'
  <2>1. UNCHANGED <<step, command, target, found, snapshot>> BY DEF cliVars
  <2>2. \A w \in Workflows : stepLog[w]["completed"] \subseteq stepLog'[w]["completed"]
        BY <1>0, LogOnlyGrows
  <2> QED BY <2>1, <2>2 DEF CliInv, SnapshotIsOld, WellFormed
<1> QED BY <1>6, <1>7 DEF CliInv

-----------------------------------------------------------------------------
(* The command's writes                                                    *)

\* The server's other state, which a command does not write.
ServerStays ==
    UNCHANGED <<stepLog, controllers, runs, thread, server, world>>

\* A row that becomes one that is well formed, on record, and neither running nor to be
\* started, disturbs nothing.
LEMMA RowMayBeWritten ==
    ASSUME EngineInv, SingleRun, NotHandedOver, NEW w \in Workflows, NEW m \in WorkflowState,
           WellFormed(m), m.completed \subseteq stepLog[w]["completed"],
           m.status \in {"pending", "cancelled", "failed"},
           row' = [row EXCEPT ![w] = m], ServerStays
    PROVE  EngineInv' /\ SingleRun' /\ NotHandedOver'
<1>0. TypeOK /\ Coherent /\ AllWellFormed /\ AllLogged /\ RunningHasRun BY DEF EngineInv
<1>1. UNCHANGED <<stepLog, controllers, pc, of, mem, pos, opts, attempt, result, undo, aborted,
                  thread, up, crashes, late, landed, undoCalls>>
      BY DEF ServerStays, runs, server, world
<1>2. row' \in [Workflows -> WorkflowState] /\ row'[w] = m
      /\ \A v \in Workflows \ {w} : row'[v] = row[v]
      BY <1>0 DEF TypeOK
<1>3. TypeOK' BY <1>0, <1>1, <1>2 DEF TypeOK
<1>4. Coherent' BY <1>0, <1>1 DEF Coherent, ThreadHeld, DownMeansDead, InPlace, Live
<1>5. StackMatchesCompleted'
  <2>1. \A v \in Workflows : WellFormed(row'[v])
        BY <1>0, <1>2 DEF AllWellFormed, StackMatchesCompleted
  <2> QED BY <2>1 DEF StackMatchesCompleted, WellFormed
<1>6. ObjectsWellFormed' BY <1>0, <1>1 DEF AllWellFormed, ObjectsWellFormed, WellFormed
<1>7. AllLogged'
      BY <1>0, <1>1, <1>2 DEF AllLogged, LoggedByRuns, LoggedBeforeCheckpointed, Live
<1>8. RunningHasRun' BY <1>0, <1>1, <1>2 DEF RunningHasRun, LiveOn, Live
<1>9. SingleRun' BY <1>1 DEF SingleRun, Live
<1>10. NotHandedOver' BY <1>1, <1>2, <1>0 DEF NotHandedOver, Live, Coherent, InPlace
<1> QED BY <1>3, <1>4, <1>5, <1>6, <1>7, <1>8, <1>9, <1>10 DEF EngineInv, AllWellFormed

LEMMA SameButStatus ==
    ASSUME NEW m \in WorkflowState, NEW status \in Status, WellFormed(m)
    PROVE  LET n == [m EXCEPT !.status = status] IN
           n \in WorkflowState /\ n.status = status /\ n.completed = m.completed /\ WellFormed(n)
BY DEF WorkflowState, WellFormed

LEMMA CommandKeeps ==
    ASSUME CliInv, CliNext
    PROVE  CliInv'
<1>0. /\ EngineInv /\ SingleRun /\ NotHandedOver /\ SnapshotIsOld /\ TypeOK
      /\ StackMatchesCompleted /\ LoggedBeforeCheckpointed
      BY DEF CliInv, EngineInv, AllWellFormed, AllLogged
<1>a. ASSUME UNCHANGED vars PROVE EngineInv' /\ SingleRun' /\ NotHandedOver'
  <2>1. EngineInv' BY <1>0, <1>a, EngineInvStutter
  <2>2. UNCHANGED <<row, pc, of>> BY <1>a DEF vars, db, runs
  <2> QED BY <1>0, <2>1, <2>2 DEF SingleRun, NotHandedOver, Live
<1>1. ASSUME NEW c \in Commands, NEW w \in Workflows, Issue(c, w) PROVE CliInv'
  <2>1. SnapshotIsOld' BY <1>0, <1>1 DEF Issue, SnapshotIsOld
  <2> QED BY <1>1, <1>a, <2>1 DEF Issue, CliInv
<1>2. ASSUME NEW w \in Workflows, MarkFailed(w) PROVE CliInv'
  <2>1. /\ row' = [row EXCEPT ![w] = [row[w] EXCEPT !.status = "failed"]] /\ ServerStays
        BY <1>2 DEF MarkFailed, Rewrite, ServerStays
  <2>2. row[w] \in WorkflowState /\ WellFormed(row[w])
        /\ row[w].completed \subseteq stepLog[w]["completed"]
        BY <1>0 DEF TypeOK, StackMatchesCompleted, LoggedBeforeCheckpointed
  <2>3. "failed" \in Status BY DEF Status
  <2>4. PICK m : m = [row[w] EXCEPT !.status = "failed"] OBVIOUS
  <2>5. m \in WorkflowState /\ m.status = "failed" /\ WellFormed(m) /\ m.completed = row[w].completed
        BY <2>2, <2>3, <2>4, SameButStatus
  <2>6. EngineInv' /\ SingleRun' /\ NotHandedOver'
        BY <1>0, <2>1, <2>2, <2>4, <2>5, RowMayBeWritten
  <2>7. SnapshotIsOld' BY <1>0, <1>2 DEF MarkFailed, SnapshotIsOld, WellFormed
  <2> QED BY <2>6, <2>7 DEF CliInv
<1>3. CASE ReadRow
  <2>1. target \in Workflows BY <1>0, <1>3 DEF ReadRow, SnapshotIsOld
  <2>2. /\ row[target] \in WorkflowState /\ WellFormed(row[target])
        /\ row[target].completed \subseteq stepLog[target]["completed"]
        BY <1>0, <2>1 DEF TypeOK, StackMatchesCompleted, LoggedBeforeCheckpointed
  <2>3. snapshot' = row[target] /\ UNCHANGED <<stepLog, command, target, found>>
        BY <1>3 DEF ReadRow, vars, db
  <2>4. step' \in {"idle", "write"} BY <1>3 DEF ReadRow
  <2>5. WellFormed(snapshot)' BY <2>2, <2>3 DEF WellFormed
  <2>6. SnapshotIsOld' BY <1>0, <2>1, <2>2, <2>3, <2>4, <2>5 DEF SnapshotIsOld
  <2> QED BY <1>3, <1>a, <2>6 DEF ReadRow, CliInv
<1>4. CASE WriteRow
  <2>1. PICK status \in {"pending", "cancelled"} :
            row' = [row EXCEPT ![target] = [snapshot EXCEPT !.status = status]]
        BY <1>4 DEF WriteRow
  <2>2. /\ target \in Workflows /\ snapshot \in WorkflowState /\ WellFormed(snapshot)
        /\ snapshot.completed \subseteq stepLog[target]["completed"]
        BY <1>0, <1>4 DEF WriteRow, SnapshotIsOld
  <2>3. status \in Status BY DEF Status
  <2>4. PICK m : m = [snapshot EXCEPT !.status = status] OBVIOUS
  <2>5. m \in WorkflowState /\ m.status = status /\ WellFormed(m) /\ m.completed = snapshot.completed
        BY <2>2, <2>3, <2>4, SameButStatus
  <2>6. PICK w : w = target OBVIOUS
  <2>7. ServerStays BY <1>4 DEF WriteRow, ServerStays
  <2>8. EngineInv' /\ SingleRun' /\ NotHandedOver'
        BY <1>0, <2>1, <2>2, <2>4, <2>5, <2>6, <2>7, RowMayBeWritten
  <2>9. SnapshotIsOld' BY <1>0, <1>4 DEF WriteRow, SnapshotIsOld, WellFormed
  <2> QED BY <2>8, <2>9 DEF CliInv
<1> QED BY <1>1, <1>2, <1>3, <1>4 DEF CliNext

-----------------------------------------------------------------------------
LEMMA CliInitially == Init /\ CliInit => CliInv
<1> SUFFICES ASSUME Init, CliInit PROVE CliInv OBVIOUS
<1>1. EngineInv BY EngineInit
<1>2. SingleRun /\ NotHandedOver BY DEF Init, SingleRun, NotHandedOver, Live, Busy, Waiting
<1>3. Absent \in WorkflowState BY DEF Absent, WorkflowState, Status
<1>4. SnapshotIsOld BY <1>3 DEF CliInit, SnapshotIsOld, Commands
<1> QED BY <1>1, <1>2, <1>4 DEF CliInv

LEMMA CliStep == CliInv /\ [Combined \/ CliNext]_allVars => CliInv'
<1>1. CliInv /\ Combined => CliInv' BY ServerKeeps DEF Combined
<1>2. CliInv /\ CliNext => CliInv' BY CommandKeeps
<1>3. CliInv /\ UNCHANGED allVars => CliInv' BY ServerKeeps DEF allVars
<1> QED BY <1>1, <1>2, <1>3

\* Beside a command of the command line, which marks and writes rows as it has read them, at
\* any moment: a workflow has one run, a row's stack is that of its completed steps and those
\* are on record, no step runs before its dependencies are on record, and no row of a running
\* server says `running' with nobody behind it (cli/index.ts next to routes.ts).
THEOREM CommandsStaySafe == CliSpec => []CommandsAreSafe
<1>1. CliInv => CommandsAreSafe
  <2> SUFFICES ASSUME CliInv PROVE CommandsAreSafe OBVIOUS
  <2>1. /\ SingleRun /\ StackMatchesCompleted /\ LoggedBeforeCheckpointed /\ RunningHasRun
        /\ Coherent /\ LoggedByRuns
        BY DEF CliInv, EngineInv, AllWellFormed, AllLogged
  <2>2. DependenciesRecorded
        BY <2>1 DEF DependenciesRecorded, Coherent, InPlace, LoggedByRuns, Live, Busy, Waiting
  <2> QED BY <2>1, <2>2 DEF CommandsAreSafe
<1> QED BY <1>1, CliInitially, CliStep, PTL DEF CliSpec
=============================================================================
