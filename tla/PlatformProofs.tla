--------------------------- MODULE PlatformProofs ---------------------------
(***************************************************************************)
(* Proofs about the components that stand beside the workflow engine: the  *)
(* approvals in the chat, the resilient executor, the automation service,  *)
(* the life of identities, the isolated memory, the runtime guard and the  *)
(* registry of adapters, for any number of those who use them, and about   *)
(* the run that puts them and the Temporal workflow engine side by side.   *)
(***************************************************************************)
EXTENDS MCPlatform, TemporalWorkflowProofs, FiniteSetTheorems, TLAPS

-----------------------------------------------------------------------------
(***************************************************************************)
(* Approvals in the chat. A workflow that has still to be made has no saved, *)
(* a workflow without a row no run; so nobody makes, or goes on with, a    *)
(* workflow that was rejected while nothing ran.  What the chat executes   *)
(* without an approval is a plan that needs none.                          *)
(***************************************************************************)

ExecutedWithoutApproval == \A p \in Plans : stage[p] = "telling" => p \notin NeedApproval

AnnouncedWithApproval ==
    \A c \in Presses : press[c].at = "announcing" => press[c].plan \in NeedApproval

\* What is still to be made is not there yet, and what the map has was made.
ToBeMade ==
    /\ \A p \in Plans : stage[p] \in {"new", "asking", "telling"} => saved[p] = "absent"
    /\ \A c \in Presses : press[c].at \in {"unused", "announcing"} => saved[c] = "absent"
    /\ \A p \in pending : stage[p] = "over"

RunsHaveRows == \A w \in Flows : saved[w] = "absent" => going[w] = "none"

ChannelInv ==
    /\ ChannelTypeOK
    /\ ExecutedWithoutApproval /\ AnnouncedWithApproval /\ ToBeMade /\ RunsHaveRows

-----------------------------------------------------------------------------
LEMMA ChannelInitially == ChannelInit => ChannelInv
BY ChannelAssumption
DEF ChannelInit, ChannelInv, ChannelTypeOK, ExecutedWithoutApproval, AnnouncedWithApproval,
    ToBeMade, RunsHaveRows, Flows, Stage, RowStatus, Phase, Place

\* One lemma per part of the module: processing an intent, ...
LEMMA IntentKeeps ==
    ASSUME ChannelInv, NEW p \in Plans,
           PlanGenerated(p) \/ StorePending(p) \/ MessageFails(p) \/ ExecuteDirectly(p)
    PROVE  ChannelInv'
<1> USE ChannelAssumption
    DEF ChannelInv, ChannelTypeOK, ExecutedWithoutApproval, AnnouncedWithApproval,
        ToBeMade, RunsHaveRows, Flows, Stage, RowStatus, Phase, Place, workflowVars
<1>1. CASE PlanGenerated(p) BY <1>1 DEF PlanGenerated
<1>2. CASE StorePending(p) BY <1>2 DEF StorePending, WriteRow, Created
<1>3. CASE MessageFails(p) BY <1>3 DEF MessageFails
<1>4. CASE ExecuteDirectly(p)
      BY <1>4 DEF ExecuteDirectly, ExecutePlan, Created, CanStart, Begins, WriteRow
<1> QED BY <1>1, <1>2, <1>3, <1>4

\* ... a press that looks its plan up, ...
LEMMA PressKeeps ==
    ASSUME ChannelInv, NEW c \in Presses, NEW p \in Plans,
           PressExpired(c, p) \/ PressApprove(c, p) \/ PressReject(c, p)
    PROVE  ChannelInv'
<1> USE ChannelAssumption
    DEF ChannelInv, ChannelTypeOK, ExecutedWithoutApproval, AnnouncedWithApproval,
        ToBeMade, RunsHaveRows, Flows, Stage, RowStatus, Phase, Place, workflowVars,
        Pressed, Handle
<1>1. CASE PressExpired(c, p) BY <1>1 DEF PressExpired
<1>2. CASE PressApprove(c, p) BY <1>2 DEF PressApprove, WriteRow
<1>3. CASE PressReject(c, p) BY <1>3 DEF PressReject, Rejects, WriteRow
<1> QED BY <1>1, <1>2, <1>3

\* ... and goes on, ...
LEMMA HandlerKeeps ==
    ASSUME ChannelInv, NEW c \in Presses,
           ExecuteApproved(c) \/ AnnouncementFails(c) \/ ClosePress(c)
    PROVE  ChannelInv'
<1> USE ChannelAssumption
    DEF ChannelInv, ChannelTypeOK, ExecutedWithoutApproval, AnnouncedWithApproval,
        ToBeMade, RunsHaveRows, Flows, Stage, RowStatus, Phase, Place, workflowVars, MoveTo
<1>1. CASE ExecuteApproved(c)
      BY <1>1 DEF ExecuteApproved, ExecutePlan, Created, CanStart, Begins, WriteRow
<1>2. CASE AnnouncementFails(c) BY <1>2 DEF AnnouncementFails
<1>3. CASE ClosePress(c) BY <1>3 DEF ClosePress
<1> QED BY <1>1, <1>2, <1>3

\* ... a run that goes on and ends, and the routes of the API, ...
LEMMA FlowKeeps ==
    ASSUME ChannelInv, NEW w \in Flows,
           \/ RunWrites(w) \/ RunFails(w) \/ RunEnds(w) \/ RunSuspends(w)
           \/ ApproveByApi(w) \/ RejectByApi(w)
    PROVE  ChannelInv'
<1> USE ChannelAssumption
    DEF ChannelInv, ChannelTypeOK, ExecutedWithoutApproval, AnnouncedWithApproval,
        ToBeMade, RunsHaveRows, Flows, Stage, RowStatus, Phase, Place, WriteRow
<1>1. CASE RunWrites(w) BY <1>1 DEF RunWrites
<1>2. CASE RunFails(w) BY <1>2 DEF RunFails
<1>3. CASE RunEnds(w) BY <1>3 DEF RunEnds, RunLeaves
<1>4. CASE RunSuspends(w) BY <1>4 DEF RunSuspends, RunLeaves
<1>5. CASE ApproveByApi(w) BY <1>5 DEF ApproveByApi, Begins
<1>6. CASE RejectByApi(w) BY <1>6 DEF RejectByApi, Rejects
<1> QED BY <1>1, <1>2, <1>3, <1>4, <1>5, <1>6

\* ... and a crash.
LEMMA CrashKeeps == ChannelInv /\ CrashAndRestart => ChannelInv'
BY ChannelAssumption
DEF ChannelInv, ChannelTypeOK, ExecutedWithoutApproval, AnnouncedWithApproval, ToBeMade,
    RunsHaveRows, Flows, Stage, RowStatus, Phase, Place, CrashAndRestart, RecoveredRows

LEMMA ChannelStep == ChannelInv /\ [ChannelNext]_channelVars => ChannelInv'
<1> SUFFICES ASSUME ChannelInv, [ChannelNext]_channelVars PROVE ChannelInv' OBVIOUS
<1>1. CASE ChannelNext
      BY <1>1, IntentKeeps, PressKeeps, HandlerKeeps, FlowKeeps, CrashKeeps DEF ChannelNext
<1>2. CASE UNCHANGED channelVars
      BY <1>2 DEF channelVars, workflowVars, ChannelInv, ChannelTypeOK, ExecutedWithoutApproval,
                  AnnouncedWithApproval, ToBeMade, RunsHaveRows
<1> QED BY <1>1, <1>2

LEMMA ChannelAlways == ChannelInit /\ [][ChannelNext]_channelVars => []ChannelInv
BY ChannelInitially, ChannelStep, PTL

-----------------------------------------------------------------------------
\* What a step may do to a workflow for which nothing runs.
KeepsRejected(w) == saved[w] = "cancelled" => saved'[w] = "cancelled" /\ going'[w] = "none"
BeginsApproved(w) ==
    going'[w] # "none" /\ PlanOf(w) \in NeedApproval => saved[w] = "awaiting_approval"

LEMMA RejectionHolds ==
    ASSUME ChannelInv, [ChannelNext]_channelVars, NEW w \in Flows, going[w] = "none"
    PROVE  KeepsRejected(w) /\ BeginsApproved(w)
<1> USE ChannelAssumption
    DEF ChannelInv, ChannelTypeOK, Flows, KeepsRejected, BeginsApproved, PlanOf, workflowVars
<1>1. CASE UNCHANGED channelVars BY <1>1 DEF channelVars
<1>2. CASE CrashAndRestart BY <1>2 DEF CrashAndRestart, RecoveredRows
<1>3. ASSUME NEW q \in Plans,
             PlanGenerated(q) \/ StorePending(q) \/ MessageFails(q) \/ ExecuteDirectly(q)
      PROVE  KeepsRejected(w) /\ BeginsApproved(w)
      BY <1>3
      DEF PlanGenerated, StorePending, MessageFails, ExecuteDirectly, ExecutePlan, Created,
          CanStart, Begins, WriteRow, ToBeMade, ExecutedWithoutApproval
<1>4. ASSUME NEW c \in Presses, ExecuteApproved(c) \/ AnnouncementFails(c) \/ ClosePress(c)
      PROVE  KeepsRejected(w) /\ BeginsApproved(w)
      BY <1>4
      DEF ExecuteApproved, AnnouncementFails, ClosePress, ExecutePlan, Created, CanStart,
          WriteRow, ToBeMade, AnnouncedWithApproval
<1>5. ASSUME NEW c \in Presses, NEW q \in Plans,
             PressExpired(c, q) \/ PressApprove(c, q) \/ PressReject(c, q)
      PROVE  KeepsRejected(w) /\ BeginsApproved(w)
      BY <1>5 DEF PressExpired, PressApprove, PressReject, Rejects, WriteRow
<1>6. ASSUME NEW v \in Flows, RunWrites(v) \/ RunFails(v) \/ RunEnds(v) \/ RunSuspends(v)
      PROVE  KeepsRejected(w) /\ BeginsApproved(w)
      BY <1>6 DEF RunWrites, RunFails, RunEnds, RunSuspends, RunLeaves, WriteRow
<1>7. ASSUME NEW v \in Flows, ApproveByApi(v) \/ RejectByApi(v)
      PROVE  KeepsRejected(w) /\ BeginsApproved(w)
      BY <1>7 DEF ApproveByApi, RejectByApi, Begins, Rejects, WriteRow
<1> QED BY <1>1, <1>2, <1>3, <1>4, <1>5, <1>6, <1>7 DEF ChannelNext

\* A workflow that was rejected while nothing ran for it never runs again, and of a plan that
\* needs approval nothing runs but what awaited one, whatever presses, the API, the runs of
\* other workflows and crashes do.
THEOREM RejectionIsFinal == ChannelSpec => NothingStartsAfterRejection
<1>1. ChannelInv /\ [ChannelNext]_channelVars =>
          [\A w \in Flows : going[w] = "none" =>
              /\ saved[w] = "cancelled" => saved'[w] = "cancelled" /\ going'[w] = "none"
              /\ going'[w] # "none" /\ PlanOf(w) \in NeedApproval => saved[w] = "awaiting_approval"
          ]_channelVars
      BY RejectionHolds DEF KeepsRejected, BeginsApproved
<1> QED BY <1>1, ChannelAlways, PTL DEF ChannelSpec, NothingStartsAfterRejection

-----------------------------------------------------------------------------
(***************************************************************************)
(* Idempotency and resilience. A call says that a step completed when its  *)
(* attempt landed, or when a record says so, and a record says so when a   *)
(* call does: as long as nothing has landed, nobody has said it.           *)
(***************************************************************************)

RecordStatus == {"none", "in_progress", "completed", "failed"}
StepRecords == [status : RecordStatus, left : Nat]
CallRecords ==
    [pc : {"new", "waiting", "mark", "attempt", "store", "storing", "write", "done"},
     holds : Executions \cup {"none"}, patience : Nat, attempt : 0 .. MaxAttempts,
     result : {"none", "completed", "failed"}]
Breakers == [state : {"closed", "open", "half_open"}, failures : Nat, wait : Nat]

ResilientShape ==
    /\ inMap \in Executions \cup {"none"}
    /\ record \in [Executions -> StepRecords]
    /\ call \in [Executions -> CallRecords]
    /\ breaker \in Breakers
    /\ landed \subseteq Executions

\* A call waits for a record that was there.
WaitsForARecord == \A c \in Executions : call[c].pc = "waiting" => call[c].holds \in Executions

\* Nobody is told, and no record says, that the step completed unless it took effect.
NothingInvented ==
    landed = {} => \A c \in Executions :
        record[c].status # "completed" /\ call[c].result # "completed"

ResilientInv == ResilientShape /\ WaitsForARecord /\ NothingInvented

LEMMA ResilientInitially == ResilientInit => ResilientInv
BY ResilientAssumption
DEF ResilientInit, ResilientInv, ResilientShape, WaitsForARecord, NothingInvented, NoRecord,
    RecordStatus, StepRecords, CallRecords, Breakers

\* A step that changes one call, to a value in order, and no record.
LEMMA OneCallKeeps ==
    ASSUME ResilientInv, NEW c \in Executions, NEW x \in CallRecords,
           call' = [call EXCEPT ![c] = x], record' = record,
           x.pc = "waiting" => x.holds \in Executions,
           landed' = {} => x.result # "completed",
           inMap' \in Executions \cup {"none"}, breaker' \in Breakers,
           landed \subseteq landed', landed' \subseteq Executions
    PROVE  ResilientInv'
<1>1. ResilientShape' BY DEF ResilientInv, ResilientShape
<1>2. \A d \in Executions : call'[d] = IF d = c THEN x ELSE call[d]
      BY DEF ResilientInv, ResilientShape
<1>3. WaitsForARecord' BY <1>2 DEF ResilientInv, WaitsForARecord
<1>4. NothingInvented' BY <1>2 DEF ResilientInv, NothingInvented
<1> QED BY <1>1, <1>3, <1>4 DEF ResilientInv

\* What a call may become: it moves on, is given a result, or begins another round.
CallPcs == {"mark", "attempt", "store", "storing", "write", "done"}

LEMMA CallGoes ==
    ASSUME ResilientInv, NEW c \in Executions, NEW pc \in CallPcs
    PROVE  \E x \in CallRecords : /\ [call EXCEPT ![c].pc = pc] = [call EXCEPT ![c] = x]
                                  /\ x.pc # "waiting" /\ x.result = call[c].result
<1>1. call[c] \in CallRecords /\ c \in DOMAIN call BY DEF ResilientInv, ResilientShape
<1> DEFINE x == [call[c] EXCEPT !.pc = pc]
<1>2. x \in CallRecords /\ x.pc # "waiting" /\ x.result = call[c].result
      BY <1>1 DEF CallRecords, CallPcs
<1>3. [call EXCEPT ![c].pc = pc] = [call EXCEPT ![c] = x] BY <1>1
<1> QED BY <1>2, <1>3

LEMMA CallReturns ==
    ASSUME ResilientInv, NEW c \in Executions, NEW pc \in CallPcs,
           NEW result \in {"completed", "failed"}
    PROVE  \E x \in CallRecords :
              /\ [call EXCEPT ![c].pc = pc, ![c].result = result] = [call EXCEPT ![c] = x]
              /\ x.pc # "waiting" /\ x.result = result
<1>1. call[c] \in CallRecords /\ c \in DOMAIN call BY DEF ResilientInv, ResilientShape
<1> DEFINE x == [call[c] EXCEPT !.pc = pc, !.result = result]
<1>2. x \in CallRecords /\ x.pc # "waiting" /\ x.result = result
      BY <1>1 DEF CallRecords, CallPcs
<1>3. [call EXCEPT ![c].pc = pc, ![c].result = result] = [call EXCEPT ![c] = x] BY <1>1
<1> QED BY <1>2, <1>3

LEMMA CallRetries ==
    ASSUME ResilientInv, NEW c \in Executions, call[c].attempt < MaxAttempts
    PROVE  \E x \in CallRecords :
              /\ [call EXCEPT ![c].attempt = @ + 1] = [call EXCEPT ![c] = x]
              /\ x.pc = call[c].pc /\ x.result = call[c].result
<1>1. call[c] \in CallRecords /\ c \in DOMAIN call BY DEF ResilientInv, ResilientShape
<1> DEFINE x == [call[c] EXCEPT !.attempt = @ + 1]
<1>2. call[c].attempt + 1 \in 0 .. MaxAttempts
      BY <1>1, ResilientAssumption DEF CallRecords
<1>3. x \in CallRecords /\ x.pc = call[c].pc /\ x.result = call[c].result
      BY <1>1, <1>2 DEF CallRecords
<1>4. [call EXCEPT ![c].attempt = @ + 1] = [call EXCEPT ![c] = x] BY <1>1
<1> QED BY <1>3, <1>4

LEMMA CheckKeeps ==
    ASSUME ResilientInv, NEW c \in Executions,
           NEW before, NEW waiting \in {"waiting", "storing"}, NEW miss \in {"mark", "write"},
           Check(c, before, waiting, miss)
    PROVE  ResilientInv'
<1>1. call[c] \in CallRecords /\ c \in DOMAIN call /\ breaker \in Breakers /\ landed \subseteq Executions
      /\ inMap \in Executions \cup {"none"}
      BY DEF ResilientInv, ResilientShape
<1>2. landed = {} => call[c].result # "completed" BY DEF ResilientInv, NothingInvented
<1>3. record' = record /\ breaker' = breaker /\ landed' = landed BY DEF Check
<1>4. CASE inMap' = "none" /\ Go(c, miss)
  <2>0. miss \in CallPcs BY DEF CallPcs
  <2>1. PICK x \in CallRecords : /\ [call EXCEPT ![c].pc = miss] = [call EXCEPT ![c] = x]
                                 /\ x.pc # "waiting" /\ x.result = call[c].result
        BY <2>0, CallGoes
  <2> QED BY <1>1, <1>2, <1>3, <1>4, <2>1, OneCallKeeps DEF Go
<1>5. CASE MapStatus = "in_progress" /\ UNCHANGED inMap
           /\ call' = [call EXCEPT ![c].pc = waiting, ![c].holds = inMap,
                                   ![c].patience = LockTimeout]
  <2> DEFINE x == [call[c] EXCEPT !.pc = waiting, !.holds = inMap, !.patience = LockTimeout]
  <2>1. inMap \in Executions BY <1>1, <1>5 DEF MapStatus
  <2>2. x \in CallRecords /\ x.pc = waiting /\ x.holds = inMap /\ x.result = call[c].result
        BY <1>1, ResilientAssumption DEF CallRecords
  <2>3. call' = [call EXCEPT ![c] = x] BY <1>1, <1>5
  <2> HIDE DEF x
  <2> QED BY <1>1, <1>2, <1>3, <1>5, <2>1, <2>2, <2>3, OneCallKeeps
<1> QED BY <1>4, <1>5 DEF Check

\* A call that is handed a result, of a record that says completed only if the step took effect.
LEMMA ReturnKeeps ==
    ASSUME ResilientInv, NEW c \in Executions, NEW r \in Executions,
           Return(c, CachedResult(r)), UNCHANGED <<inMap, record, breaker, landed>>
    PROVE  ResilientInv'
<1>1. CachedResult(r) \in {"completed", "failed"} BY DEF CachedResult
<1>2. PICK x \in CallRecords :
          /\ [call EXCEPT ![c].pc = "done", ![c].result = CachedResult(r)] = [call EXCEPT ![c] = x]
          /\ x.pc # "waiting" /\ x.result = CachedResult(r)
      BY <1>1, CallReturns DEF CallPcs
<1>3. landed = {} => CachedResult(r) # "completed"
      BY DEF CachedResult, ResilientInv, NothingInvented
<1> QED BY <1>2, <1>3, OneCallKeeps DEF Return, ResilientInv, ResilientShape

\* A call that only moves on.
LEMMA GoKeeps ==
    ASSUME ResilientInv, NEW c \in Executions, NEW pc \in {"mark", "write"}, Go(c, pc),
           UNCHANGED <<inMap, record, breaker, landed>>
    PROVE  ResilientInv'
<1>0. pc \in CallPcs BY DEF CallPcs
<1>1. PICK x \in CallRecords : /\ [call EXCEPT ![c].pc = pc] = [call EXCEPT ![c] = x]
                               /\ x.pc # "waiting" /\ x.result = call[c].result
      BY <1>0, CallGoes
<1> QED BY <1>1, OneCallKeeps DEF Go, ResilientInv, ResilientShape, NothingInvented

LEMMA WaitKeeps ==
    ASSUME ResilientInv, NEW c \in Executions,
           \/ CheckHits(c) \/ CheckHitsOwn(c)
           \/ WaitSucceeds(c) \/ WaitTimesOut(c) \/ OwnWaitEnds(c)
    PROVE  ResilientInv'
<1>1. CASE CheckHits(c)
  <2>1. inMap \in Executions BY <1>1 DEF CheckHits, MapStatus, ResilientInv, ResilientShape
  <2> QED BY <1>1, <2>1, ReturnKeeps DEF CheckHits
<1>2. CASE WaitSucceeds(c)
  <2>1. call[c].holds \in Executions
        BY <1>2 DEF WaitSucceeds, ResilientInv, WaitsForARecord, Is
  <2> QED BY <1>2, <2>1, ReturnKeeps DEF WaitSucceeds
<1>3. CASE CheckHitsOwn(c) BY <1>3, GoKeeps DEF CheckHitsOwn
<1>4. CASE WaitTimesOut(c) BY <1>4, GoKeeps DEF WaitTimesOut
<1>5. CASE OwnWaitEnds(c) BY <1>5, GoKeeps DEF OwnWaitEnds
<1> QED BY <1>1, <1>2, <1>3, <1>4, <1>5

LEMMA BreakerTyped ==
    ASSUME NEW b \in Breakers
    PROVE  /\ Succeeded(b) \in Breakers
           /\ Failed(b) \in Breakers
<1>1. b.failures + 1 \in Nat /\ ResetTimeout \in Nat /\ b.failures \in Nat /\ b.wait \in Nat
      BY ResilientAssumption DEF Breakers
<1>2. Succeeded(b) \in Breakers BY <1>1 DEF Breakers, Succeeded
<1>3. CASE b.state = "half_open" \/ b.failures + 1 >= FailureThreshold
  <2>1. Failed(b) = [state |-> "open", failures |-> b.failures + 1, wait |-> ResetTimeout]
    <3>1. b = [state |-> b.state, failures |-> b.failures, wait |-> b.wait] BY DEF Breakers
    <3>2. Failed(b) = [b EXCEPT !.failures = b.failures + 1, !.state = "open",
                                !.wait = ResetTimeout]
          BY <1>3, Zenon DEF Failed
    <3> QED BY <3>1, <3>2
  <2> QED BY <1>1, <1>2, <2>1 DEF Breakers
<1>4. CASE ~(b.state = "half_open" \/ b.failures + 1 >= FailureThreshold)
  <2>1. Failed(b) = [state |-> b.state, failures |-> b.failures + 1, wait |-> b.wait]
    <3>1. b = [state |-> b.state, failures |-> b.failures, wait |-> b.wait] BY DEF Breakers
    <3>2. Failed(b) = [b EXCEPT !.failures = b.failures + 1, !.state = b.state, !.wait = b.wait]
          BY <1>4, Zenon DEF Failed
    <3> QED BY <3>1, <3>2
  <2> QED BY <1>1, <1>2, <2>1 DEF Breakers
<1> QED BY <1>2, <1>3, <1>4

\* A round that does not succeed: another follows, or the call is left with a failure.
LEMMA RoundFails ==
    ASSUME ResilientInv, NEW c \in Executions, record' = record, inMap' = inMap,
           Is(c, "attempt"), landed' \in {landed, landed \cup {c}},
           \/ /\ call[c].attempt < MaxAttempts
              /\ call' = [call EXCEPT ![c].attempt = @ + 1] /\ breaker' = breaker
           \/ /\ breaker' = Failed(breaker)
              /\ call' = [call EXCEPT ![c].pc = "store", ![c].result = "failed"]
    PROVE  ResilientInv'
<1>1. breaker \in Breakers /\ inMap \in Executions \cup {"none"} /\ landed \subseteq Executions
      BY DEF ResilientInv, ResilientShape
<1>2. landed \subseteq landed' /\ landed' \subseteq Executions BY <1>1
<1>3. CASE call[c].attempt < MaxAttempts
           /\ call' = [call EXCEPT ![c].attempt = @ + 1] /\ breaker' = breaker
  <2>1. PICK x \in CallRecords : /\ [call EXCEPT ![c].attempt = @ + 1] = [call EXCEPT ![c] = x]
                                 /\ x.pc = call[c].pc /\ x.result = call[c].result
        BY <1>3, CallRetries
  <2>2. x.pc # "waiting" BY <2>1 DEF Is
  <2>3. landed' = {} => x.result # "completed"
        BY <1>2, <2>1 DEF ResilientInv, NothingInvented
  <2> QED BY <1>1, <1>2, <1>3, <2>1, <2>2, <2>3, OneCallKeeps
<1>4. CASE breaker' = Failed(breaker)
           /\ call' = [call EXCEPT ![c].pc = "store", ![c].result = "failed"]
  <2>1. PICK x \in CallRecords :
            /\ [call EXCEPT ![c].pc = "store", ![c].result = "failed"] = [call EXCEPT ![c] = x]
            /\ x.pc # "waiting" /\ x.result = "failed"
        BY CallReturns DEF CallPcs
  <2> QED BY <1>1, <1>2, <1>4, <2>1, BreakerTyped, OneCallKeeps
<1> QED BY <1>3, <1>4

LEMMA AttemptKeeps ==
    ASSUME ResilientInv, NEW c \in Executions,
           \/ AttemptSucceeds(c) \/ RateLimited(c)
           \/ \E retryable \in BOOLEAN : AttemptFails(c, retryable)
    PROVE  ResilientInv'
<1>1. CASE AttemptSucceeds(c)
  <2>1. PICK x \in CallRecords :
            /\ [call EXCEPT ![c].pc = "store", ![c].result = "completed"] = [call EXCEPT ![c] = x]
            /\ x.pc # "waiting" /\ x.result = "completed"
        BY CallReturns DEF CallPcs
  <2>2. breaker \in Breakers /\ inMap \in Executions \cup {"none"} /\ landed \subseteq Executions
        BY DEF ResilientInv, ResilientShape
  <2>3. landed' = landed \cup {c} /\ breaker' = Succeeded(breaker)
        /\ call' = [call EXCEPT ![c] = x] /\ record' = record /\ inMap' = inMap
        BY <1>1, <2>1 DEF AttemptSucceeds
  <2> QED BY <2>1, <2>2, <2>3, BreakerTyped, OneCallKeeps
<1>2. CASE RateLimited(c) BY <1>2, RoundFails DEF RateLimited
<1>3. ASSUME NEW retryable \in BOOLEAN, AttemptFails(c, retryable) PROVE ResilientInv'
      BY <1>3, RoundFails DEF AttemptFails
<1> QED BY <1>1, <1>2, <1>3

\* A step that leaves the calls' results alone, and no record says more than the landed steps.
LEMMA RecordsKeep ==
    ASSUME ResilientInv, ResilientShape',
           \A d \in Executions : \/ call'[d].pc = call[d].pc /\ call'[d].holds = call[d].holds
                                 \/ call'[d].pc # "waiting",
           \A d \in Executions : call'[d].result \in {call[d].result, "failed"},
           landed' = landed,
           landed = {} => \A d \in Executions : record'[d].status # "completed"
    PROVE  ResilientInv'
<1>1. WaitsForARecord' BY DEF ResilientInv, WaitsForARecord
<1>2. NothingInvented' BY DEF ResilientInv, NothingInvented
<1> QED BY <1>1, <1>2 DEF ResilientInv

LEMMA MarkKeeps ==
    ASSUME ResilientInv, NEW c \in Executions, MarkInProgress(c)
    PROVE  ResilientInv'
<1> DEFINE placed == [status |-> "in_progress", left |-> RecordTtl]
<1>1. /\ call[c] \in CallRecords /\ c \in DOMAIN call /\ breaker \in Breakers
      /\ landed \subseteq Executions /\ record \in [Executions -> StepRecords]
      /\ call \in [Executions -> CallRecords]
      BY DEF ResilientInv, ResilientShape
<1>2. placed \in StepRecords BY ResilientAssumption DEF StepRecords, RecordStatus
<1>3. record' = [record EXCEPT ![c] = placed] /\ inMap' = c /\ landed' = landed
      BY DEF MarkInProgress
<1>4. record' \in [Executions -> StepRecords] BY <1>1, <1>2, <1>3
<1>5. landed = {} => \A d \in Executions : record'[d].status # "completed"
      BY <1>1, <1>3 DEF ResilientInv, NothingInvented
<1>6. breaker' \in Breakers
  <2>1. \/ breaker' = breaker
        \/ breaker' = [breaker EXCEPT !.state = "half_open", !.failures = 0]
    <3>1. CASE Allowed BY <3>1, Zenon DEF MarkInProgress
    <3>2. CASE ~Allowed BY <3>2, Zenon DEF MarkInProgress
    <3> QED BY <3>1, <3>2
  <2>2. [breaker EXCEPT !.state = "half_open", !.failures = 0] \in Breakers
        BY <1>1 DEF Breakers
  <2> QED BY <1>1, <2>1, <2>2
<1>7. PICK x \in CallRecords : /\ x.pc # "waiting" /\ x.result \in {call[c].result, "failed"}
                               /\ call' = [call EXCEPT ![c] = x]
  <2>1. CASE Allowed
    <3> DEFINE x == [call[c] EXCEPT !.pc = "attempt", !.attempt = 1]
    <3>1. 1 \in 0 .. MaxAttempts BY ResilientAssumption
    <3>2. x \in CallRecords /\ x.pc = "attempt" /\ x.result = call[c].result
          BY <1>1, <3>1 DEF CallRecords
    <3>3. call' = [call EXCEPT ![c] = x] BY <1>1, <2>1 DEF MarkInProgress
    <3> QED BY <3>2, <3>3
  <2>2. CASE ~Allowed
    <3>1. call' = [call EXCEPT ![c].pc = "done", ![c].result = "failed"]
          BY <2>2 DEF MarkInProgress, Return
    <3>2. PICK x \in CallRecords :
              /\ [call EXCEPT ![c].pc = "done", ![c].result = "failed"] = [call EXCEPT ![c] = x]
              /\ x.pc # "waiting" /\ x.result = "failed"
          BY CallReturns DEF CallPcs
    <3> QED BY <3>1, <3>2
  <2> QED BY <2>1, <2>2
<1>8. ResilientShape' BY <1>1, <1>3, <1>4, <1>6, <1>7 DEF ResilientShape
<1>9. \A d \in Executions : call'[d] = IF d = c THEN x ELSE call[d] BY <1>1, <1>7
<1> HIDE DEF placed
<1> QED BY <1>3, <1>5, <1>7, <1>8, <1>9, RecordsKeep

LEMMA StoreKeeps ==
    ASSUME ResilientInv, NEW c \in Executions, Store(c)
    PROVE  ResilientInv'
<1>1. /\ call[c] \in CallRecords /\ c \in DOMAIN call /\ breaker \in Breakers
      /\ landed \subseteq Executions /\ record \in [Executions -> StepRecords]
      /\ call \in [Executions -> CallRecords] /\ inMap \in Executions \cup {"none"}
      BY DEF ResilientInv, ResilientShape
<1>2. PICK x \in CallRecords : /\ [call EXCEPT ![c].pc = "done"] = [call EXCEPT ![c] = x]
                               /\ x.pc # "waiting" /\ x.result = call[c].result
      BY CallGoes DEF CallPcs
<1>3. \A d \in Executions : call'[d] = IF d = c THEN x ELSE call[d]
      BY <1>1, <1>2 DEF Store, Go
<1>4. /\ record' \in [Executions -> StepRecords]
      /\ landed = {} => \A d \in Executions : record'[d].status # "completed"
  <2>1. CASE inMap = "none" BY <1>1, <2>1 DEF Store, ResilientInv, NothingInvented
  <2>2. CASE inMap # "none"
    <3> DEFINE r == [record[inMap] EXCEPT !.status = call[c].result]
    <3>1. inMap \in Executions /\ record[inMap] \in StepRecords BY <1>1, <2>2
    <3>2. r \in StepRecords /\ r.status = call[c].result
          BY <1>1, <3>1 DEF StepRecords, CallRecords, RecordStatus
    <3>3. record' = [record EXCEPT ![inMap] = r] BY <1>1, <2>2 DEF Store
    <3> HIDE DEF r
    <3> QED BY <1>1, <3>1, <3>2, <3>3 DEF ResilientInv, NothingInvented
  <2> QED BY <2>1, <2>2
<1>5. ResilientShape' BY <1>1, <1>2, <1>4 DEF Store, Go, ResilientShape
<1> QED BY <1>2, <1>3, <1>4, <1>5, RecordsKeep DEF Store

LEMMA TimeKeeps ==
    ASSUME ResilientInv, Cleanup \/ ExecTick
    PROVE  ResilientInv'
<1>1. /\ breaker \in Breakers /\ landed \subseteq Executions
      /\ record \in [Executions -> StepRecords] /\ call \in [Executions -> CallRecords]
      /\ inMap \in Executions \cup {"none"}
      BY DEF ResilientInv, ResilientShape
<1>2. CASE Cleanup
  <2>1. ResilientShape' BY <1>1, <1>2 DEF ResilientShape, Cleanup
  <2> QED BY <1>2, <2>1, RecordsKeep DEF Cleanup, ResilientInv, NothingInvented
<1>3. CASE ExecTick
  <2>1. \A n \in Nat : Down(n) \in Nat BY DEF Down
  <2>2. ASSUME NEW d \in Executions
        PROVE  /\ record'[d] \in StepRecords /\ record'[d].status = record[d].status
               /\ call'[d] \in CallRecords /\ call'[d].pc = call[d].pc
               /\ call'[d].holds = call[d].holds /\ call'[d].result = call[d].result
    <3>1. record[d] \in StepRecords /\ call[d] \in CallRecords BY <1>1
    <3>2. /\ record'[d] = [record[d] EXCEPT !.left = Down(@)]
          /\ call'[d] = [call[d] EXCEPT !.patience = Down(@)]
          BY <1>3 DEF ExecTick
    <3>3. Down(record[d].left) \in Nat /\ Down(call[d].patience) \in Nat
          BY <2>1, <3>1 DEF StepRecords, CallRecords
    <3>4. record'[d] \in StepRecords /\ record'[d].status = record[d].status
          BY <3>1, <3>2, <3>3 DEF StepRecords
    <3>5. /\ call'[d] \in CallRecords /\ call'[d].pc = call[d].pc
          /\ call'[d].holds = call[d].holds /\ call'[d].result = call[d].result
          BY <3>1, <3>2, <3>3 DEF CallRecords
    <3> QED BY <3>4, <3>5
  <2>3. record' \in [Executions -> StepRecords]
    <3>1. record' = [d \in Executions |-> record'[d]] BY <1>3 DEF ExecTick
    <3> QED BY <2>2, <3>1
  <2>4. call' \in [Executions -> CallRecords]
    <3>1. call' = [d \in Executions |-> call'[d]] BY <1>3 DEF ExecTick
    <3> QED BY <2>2, <3>1
  <2>5. breaker' \in Breakers
    <3>1. Down(breaker.wait) \in Nat BY <1>1, <2>1 DEF Breakers
    <3> QED BY <1>1, <1>3, <3>1 DEF ExecTick, Breakers
  <2>6. ResilientShape' BY <1>1, <1>3, <2>3, <2>4, <2>5 DEF ResilientShape, ExecTick
  <2>7. landed' = landed BY <1>3 DEF ExecTick
  <2>8. landed = {} => \A d \in Executions : record'[d].status # "completed"
        BY <2>2 DEF ResilientInv, NothingInvented
  <2> QED BY <2>2, <2>6, <2>7, <2>8, RecordsKeep
<1> QED BY <1>2, <1>3

LEMMA ResilientStep == ResilientInv /\ [ResilientNext]_resilientVars => ResilientInv'
<1> SUFFICES ASSUME ResilientInv, [ResilientNext]_resilientVars PROVE ResilientInv' OBVIOUS
<1>1. CASE UNCHANGED resilientVars
      BY <1>1 DEF resilientVars, ResilientInv, ResilientShape, WaitsForARecord, NothingInvented
<1>2. ASSUME NEW c \in Executions, Execute(c) PROVE ResilientInv'
  <2>1. CASE Check(c, "new", "waiting", "mark") BY <2>1, CheckKeeps
  <2>2. CASE Check(c, "store", "storing", "write") BY <2>2, CheckKeeps
  <2> QED BY <1>2, <2>1, <2>2, WaitKeeps, AttemptKeeps, MarkKeeps, StoreKeeps DEF Execute
<1> QED BY <1>1, <1>2, TimeKeeps DEF ResilientNext

LEMMA ResilientAlways == ResilientInit /\ [][ResilientNext]_resilientVars => []ResilientInv
BY ResilientInitially, ResilientStep, PTL

\* A caller that is told that its step completed can rely on it: the step's effect landed,
\* whoever retried, timed out or read an older record meanwhile.
THEOREM CompletedMeansLanded == ResilientSpec => []CompletedIsReal
<1>1. ResilientInv => CompletedIsReal BY DEF ResilientInv, NothingInvented, CompletedIsReal
<1> QED BY <1>1, ResilientAlways, PTL DEF ResilientSpec

LEMMA ResilientTypes == ResilientInv => ResilientTypeOK
BY DEF ResilientInv, ResilientShape, ResilientTypeOK, RecordStatus, StepRecords, CallRecords, Breakers

-----------------------------------------------------------------------------
(***************************************************************************)
(* The automation service. A key belongs to the task whose row has it or   *)
(* whose open transaction will write it; an insert locks its key, so none  *)
(* is in two tasks, committed or not.                                      *)
(***************************************************************************)

TaskRows == [status : Statuses, key : Keys \cup {"none"}, review : BOOLEAN,
             approved : BOOLEAN, due : BOOLEAN, attempts : Nat]
TaskRequests == [pc : {"new", "checked", "written", "done"},
                 op : {"none", "queue", "approve", "reject", "trigger"},
                 row : Tasks \cup {"none"}, saw : Statuses, key : Keys \cup {"none"}]

AutomationShape ==
    /\ rows \in [Tasks -> TaskRows] /\ draft \in [Tasks -> TaskRows]
    /\ lock \in [Tasks -> Callers \cup Workers \cup {"free"}]
    /\ request \in [Callers -> TaskRequests]
    /\ batch \in [Workers -> SUBSET Tasks]
    /\ live \in BOOLEAN /\ aborts \in 0 .. MaxAborts /\ unreviewed \subseteq Tasks

\* A request that looked a task up writes to a task, by its operation.
KnowsItsTask == \A q \in Callers :
    request[q].pc = "checked" /\ request[q].op # "queue" =>
        request[q].row \in Tasks /\ request[q].op \in {"approve", "reject", "trigger"}

\* The keys that a task has in the table, or will have when its transaction commits.
Pending(t) == IF lock[t] = "free" THEN {} ELSE {draft[t].key}
KeysOf(t) == {rows[t].key} \cup Pending(t)

\* No key is of two tasks, be they committed or not.
KeysApart ==
    \A t, u \in Tasks : t # u => \A k \in KeysOf(t) \cap KeysOf(u) : k = "none"

AutomationInv == AutomationShape /\ KnowsItsTask /\ KeysApart

LEMMA AutomationInitially == AutomationInit => AutomationInv
<1> SUFFICES ASSUME AutomationInit PROVE AutomationInv OBVIOUS
<1>1. NoRow \in TaskRows BY DEF NoRow, TaskRows, Statuses
<1>2. NewRequest \in TaskRequests BY DEF NewRequest, TaskRequests, Statuses
<1>3. AutomationShape BY <1>1, <1>2, AutomationAssumption DEF AutomationInit, AutomationShape
<1>4. KnowsItsTask BY DEF AutomationInit, KnowsItsTask, NewRequest
<1>5. KeysApart BY DEF AutomationInit, KeysApart, KeysOf, Pending, NoRow
<1> QED BY <1>3, <1>4, <1>5 DEF AutomationInv

\* Keys stay apart in a step that gives no task a key it did not have.
LEMMA NoNewKey ==
    ASSUME KeysApart, \A t \in Tasks : KeysOf(t)' \subseteq KeysOf(t)
    PROVE  KeysApart'
BY DEF KeysApart

\* A commit makes a task's own draft its row; a rollback forgets it.
LEMMA EndKeeps ==
    ASSUME AutomationInv, NEW x \in Callers \cup Workers, Commit(x) \/ Rollback(x),
           draft' = draft
    PROVE  /\ rows' \in [Tasks -> TaskRows]
           /\ lock' \in [Tasks -> Callers \cup Workers \cup {"free"}]
           /\ KeysApart'
<1>1. /\ rows \in [Tasks -> TaskRows] /\ draft \in [Tasks -> TaskRows] /\ x # "free"
      /\ lock \in [Tasks -> Callers \cup Workers \cup {"free"}]
      BY AutomationAssumption DEF AutomationInv, AutomationShape
<1>2. CASE Commit(x)
  <2>1. /\ rows' \in [Tasks -> TaskRows]
        /\ lock' \in [Tasks -> Callers \cup Workers \cup {"free"}]
        BY <1>1, <1>2 DEF Commit
  <2>2. ASSUME NEW t \in Tasks PROVE KeysOf(t)' \subseteq KeysOf(t)
    <3>1. CASE lock[t] = x BY <1>1, <1>2, <3>1 DEF Commit, KeysOf, Pending
    <3>2. CASE lock[t] # x BY <1>1, <1>2, <3>2 DEF Commit, KeysOf, Pending
    <3> QED BY <3>1, <3>2
  <2> QED BY <2>1, <2>2, NoNewKey DEF AutomationInv
<1>3. CASE Rollback(x)
  <2>1. /\ rows' \in [Tasks -> TaskRows]
        /\ lock' \in [Tasks -> Callers \cup Workers \cup {"free"}]
        BY <1>1, <1>3 DEF Rollback
  <2>2. ASSUME NEW t \in Tasks PROVE KeysOf(t)' \subseteq KeysOf(t)
        BY <1>1, <1>3 DEF Rollback, KeysOf, Pending
  <2> QED BY <2>1, <2>2, NoNewKey DEF AutomationInv
<1> QED BY <1>2, <1>3

\* What a request has found out, when it has only gone on.
LEMMA RequestMoves ==
    ASSUME AutomationInv, NEW q \in Callers, NEW pc \in {"written", "done"},
           request' = [request EXCEPT ![q].pc = pc]
    PROVE  request' \in [Callers -> TaskRequests] /\ KnowsItsTask'
<1>1. request \in [Callers -> TaskRequests] BY DEF AutomationInv, AutomationShape
<1> DEFINE x == [request[q] EXCEPT !.pc = pc]
<1>2. x \in TaskRequests /\ x.pc = pc BY <1>1 DEF TaskRequests
<1>3. request' = [request EXCEPT ![q] = x] BY <1>1
<1> HIDE DEF x
<1> QED BY <1>1, <1>2, <1>3 DEF KnowsItsTask, AutomationInv

LEMMA KeysStay ==
    ASSUME AutomationInv, UNCHANGED <<rows, draft, lock>>
    PROVE  KeysApart'
BY DEF AutomationInv, KeysApart, KeysOf, Pending

\* One lemma per step of a request: it looks up a key, ...
LEMMA QueueKeeps ==
    ASSUME AutomationInv, NEW q \in Callers, NEW k \in Keys, QueueTask(q, k)
    PROVE  AutomationInv'
<1>1. request \in [Callers -> TaskRequests] BY DEF AutomationInv, AutomationShape
<1>2. PICK x \in TaskRequests : /\ x.pc = "checked" => x.op = "queue"
                                /\ request' = [request EXCEPT ![q] = x]
  <2>1. CASE (\E t \in Tasks : rows[t].key = k) \/ ~live
    <3> DEFINE x == [request[q] EXCEPT !.pc = "done"]
    <3>1. x \in TaskRequests /\ x.pc = "done" BY <1>1 DEF TaskRequests
    <3>2. request' = [request EXCEPT ![q] = x] BY <1>1, <2>1 DEF QueueTask
    <3> QED BY <3>1, <3>2
  <2>2. CASE ~((\E t \in Tasks : rows[t].key = k) \/ ~live)
    <3> DEFINE x == [request[q] EXCEPT !.pc = "checked", !.op = "queue", !.key = k]
    <3>1. x \in TaskRequests /\ x.op = "queue" BY <1>1 DEF TaskRequests
    <3>2. request' = [request EXCEPT ![q] = x] BY <1>1, <2>2 DEF QueueTask
    <3> QED BY <3>1, <3>2
  <2> QED BY <2>1, <2>2
<1>3. AutomationShape' BY <1>1, <1>2 DEF QueueTask, AutomationInv, AutomationShape
<1>4. KnowsItsTask' BY <1>1, <1>2 DEF AutomationInv, KnowsItsTask
<1>5. KeysApart' BY KeysStay DEF QueueTask
<1> QED BY <1>3, <1>4, <1>5 DEF AutomationInv

\* ... inserts the task if the key is still nobody's, ...
LEMMA InsertKeeps ==
    ASSUME AutomationInv, NEW q \in Callers, NEW t \in Tasks, NEW reviewed \in BOOLEAN,
           InsertTask(q, t, reviewed)
    PROVE  AutomationInv'
<1> DEFINE k == request[q].key
<1>1. /\ rows \in [Tasks -> TaskRows] /\ draft \in [Tasks -> TaskRows]
      /\ lock \in [Tasks -> Callers \cup Workers \cup {"free"}]
      /\ request[q] \in TaskRequests
      BY DEF AutomationInv, AutomationShape
<1>2. k \in Keys \cup {"none"} BY <1>1 DEF TaskRequests
<1>3. UNCHANGED <<rows, batch, live, aborts, unreviewed>> BY DEF InsertTask
<1>4. CASE KeyTaken(k)
  <2>1. request' = [request EXCEPT ![q].pc = "done"] /\ UNCHANGED <<draft, lock>>
        BY <1>4 DEF InsertTask
  <2> QED BY <1>3, <2>1, RequestMoves, KeysStay DEF AutomationInv, AutomationShape
<1>5. CASE ~KeyTaken(k)
  <2> DEFINE row == [NoRow EXCEPT !.status = IF reviewed THEN "waiting_review" ELSE "queued",
                                  !.key = k, !.review = reviewed, !.due = TRUE]
  <2>1. /\ draft' = [draft EXCEPT ![t] = row] /\ lock' = [lock EXCEPT ![t] = q]
        /\ request' = [request EXCEPT ![q].pc = "written"]
        BY <1>5 DEF InsertTask
  <2>2. row \in TaskRows /\ row.key = k BY <1>2 DEF NoRow, TaskRows, Statuses
  <2> HIDE DEF row, k
  <2>3. AutomationShape'
        BY <1>1, <1>3, <2>1, <2>2, RequestMoves DEF AutomationInv, AutomationShape
  <2>4. \A u \in Tasks : k \notin KeysOf(u)
        BY <1>5 DEF InsertTask, KeyTaken, KeyPending, KeysOf, Pending, k
  <2>5. rows[t].key = "none" BY DEF InsertTask, NoRow
  <2>6. KeysOf(t)' \subseteq {"none", k} BY <1>1, <1>3, <2>1, <2>2, <2>5 DEF KeysOf, Pending
  <2>7. \A u \in Tasks : u # t => KeysOf(u)' = KeysOf(u)
        BY <1>1, <1>3, <2>1 DEF KeysOf, Pending
  <2>8. KeysApart' BY <2>4, <2>6, <2>7 DEF AutomationInv, KeysApart
  <2> QED BY <2>1, <2>3, <2>8, RequestMoves DEF AutomationInv
<1> QED BY <1>4, <1>5

\* ... or looks up a task ...
LEMMA ReadTaskKeeps ==
    ASSUME AutomationInv, NEW q \in Callers, NEW op \in {"approve", "reject", "trigger"},
           NEW t \in Tasks, ReadTask(q, op, t)
    PROVE  AutomationInv'
<1>1. request \in [Callers -> TaskRequests] /\ rows[t] \in TaskRows
      BY DEF AutomationInv, AutomationShape
<1>2. PICK x \in TaskRequests : /\ x.pc = "checked" => x.op = op /\ x.row = t
                                /\ request' = [request EXCEPT ![q] = x]
  <2>1. CASE Permits(op, rows[t].status)
    <3> DEFINE x == [request[q] EXCEPT !.pc = "checked", !.op = op, !.row = t,
                                       !.saw = rows[t].status]
    <3>1. x \in TaskRequests /\ x.op = op /\ x.row = t BY <1>1 DEF TaskRequests, TaskRows
    <3>2. request' = [request EXCEPT ![q] = x] BY <1>1, <2>1 DEF ReadTask
    <3> QED BY <3>1, <3>2
  <2>2. CASE ~Permits(op, rows[t].status)
    <3> DEFINE x == [request[q] EXCEPT !.pc = "done"]
    <3>1. x \in TaskRequests /\ x.pc = "done" BY <1>1 DEF TaskRequests
    <3>2. request' = [request EXCEPT ![q] = x] BY <1>1, <2>2 DEF ReadTask
    <3> QED BY <3>1, <3>2
  <2> QED BY <2>1, <2>2
<1>3. AutomationShape' BY <1>1, <1>2 DEF ReadTask, AutomationInv, AutomationShape
<1>4. KnowsItsTask' BY <1>1, <1>2 DEF AutomationInv, KnowsItsTask
<1>5. KeysApart' BY KeysStay DEF ReadTask
<1> QED BY <1>3, <1>4, <1>5 DEF AutomationInv

\* ... and writes to it, but not its key, ...
LEMMA WriteTaskKeeps ==
    ASSUME AutomationInv, NEW q \in Callers, NEW later \in BOOLEAN, WriteTask(q, later)
    PROVE  AutomationInv'
<1> DEFINE t == request[q].row
<1>1. t \in Tasks /\ request[q].op \in {"approve", "reject", "trigger"}
      BY DEF WriteTask, AutomationInv, KnowsItsTask
<1>2. /\ rows \in [Tasks -> TaskRows] /\ draft \in [Tasks -> TaskRows]
      /\ lock \in [Tasks -> Callers \cup Workers \cup {"free"}]
      BY DEF AutomationInv, AutomationShape
<1>3. Updated(q, rows[t], later) \in TaskRows /\ Updated(q, rows[t], later).key = rows[t].key
  <2>1. rows[t] \in TaskRows BY <1>1, <1>2
  <2>2. (~later) \in BOOLEAN BY Zenon
  <2>3. CASE request[q].op = "approve" BY <2>1, <2>3 DEF Updated, TaskRows, Statuses
  <2>4. CASE request[q].op = "reject" BY <2>1, <2>4 DEF Updated, TaskRows, Statuses
  <2>5. CASE request[q].op = "trigger"
    <3>1. PICK due \in BOOLEAN : due = ~later BY <2>2, Zenon
    <3>2. Updated(q, rows[t], later) =
             [rows[t] EXCEPT !.status = IF request[q].saw = "queued" THEN @ ELSE "queued",
                             !.due = due]
          BY <2>5, <3>1 DEF Updated
    <3> QED BY <2>1, <3>2 DEF TaskRows, Statuses
  <2> QED BY <1>1, <2>3, <2>4, <2>5
<1>4. /\ draft' = [draft EXCEPT ![t] = Updated(q, rows[t], later)]
      /\ lock' = [lock EXCEPT ![t] = q] /\ request' = [request EXCEPT ![q].pc = "written"]
      /\ UNCHANGED <<rows, batch, live, aborts, unreviewed>>
      BY DEF WriteTask
<1> HIDE DEF t
<1>5. AutomationShape' /\ KnowsItsTask'
      BY <1>1, <1>2, <1>3, <1>4, RequestMoves DEF AutomationInv, AutomationShape
<1>6. ASSUME NEW u \in Tasks PROVE KeysOf(u)' \subseteq KeysOf(u)
      BY <1>1, <1>2, <1>3, <1>4 DEF KeysOf, Pending
<1> QED BY <1>5, <1>6, NoNewKey DEF AutomationInv

\* ... and commits.
LEMMA RequestKeeps ==
    ASSUME AutomationInv, NEW q \in Callers, EndRequest(q) \/ UpdateDefinition(q)
    PROVE  AutomationInv'
<1>1. CASE EndRequest(q)
  <2>1. AutomationShape' /\ KnowsItsTask'
        BY <1>1, EndKeeps, RequestMoves DEF EndRequest, AutomationInv, AutomationShape
  <2> QED BY <1>1, <2>1, EndKeeps DEF EndRequest, AutomationInv
<1>2. CASE UpdateDefinition(q)
  <2>1. live' \in BOOLEAN BY <1>2, Zenon DEF UpdateDefinition
  <2>2. AutomationShape' /\ KnowsItsTask'
        BY <1>2, <2>1, RequestMoves DEF UpdateDefinition, AutomationInv, AutomationShape
  <2> QED BY <1>2, <2>2, KeysStay DEF UpdateDefinition, AutomationInv
<1> QED BY <1>1, <1>2

\* A worker locks what is due, ...
LEMMA SelectKeeps ==
    ASSUME AutomationInv, NEW w \in Workers, SelectDue(w)
    PROVE  AutomationInv'
<1> DEFINE due == {t \in Tasks : Available(t)}
<1>1. /\ rows \in [Tasks -> TaskRows] /\ draft \in [Tasks -> TaskRows]
      /\ lock \in [Tasks -> Callers \cup Workers \cup {"free"}]
      /\ batch \in [Workers -> SUBSET Tasks]
      BY DEF AutomationInv, AutomationShape
<1>2. /\ batch' = [batch EXCEPT ![w] = due]
      /\ lock' = [t \in Tasks |-> IF t \in due THEN w ELSE lock[t]]
      /\ draft' = [t \in Tasks |-> IF t \in due THEN rows[t] ELSE draft[t]]
      /\ UNCHANGED <<rows, request, live, aborts, unreviewed>>
      BY DEF SelectDue
<1>3. due \subseteq Tasks OBVIOUS
<1> HIDE DEF due
<1>4. AutomationShape' BY <1>1, <1>2, <1>3 DEF AutomationInv, AutomationShape
<1>5. KnowsItsTask' BY <1>2 DEF AutomationInv, KnowsItsTask
<1>6. ASSUME NEW t \in Tasks PROVE KeysOf(t)' \subseteq KeysOf(t)
  <2>1. CASE t \in due BY <1>1, <1>2, <2>1 DEF KeysOf, Pending
  <2>2. CASE t \notin due BY <1>1, <1>2, <2>2 DEF KeysOf, Pending
  <2> QED BY <2>1, <2>2
<1> QED BY <1>4, <1>5, <1>6, NoNewKey DEF AutomationInv

\* ... executes it, which changes what it has made of the row but not the key, ...
LEMMA ExecuteKeeps ==
    ASSUME AutomationInv, NEW w \in Workers, NEW t \in Tasks, NEW succeeds \in BOOLEAN,
           ExecuteTask(w, t, succeeds)
    PROVE  AutomationInv'
<1> DEFINE row == [draft[t] EXCEPT !.attempts = @ + 1]
           made == IF ~live THEN MarkFailed(row, FALSE)
                   ELSE IF succeeds THEN [row EXCEPT !.status = "succeeded"]
                   ELSE MarkFailed(row, TRUE)
<1>1. /\ rows \in [Tasks -> TaskRows] /\ draft \in [Tasks -> TaskRows]
      /\ draft[t] \in TaskRows /\ batch \in [Workers -> SUBSET Tasks]
      BY DEF AutomationInv, AutomationShape
<1>2. row \in TaskRows /\ row.key = draft[t].key BY <1>1 DEF TaskRows
<1>3. made \in TaskRows /\ made.key = draft[t].key
  <2> HIDE DEF row
  <2>1. /\ [row EXCEPT !.status = "succeeded"] \in TaskRows
        /\ [row EXCEPT !.status = "succeeded"].key = draft[t].key
        BY <1>2 DEF TaskRows, Statuses
  <2>2. ASSUME NEW retriable \in BOOLEAN
        PROVE  MarkFailed(row, retriable) \in TaskRows
               /\ MarkFailed(row, retriable).key = draft[t].key
    <3>1. CASE retriable /\ row.attempts < MaxTries
          BY <1>2, <3>1 DEF MarkFailed, TaskRows, Statuses
    <3>2. CASE ~(retriable /\ row.attempts < MaxTries)
          BY <1>2, <3>2 DEF MarkFailed, TaskRows, Statuses
    <3> QED BY <3>1, <3>2
  <2> QED BY <2>1, <2>2
<1>4. draft' = [draft EXCEPT ![t] = made] BY DEF ExecuteTask
<1>5. /\ batch' = [batch EXCEPT ![w] = @ \ {t}]
      /\ unreviewed' \in {unreviewed, unreviewed \cup {t}}
      /\ UNCHANGED <<rows, lock, request, live, aborts>>
  <2>1. unreviewed' = IF live /\ row.review /\ ~row.approved
                      THEN unreviewed \cup {t} ELSE unreviewed BY DEF ExecuteTask
  <2> HIDE DEF row
  <2>2. unreviewed' \in {unreviewed, unreviewed \cup {t}} BY <2>1
  <2> QED BY <2>2 DEF ExecuteTask
<1> HIDE DEF made, row
<1>6. draft' \in [Tasks -> TaskRows] BY <1>1, <1>3, <1>4
<1>7. AutomationShape' BY <1>1, <1>5, <1>6 DEF AutomationInv, AutomationShape
<1>8. KnowsItsTask' BY <1>5 DEF AutomationInv, KnowsItsTask
<1>9. ASSUME NEW u \in Tasks PROVE KeysOf(u)' \subseteq KeysOf(u)
      BY <1>1, <1>3, <1>4, <1>5 DEF KeysOf, Pending
<1> QED BY <1>7, <1>8, <1>9, NoNewKey DEF AutomationInv

\* ... and commits, or not.
LEMMA BatchKeeps ==
    ASSUME AutomationInv, NEW w \in Workers, EndBatch(w) \/ AbortBatch(w)
    PROVE  AutomationInv'
<1>1. CASE EndBatch(w)
      BY <1>1, EndKeeps DEF EndBatch, AutomationInv, AutomationShape, KnowsItsTask
<1>2. CASE AbortBatch(w)
  <2>1. aborts' \in 0 .. MaxAborts
        BY <1>2, AutomationAssumption DEF AbortBatch, AutomationInv, AutomationShape
  <2>2. batch' \in [Workers -> SUBSET Tasks]
        BY <1>2 DEF AbortBatch, AutomationInv, AutomationShape
  <2> QED BY <1>2, <2>1, <2>2, EndKeeps
          DEF AbortBatch, AutomationInv, AutomationShape, KnowsItsTask
<1> QED BY <1>1, <1>2

LEMMA DueKeeps ==
    ASSUME AutomationInv, NEW t \in Tasks, BecomesDue(t)
    PROVE  AutomationInv'
<1> DEFINE row == [rows[t] EXCEPT !.due = TRUE]
<1>1. rows \in [Tasks -> TaskRows] /\ rows[t] \in TaskRows
      BY DEF AutomationInv, AutomationShape
<1>2. row \in TaskRows /\ row.key = rows[t].key BY <1>1 DEF TaskRows
<1>3. rows' = [rows EXCEPT ![t] = row] BY <1>1 DEF BecomesDue
<1> HIDE DEF row
<1>4. AutomationShape' BY <1>1, <1>2, <1>3 DEF BecomesDue, AutomationInv, AutomationShape
<1>5. KnowsItsTask' BY DEF BecomesDue, AutomationInv, KnowsItsTask
<1>6. ASSUME NEW u \in Tasks PROVE KeysOf(u)' \subseteq KeysOf(u)
      BY <1>1, <1>2, <1>3 DEF BecomesDue, KeysOf, Pending
<1> QED BY <1>4, <1>5, <1>6, NoNewKey DEF AutomationInv

LEMMA AutomationStep == AutomationInv /\ [AutomationNext]_automationVars => AutomationInv'
<1> SUFFICES ASSUME AutomationInv, [AutomationNext]_automationVars PROVE AutomationInv'
    OBVIOUS
<1>1. CASE UNCHANGED automationVars
      BY <1>1, KeysStay DEF automationVars, AutomationInv, AutomationShape, KnowsItsTask
<1>2. ASSUME NEW q \in Callers, Serve(q) PROVE AutomationInv'
      BY <1>2, InsertKeeps, WriteTaskKeeps, RequestKeeps DEF Serve
<1>3. ASSUME NEW w \in Workers, Work(w) PROVE AutomationInv'
      BY <1>3, SelectKeeps, ExecuteKeeps, BatchKeeps DEF Work
<1> QED BY <1>1, <1>2, <1>3, QueueKeeps, ReadTaskKeeps, RequestKeeps, BatchKeeps, DueKeeps
        DEF AutomationNext

LEMMA AutomationAlways ==
    AutomationInit /\ [][AutomationNext]_automationVars => []AutomationInv
BY AutomationInitially, AutomationStep, PTL

\* Two calls with one idempotency key insert one task.
THEOREM KeysAreUnique == AutomationSpec => []OneTaskPerKey
<1>1. AutomationInv => OneTaskPerKey
      BY DEF AutomationInv, KeysApart, KeysOf, OneTaskPerKey
<1> QED BY <1>1, AutomationAlways, PTL DEF AutomationSpec

LEMMA AutomationTypes == AutomationInv => AutomationTypeOK
BY DEF AutomationInv, AutomationShape, AutomationTypeOK, TaskRows

-----------------------------------------------------------------------------
(***************************************************************************)
(* The life of an identity. Whatever takes an identity out of its active   *)
(* states takes its grants in the same step, before any await.             *)
(***************************************************************************)

NhiInv == NhiTypeOK /\ SuspendedHoldsNothing

LEMMA NhiInitially == NhiInit => NhiInv
BY DEF NhiInit, NhiInv, NhiTypeOK, NhiStates, SuspendedHoldsNothing

\* Whoever takes an identity to a state takes or gives its grants in the same step; ...
LEMMA OperationKeeps ==
    ASSUME NhiInv, NEW i \in Identities,
           \/ Provision(i) \/ Rotate(i) \/ Suspend(i) \/ Resume(i) \/ Revoke(i)
           \/ Decommission(i) \/ RevokeIdentity(i)
    PROVE  NhiInv'
<1> USE DEF NhiInv, NhiTypeOK, NhiStates, Operations, SuspendedHoldsNothing, MovesTo
<1>1. CASE Provision(i) BY <1>1 DEF Provision
<1>2. CASE Rotate(i) BY <1>2 DEF Rotate
<1>3. CASE Suspend(i) BY <1>3 DEF Suspend
<1>4. CASE Resume(i) BY <1>4 DEF Resume
<1>5. CASE Revoke(i) BY <1>5 DEF Revoke
<1>6. CASE Decommission(i)
  <2>1. CASE state[i] = "revoked" BY <1>6, <2>1 DEF Decommission
  <2>2. CASE state[i] # "revoked" BY <1>6, <2>2 DEF Decommission
  <2> QED BY <2>1, <2>2
<1>7. CASE RevokeIdentity(i) BY <1>7 DEF RevokeIdentity
<1> QED BY <1>1, <1>2, <1>3, <1>4, <1>5, <1>6, <1>7

\* ... what comes back from an await does, too; ...
LEMMA ResumptionKeeps ==
    ASSUME NhiInv, NEW i \in Identities,
           \/ FinishRotation(i) \/ FinishDecommission(i) \/ FinishRevokeIdentity(i)
           \/ KillNext(i) \/ DropExpiredGrant(i) \/ TimePasses(i)
    PROVE  NhiInv'
<1> USE DEF NhiInv, NhiTypeOK, NhiStates, Operations, SuspendedHoldsNothing, MovesTo
<1>1. CASE FinishRotation(i) BY <1>1 DEF FinishRotation
<1>2. CASE FinishDecommission(i) BY <1>2 DEF FinishDecommission
<1>3. CASE FinishRevokeIdentity(i) BY <1>3 DEF FinishRevokeIdentity
<1>4. CASE KillNext(i) BY <1>4 DEF KillNext
<1>5. CASE DropExpiredGrant(i) BY <1>5 DEF DropExpiredGrant
<1>6. CASE TimePasses(i) BY <1>6 DEF TimePasses
<1> QED BY <1>1, <1>2, <1>3, <1>4, <1>5, <1>6

\* ... and so does the monitor with all that it finds overdue.
LEMMA MonitorKeeps ==
    ASSUME NhiInv, Monitor
    PROVE  NhiInv'
<1> DEFINE rotated == {i \in rotationDue : state[i] = "active"} \ ToExpire
<1>1. /\ state' = [i \in Identities |-> IF i \in ToExpire THEN "revoked"
                                        ELSE IF i \in rotated THEN "rotating" ELSE state[i]]
      /\ resuming' = {<<"rotate", i>> : i \in rotated}
      /\ grants' = grants \ ToExpire
      /\ UNCHANGED <<expires, rotationDue, killing, monitoring>>
      BY DEF Monitor
<1>2. rotated \subseteq Identities BY DEF NhiInv, NhiTypeOK
<1>3. ToExpire \subseteq Identities BY DEF ToExpire, Overdue
<1> HIDE DEF rotated
<1>4. state' \in [Identities -> NhiStates \cup {"none"}]
      BY <1>1 DEF NhiInv, NhiTypeOK, NhiStates
<1>5. resuming' \subseteq Operations \X Identities BY <1>1, <1>2 DEF Operations
<1>6. NhiTypeOK' BY <1>1, <1>4, <1>5 DEF NhiInv, NhiTypeOK
<1>7. SuspendedHoldsNothing' BY <1>1 DEF NhiInv, SuspendedHoldsNothing
<1> QED BY <1>6, <1>7 DEF NhiInv

LEMMA NhiStep == NhiInv /\ [NhiNext]_nhiVars => NhiInv'
<1> SUFFICES ASSUME NhiInv, [NhiNext]_nhiVars PROVE NhiInv' OBVIOUS
<1>1. CASE UNCHANGED nhiVars BY <1>1 DEF nhiVars, NhiInv, NhiTypeOK, SuspendedHoldsNothing
<1>2. CASE KillSwitch BY <1>2 DEF KillSwitch, NhiInv, NhiTypeOK, SuspendedHoldsNothing
<1>3. ASSUME NEW on \in BOOLEAN, SetMonitoring(on) PROVE NhiInv'
      BY <1>3 DEF SetMonitoring, NhiInv, NhiTypeOK, SuspendedHoldsNothing
<1> QED BY <1>1, <1>2, <1>3, OperationKeeps, ResumptionKeeps, MonitorKeeps DEF NhiNext

LEMMA NhiAlways == NhiInit /\ [][NhiNext]_nhiVars => []NhiInv
BY NhiInitially, NhiStep, PTL

-----------------------------------------------------------------------------
(***************************************************************************)
(* The isolated memory. What a namespace holds was written after the last  *)
(* purge of its session, because a purge takes all of it and numbers only  *)
(* grow.                                                                   *)
(***************************************************************************)

MemoryEntries == [value : Nat, expires : Nat]

\* A namespace is a function from some of the keys to entries, and the map of entries
\* has the namespaces of the other map.
MemoryShape ==
    /\ memoryTime \in 0 .. MaxMemoryTime /\ written \in 0 .. MaxWrites
    /\ namespaces \subseteq handed /\ handed \subseteq Ids
    /\ memory = [id \in namespaces |-> memory[id]]
    /\ \A id \in namespaces : memory[id] \in [DOMAIN memory[id] -> MemoryEntries]
    /\ \A id \in namespaces : DOMAIN memory[id] \subseteq MemoryKeys
    /\ purgeTimer \in BOOLEAN
    /\ purgedUpTo \in [Sessions -> 0 .. MaxWrites]

\* A session has one namespace at a time, ...
OneNamespace == \A id, other \in namespaces : Owner(id) = Owner(other) => id = other

\* ... and what is in it was written after the last purge.
EntriesAreCurrent == \A id \in namespaces : \A k \in DOMAIN memory[id] :
    /\ memory[id][k].value > purgedUpTo[Owner(id)]
    /\ memory[id][k].value <= written
PurgesArePast == \A s \in Sessions : purgedUpTo[s] <= written

MemoryInv == MemoryShape /\ OneNamespace /\ EntriesAreCurrent /\ PurgesArePast

LEMMA MemoryInitially == MemoryInit => MemoryInv
<1> SUFFICES ASSUME MemoryInit PROVE MemoryInv OBVIOUS
<1>1. 0 \in 0 .. MaxMemoryTime /\ 0 \in 0 .. MaxWrites BY MemoryAssumption
<1>2. MemoryShape BY <1>1 DEF MemoryInit, MemoryShape, Ids
<1> QED BY <1>2 DEF MemoryInit, MemoryInv, OneNamespace, EntriesAreCurrent, PurgesArePast

\* A step that only takes entries away, or namespaces.
LEMMA LessIsCurrent ==
    ASSUME MemoryInv, namespaces' \subseteq namespaces,
           memory' = [id \in namespaces' |-> memory'[id]],
           \A id \in namespaces' :
              /\ DOMAIN memory'[id] \subseteq DOMAIN memory[id]
              /\ memory'[id] = [k \in DOMAIN memory'[id] |-> memory[id][k]],
           UNCHANGED <<handed, written, purgedUpTo>>,
           memoryTime' \in 0 .. MaxMemoryTime, purgeTimer' \in BOOLEAN
    PROVE  MemoryInv'
<1>1. MemoryShape'
  <2>1. ASSUME NEW id \in namespaces'
        PROVE  /\ memory'[id] \in [DOMAIN memory'[id] -> MemoryEntries]
               /\ DOMAIN memory'[id] \subseteq MemoryKeys
    <3>1. /\ memory[id] \in [DOMAIN memory[id] -> MemoryEntries]
          /\ DOMAIN memory[id] \subseteq MemoryKeys
          BY <2>1 DEF MemoryInv, MemoryShape
    <3>2. \A k \in DOMAIN memory'[id] : memory[id][k] \in MemoryEntries BY <2>1, <3>1
    <3>3. memory'[id] = [k \in DOMAIN memory'[id] |-> memory[id][k]] BY <2>1
    <3>4. memory'[id] \in [DOMAIN memory'[id] -> MemoryEntries] BY <3>2, <3>3
    <3> QED BY <2>1, <3>1, <3>4
  <2> QED BY <2>1 DEF MemoryInv, MemoryShape
<1>2. OneNamespace' BY DEF MemoryInv, OneNamespace
<1>3. EntriesAreCurrent' BY DEF MemoryInv, EntriesAreCurrent
<1>4. PurgesArePast' BY DEF MemoryInv, PurgesArePast
<1> QED BY <1>1, <1>2, <1>3, <1>4 DEF MemoryInv

LEMMA ForgetKeeps ==
    ASSUME MemoryInv, NEW id \in namespaces, NEW keys, memory' = Forget(id, keys),
           UNCHANGED <<memoryTime, namespaces, handed, written, purgeTimer, purgedUpTo>>
    PROVE  MemoryInv'
<1>1. memory = [i \in namespaces |-> memory[i]] /\ memoryTime \in 0 .. MaxMemoryTime
      /\ purgeTimer \in BOOLEAN
      /\ \A i \in namespaces : memory[i] = [k \in DOMAIN memory[i] |-> memory[i][k]]
      BY DEF MemoryInv, MemoryShape
<1> DEFINE kept == [k \in DOMAIN memory[id] \ keys |-> memory[id][k]]
<1>2. memory' = [memory EXCEPT ![id] = kept] BY <1>1 DEF Forget, Restrict
<1>3. memory' = [i \in namespaces' |-> memory'[i]] BY <1>1, <1>2
<1>4. ASSUME NEW i \in namespaces'
      PROVE  /\ DOMAIN memory'[i] \subseteq DOMAIN memory[i]
             /\ memory'[i] = [k \in DOMAIN memory'[i] |-> memory[i][k]]
  <2>1. CASE i = id
    <3>1. memory'[i] = kept BY <1>1, <1>2, <2>1
    <3> QED BY <2>1, <3>1
  <2>2. CASE i # id
    <3>1. memory'[i] = memory[i] BY <1>1, <1>2, <1>4, <2>2
    <3> QED BY <1>1, <1>4, <3>1
  <2> QED BY <2>1, <2>2
<1> QED BY <1>1, <1>3, <1>4, LessIsCurrent

LEMMA GetKeeps ==
    ASSUME MemoryInv, NEW s \in Sessions, GetNamespace(s)
    PROVE  MemoryInv'
<1>1. CASE \E id \in namespaces : Owner(id) = s
      BY <1>1 DEF GetNamespace, MemoryInv, MemoryShape, OneNamespace, EntriesAreCurrent,
                  PurgesArePast
<1>2. CASE ~ \E id \in namespaces : Owner(id) = s
  <2> DEFINE id == <<s, memoryTime>>
  <2>1. memoryTime \in 0 .. MaxMemoryTime /\ memory = [i \in namespaces |-> memory[i]]
        BY DEF MemoryInv, MemoryShape
  <2>2. id \in Ids /\ Owner(id) = s BY <2>1 DEF Ids, Owner
  <2>3. id \notin namespaces BY <1>2, <2>2
  <2>4. /\ namespaces' = namespaces \cup {id} /\ handed' = handed \cup {id}
        /\ memory' = [i \in DOMAIN memory \cup {id} |-> IF i = id THEN NoEntries ELSE memory[i]]
        /\ UNCHANGED <<memoryTime, written, purgeTimer, lastRead, purgedUpTo>>
        BY <1>2 DEF GetNamespace
  <2> HIDE DEF id
  <2>5. DOMAIN memory = namespaces BY <2>1
  <2>6. memory' = [i \in namespaces' |-> memory'[i]] BY <2>4, <2>5
  <2>7. /\ \A i \in namespaces : memory'[i] = memory[i]
        /\ memory'[id] = NoEntries
        BY <2>3, <2>4, <2>5
  <2>8. NoEntries \in [DOMAIN NoEntries -> MemoryEntries] /\ DOMAIN NoEntries = {}
        BY DEF NoEntries
  <2>9. MemoryShape' BY <2>2, <2>4, <2>6, <2>7, <2>8 DEF MemoryInv, MemoryShape
  <2>10. OneNamespace' BY <1>2, <2>2, <2>4 DEF MemoryInv, OneNamespace
  <2>11. EntriesAreCurrent' BY <2>4, <2>7, <2>8 DEF MemoryInv, EntriesAreCurrent
  <2> QED BY <2>4, <2>9, <2>10, <2>11 DEF MemoryInv, PurgesArePast
<1> QED BY <1>1, <1>2

LEMMA WriteKeeps ==
    ASSUME MemoryInv, NEW id \in handed, NEW a \in Actors, NEW k \in MemoryKeys,
           NEW ttl \in MemoryTtls, WriteMemory(id, a, k, ttl)
    PROVE  MemoryInv'
<1>1. /\ memory = [i \in namespaces |-> memory[i]]
      /\ \A i \in namespaces : memory[i] \in [DOMAIN memory[i] -> MemoryEntries]
      /\ \A i \in namespaces : DOMAIN memory[i] \subseteq MemoryKeys
      /\ memoryTime \in Nat /\ written \in 0 .. MaxWrites /\ ttl \in Nat
      BY MemoryAssumption DEF MemoryInv, MemoryShape
<1>2. id \in namespaces /\ Owner(id) \in Sessions
  <2>1. id \in namespaces BY <1>1 DEF WriteMemory
  <2> QED BY <2>1 DEF MemoryInv, MemoryShape, Ids, Owner
<1>3. written' = written + 1 /\ written' \in 0 .. MaxWrites
      BY <1>1, MemoryAssumption DEF WriteMemory
<1>4. PICK entry \in MemoryEntries :
          /\ entry.value = written'
          /\ memory' = [memory EXCEPT ![id] =
                           [j \in DOMAIN @ \cup {k} |-> IF j = k THEN entry ELSE @[j]]]
  <2> DEFINE entry == [value |-> written + 1, expires |-> memoryTime + ttl]
  <2>1. entry \in MemoryEntries BY <1>1 DEF MemoryEntries
  <2>2. memory' = [memory EXCEPT ![id] =
                           [j \in DOMAIN @ \cup {k} |-> IF j = k THEN entry ELSE @[j]]]
        BY <1>3 DEF WriteMemory
  <2> QED BY <1>3, <2>1, <2>2
<1> DEFINE keys == DOMAIN memory[id] \cup {k}
           now == [j \in keys |-> IF j = k THEN entry ELSE memory[id][j]]
<1>5. memory' = [memory EXCEPT ![id] = now] BY <1>1, <1>2, <1>4
<1>6. now \in [keys -> MemoryEntries] /\ keys \subseteq MemoryKeys /\ DOMAIN now = keys
      BY <1>1, <1>2
<1>7. UNCHANGED <<memoryTime, namespaces, handed, purgeTimer, lastRead, purgedUpTo>>
      BY DEF WriteMemory
<1>8. /\ memory'[id] = now /\ memory' = [i \in namespaces' |-> memory'[i]]
      /\ \A i \in namespaces : i # id => memory'[i] = memory[i]
      BY <1>1, <1>2, <1>5, <1>7
<1>9. \A j \in keys : now[j].value \in Nat /\ now[j].value > purgedUpTo[Owner(id)]
                      /\ now[j].value <= written'
  <2>1. purgedUpTo[Owner(id)] <= written /\ purgedUpTo[Owner(id)] \in Nat
        BY <1>2, MemoryAssumption DEF MemoryInv, PurgesArePast, MemoryShape
  <2>2. now[k].value = written' BY <1>4
  <2>3. ASSUME NEW j \in keys, j # k
        PROVE  now[j].value \in Nat /\ now[j].value > purgedUpTo[Owner(id)]
               /\ now[j].value <= written
    <3>1. now[j] = memory[id][j] /\ j \in DOMAIN memory[id] BY <2>3
    <3>2. memory[id][j] \in MemoryEntries BY <1>1, <1>2, <3>1
    <3> QED BY <1>2, <3>1, <3>2 DEF MemoryInv, EntriesAreCurrent, MemoryEntries
  <2>4. ASSUME NEW j \in keys
        PROVE  now[j].value \in Nat /\ now[j].value > purgedUpTo[Owner(id)]
               /\ now[j].value <= written'
    <3>1. CASE j = k BY <1>1, <1>3, <2>1, <2>2, <3>1
    <3>2. CASE j # k
      <4>1. now[j].value \in Nat /\ now[j].value > purgedUpTo[Owner(id)]
            /\ now[j].value <= written
            BY <2>3, <2>4, <3>2
      <4> HIDE DEF now, keys
      <4>2. PICK v : v = now[j].value OBVIOUS
      <4>3. v <= written' BY <1>1, <1>3, <4>1, <4>2
      <4> QED BY <4>1, <4>2, <4>3
    <3> QED BY <3>1, <3>2
  <2> QED BY <2>4
<1> HIDE DEF now, keys
<1>10. MemoryShape' BY <1>3, <1>6, <1>7, <1>8 DEF MemoryInv, MemoryShape
<1>11. EntriesAreCurrent'
  <2>1. ASSUME NEW i \in namespaces, NEW j \in DOMAIN memory'[i]
        PROVE  memory'[i][j].value > purgedUpTo[Owner(i)] /\ memory'[i][j].value <= written'
    <3>1. CASE i = id BY <1>6, <1>8, <1>9, <2>1, <3>1
    <3>2. CASE i # id
      <4>1. memory'[i] = memory[i] BY <1>8, <2>1, <3>2
      <4>2. memory[i][j] \in MemoryEntries BY <1>1, <2>1, <4>1
      <4>3. memory[i][j].value > purgedUpTo[Owner(i)] /\ memory[i][j].value <= written
            BY <2>1, <4>1 DEF MemoryInv, EntriesAreCurrent
      <4> QED BY <1>1, <1>3, <4>1, <4>2, <4>3 DEF MemoryEntries
    <3> QED BY <3>1, <3>2
  <2> QED BY <1>7, <2>1 DEF EntriesAreCurrent
<1>12. PurgesArePast'
      BY <1>1, <1>3, <1>7, MemoryAssumption DEF MemoryInv, PurgesArePast, MemoryShape
<1> QED BY <1>7, <1>10, <1>11, <1>12 DEF MemoryInv, OneNamespace

LEMMA PurgeKeeps ==
    ASSUME MemoryInv, NEW id \in handed, NEW a \in Actors, PurgeNamespace(id, a)
    PROVE  MemoryInv'
<1>1. /\ memory = [i \in namespaces |-> memory[i]]
      /\ \A i \in namespaces : memory[i] = [k \in DOMAIN memory[i] |-> memory[i][k]]
      /\ memoryTime \in 0 .. MaxMemoryTime /\ written \in 0 .. MaxWrites
      /\ purgeTimer \in BOOLEAN /\ purgedUpTo \in [Sessions -> 0 .. MaxWrites]
      /\ namespaces \subseteq Ids /\ id \in Ids
      BY DEF MemoryInv, MemoryShape
<1>2. /\ namespaces' = namespaces \ {id}
      /\ memory' = [i \in namespaces \ {id} |-> memory[i]]
      /\ UNCHANGED <<memoryTime, handed, written, purgeTimer, lastRead>>
      BY <1>1 DEF PurgeNamespace, WithoutEntries, Restrict
<1>3. \A i \in namespaces' : memory'[i] = memory[i] BY <1>2
<1>4. CASE id \notin namespaces
  <2>1. purgedUpTo' = purgedUpTo BY <1>4 DEF PurgeNamespace
  <2> QED BY <1>1, <1>2, <1>3, <2>1, LessIsCurrent
<1>5. CASE id \in namespaces
  <2>1. purgedUpTo' = [purgedUpTo EXCEPT ![Owner(id)] = written]
        BY <1>5 DEF PurgeNamespace
  <2>2. Owner(id) \in Sessions BY <1>1 DEF Ids, Owner
  <2>3. \A i \in namespaces' : Owner(i) # Owner(id)
        BY <1>2, <1>5 DEF MemoryInv, OneNamespace
  <2>4. \A s \in Sessions : purgedUpTo'[s] = IF s = Owner(id) THEN written ELSE purgedUpTo[s]
        BY <1>1, <2>1
  <2>5. \A i \in namespaces' : Owner(i) \in Sessions BY <1>1, <1>2 DEF Ids, Owner
  <2>6. MemoryShape' BY <1>1, <1>2, <1>3, <2>1 DEF MemoryInv, MemoryShape
  <2>7. OneNamespace' BY <1>2 DEF MemoryInv, OneNamespace
  <2>8. EntriesAreCurrent'
        BY <1>2, <1>3, <2>3, <2>4, <2>5 DEF MemoryInv, EntriesAreCurrent
  <2>9. PurgesArePast' BY <1>1, <1>2, <2>4 DEF MemoryInv, PurgesArePast
  <2> QED BY <2>6, <2>7, <2>8, <2>9 DEF MemoryInv
<1> QED BY <1>4, <1>5

LEMMA SweepKeeps ==
    ASSUME MemoryInv, PurgeExpiredEntries
    PROVE  MemoryInv'
<1>1. /\ DOMAIN memory = namespaces /\ memoryTime \in 0 .. MaxMemoryTime
      /\ purgeTimer \in BOOLEAN
      BY DEF MemoryInv, MemoryShape
<1>2. /\ memory' = [id \in namespaces |->
                      [k \in {j \in DOMAIN memory[id] : ~Swept(id, j)} |-> memory[id][k]]]
      /\ UNCHANGED <<memoryTime, namespaces, handed, written, purgeTimer, lastRead, purgedUpTo>>
      BY <1>1 DEF PurgeExpiredEntries, Restrict
<1>3. ASSUME NEW id \in namespaces'
      PROVE  /\ DOMAIN memory'[id] \subseteq DOMAIN memory[id]
             /\ memory'[id] = [k \in DOMAIN memory'[id] |-> memory[id][k]]
      BY <1>2
<1> QED BY <1>1, <1>2, <1>3, LessIsCurrent

LEMMA ReadKeeps ==
    ASSUME MemoryInv, NEW id \in handed, NEW a \in Actors, NEW k \in MemoryKeys,
           ReadMemory(id, a, k) \/ DeleteMemory(id, a, k)
    PROVE  MemoryInv'
<1>1. id \in namespaces BY DEF ReadMemory, DeleteMemory, MemoryInv, MemoryShape
<1>2. CASE memory' = memory
      BY <1>2 DEF ReadMemory, DeleteMemory, MemoryInv, MemoryShape, OneNamespace,
                  EntriesAreCurrent, PurgesArePast
<1>3. CASE memory' = Forget(id, {k}) BY <1>1, <1>3, ForgetKeeps DEF ReadMemory, DeleteMemory
<1> QED BY <1>2, <1>3 DEF ReadMemory, DeleteMemory

LEMMA ManagerKeeps ==
    ASSUME MemoryInv, InitializeMemory \/ ShutdownMemory \/ MemoryTick
    PROVE  MemoryInv'
<1> USE DEF MemoryInv, MemoryShape, OneNamespace, EntriesAreCurrent, PurgesArePast
<1>1. CASE InitializeMemory BY <1>1 DEF InitializeMemory
<1>2. CASE ShutdownMemory
  <2>1. /\ namespaces' = {} /\ memory' = [id \in {} |-> NoEntries] /\ written' = written
        /\ purgedUpTo' = [s \in Sessions |-> written] /\ purgeTimer' = FALSE
        /\ handed' = handed /\ memoryTime' = memoryTime
        BY <1>2 DEF ShutdownMemory
  <2>2. written \in 0 .. MaxWrites /\ handed \subseteq Ids OBVIOUS
  <2>3. purgedUpTo' \in [Sessions -> 0 .. MaxWrites] BY <2>1, <2>2
  <2>4. PurgesArePast' BY <2>1, <2>2
  <2> QED BY <2>1, <2>2, <2>3, <2>4
<1>3. CASE MemoryTick BY <1>3, MemoryAssumption DEF MemoryTick
<1> QED BY <1>1, <1>2, <1>3

LEMMA MemoryStep == MemoryInv /\ [MemoryNext]_memoryVars => MemoryInv'
<1> SUFFICES ASSUME MemoryInv, [MemoryNext]_memoryVars PROVE MemoryInv' OBVIOUS
<1>1. CASE UNCHANGED memoryVars
      BY <1>1 DEF memoryVars, MemoryInv, MemoryShape, OneNamespace, EntriesAreCurrent,
                  PurgesArePast
<1>2. ASSUME NEW id \in handed, NEW a \in Actors, NEW k \in MemoryKeys,
             \/ ReadMemory(id, a, k) \/ DeleteMemory(id, a, k)
             \/ \E ttl \in MemoryTtls : WriteMemory(id, a, k, ttl)
      PROVE  MemoryInv'
      BY <1>2, ReadKeeps, WriteKeeps
<1> QED BY <1>1, <1>2, ManagerKeeps, SweepKeeps, GetKeeps, PurgeKeeps DEF MemoryNext

LEMMA MemoryAlways == MemoryInit /\ [][MemoryNext]_memoryVars => []MemoryInv
BY MemoryInitially, MemoryStep, PTL

\* Only a read changes what was read last.
LEMMA ReadIsCurrent ==
    MemoryInv /\ [MemoryNext]_memoryVars =>
        [lastRead' # lastRead =>
           /\ lastRead'.value > purgedUpTo[lastRead'.session]
           /\ lastRead'.to = lastRead'.session
           /\ ~lastRead'.expired]_memoryVars
<1> SUFFICES ASSUME MemoryInv, [MemoryNext]_memoryVars, lastRead' # lastRead
             PROVE  /\ lastRead'.value > purgedUpTo[lastRead'.session]
                    /\ lastRead'.to = lastRead'.session
                    /\ ~lastRead'.expired
    OBVIOUS
<1>1. PICK id \in handed, a \in Actors, k \in MemoryKeys : ReadMemory(id, a, k)
      BY DEF memoryVars, MemoryNext, InitializeMemory, ShutdownMemory, PurgeExpiredEntries,
             MemoryTick, GetNamespace, PurgeNamespace, DeleteMemory, WriteMemory
<1>2. /\ ~Expired(memory[id][k]) /\ MayUse(id, a)
      /\ lastRead' = [session |-> Owner(id), value |-> memory[id][k].value, to |-> a,
                      expired |-> memory[id][k].expires < memoryTime]
      BY <1>1 DEF ReadMemory
<1>3. id \in namespaces /\ k \in DOMAIN memory[id]
      BY <1>1 DEF ReadMemory, MemoryInv, MemoryShape
<1>4. memory[id][k].value > purgedUpTo[Owner(id)]
      BY <1>3 DEF MemoryInv, EntriesAreCurrent
<1> QED BY <1>2, <1>4 DEF Expired, MayUse

\* Who reads from a namespace reads what its own session wrote after its last purge, and
\* what has not expired.
THEOREM NothingPurgedIsRead == MemorySpec => ReadsAreCurrent
BY MemoryAlways, ReadIsCurrent, PTL DEF MemorySpec, ReadsAreCurrent

LEMMA MemoryTypes == MemoryInv => MemoryTypeOK
BY DEF MemoryInv, MemoryShape, MemoryTypeOK

-----------------------------------------------------------------------------
(***************************************************************************)
(* The runtime guard: the types of its state.                              *)
(***************************************************************************)

Circuits == [status : {"closed", "open", "half-open"}, failures : 0 .. BreakerThreshold,
             left : 0 .. BreakerReset]
Interceptions == [pc : {"idle", "evaluated", "audited"},
                  action : {"none", "allowed", "paused", "blocked"},
                  risky : BOOLEAN, audited : BOOLEAN]

\* What is evaluated has an action.
GuardInv ==
    /\ circuit \in Circuits /\ highRiskOps \in 0 .. 4
    /\ intercepted \in [GuardCalls -> Interceptions]
    /\ \A c \in GuardCalls :
          intercepted[c].pc = "evaluated" => intercepted[c].action # "none"
    /\ healthy \in BOOLEAN

LEMMA IdleTyped == Idle \in Interceptions /\ Idle.pc = "idle"
BY DEF Idle, Interceptions

LEMMA GuardInitially == GuardInit => GuardInv
<1> SUFFICES ASSUME GuardInit PROVE GuardInv OBVIOUS
<1>1. circuit \in Circuits BY GuardAssumption DEF GuardInit, Circuits
<1>2. intercepted \in [GuardCalls -> Interceptions]
      /\ \A c \in GuardCalls : intercepted[c].pc = "idle"
      BY IdleTyped DEF GuardInit
<1>3. highRiskOps \in 0 .. 4 BY SMT DEF GuardInit
<1>4. healthy \in BOOLEAN BY Zenon DEF GuardInit
<1> QED BY <1>1, <1>2, <1>3, <1>4 DEF GuardInv

\* A step that changes one call.
LEMMA OneInterception ==
    ASSUME GuardInv, NEW c \in GuardCalls, NEW x \in Interceptions,
           intercepted' = [intercepted EXCEPT ![c] = x],
           x.pc = "evaluated" => x.action # "none",
           circuit' \in Circuits, highRiskOps' \in 0 .. 4, healthy' \in BOOLEAN
    PROVE  GuardInv'
BY DEF GuardInv

LEMMA CircuitMoves ==
    ASSUME GuardInv
    PROVE  Success \in Circuits /\ Failure \in Circuits
<1>1. /\ circuit \in Circuits /\ circuit.failures \in 0 .. BreakerThreshold
      /\ circuit.left \in 0 .. BreakerReset
      /\ 0 \in 0 .. BreakerThreshold /\ BreakerReset \in 0 .. BreakerReset
      BY GuardAssumption DEF GuardInv, Circuits
<1>2. circuit.failures < BreakerThreshold => circuit.failures + 1 \in 0 .. BreakerThreshold
      BY <1>1, GuardAssumption
<1>3. circuit = [status |-> circuit.status, failures |-> circuit.failures,
                 left |-> circuit.left] /\ circuit.status \in {"closed", "open", "half-open"}
      BY <1>1 DEF Circuits
<1>4. Success = [circuit EXCEPT !.failures = 0, !.status =
                    IF circuit.status = "half-open" THEN "closed" ELSE circuit.status]
      BY Zenon DEF Success
<1>41. Success = [status |-> IF circuit.status = "half-open" THEN "closed" ELSE circuit.status,
                 failures |-> 0, left |-> circuit.left]
      BY <1>3, <1>4
<1>5. PICK opens \in BOOLEAN :
          opens = (circuit.failures + 1 >= BreakerThreshold /\ circuit.status # "open")
      BY Zenon
<1>6. PICK more \in 0 .. BreakerThreshold :
          more = IF circuit.failures < BreakerThreshold THEN circuit.failures + 1
                 ELSE circuit.failures
      BY <1>1, <1>2
<1>7. Failure = [circuit EXCEPT !.failures = more,
                                !.status = IF opens THEN "open" ELSE circuit.status,
                                !.left = IF opens THEN BreakerReset ELSE circuit.left]
      BY <1>5, <1>6, Zenon DEF Failure
<1>8. Failure = [status |-> IF opens THEN "open" ELSE circuit.status, failures |-> more,
                 left |-> IF opens THEN BreakerReset ELSE circuit.left]
      BY <1>3, <1>7
<1>9. Success \in Circuits BY <1>1, <1>3, <1>41 DEF Circuits
<1> QED BY <1>1, <1>3, <1>8, <1>9 DEF Circuits

LEMMA InterceptKeeps ==
    ASSUME GuardInv, NEW c \in GuardCalls, NEW level \in Levels, NEW impact \in Impacts,
           NEW verdict \in Verdicts, Intercept(c, level, impact, verdict)
    PROVE  GuardInv'
<1> DEFINE risk == CurrentRisk(level, impact)
           action == Action(verdict, OriginalRisk(level), risk)
<1>1. action \in {"allowed", "paused", "blocked"} BY DEF Action
<1>2. PICK risky \in BOOLEAN : risky = (risk >= RiskThreshold)
  <2>1. OriginalRisk(level) \in Nat BY GuardAssumption DEF OriginalRisk
  <2>2. risk \in Nat BY <2>1, GuardAssumption DEF CurrentRisk
  <2> HIDE DEF risk
  <2>3. (risk >= RiskThreshold) \in BOOLEAN BY <2>2, GuardAssumption
  <2> QED BY <2>3, Zenon
<1>3. PICK audited \in BOOLEAN : audited = (verdict # "error") BY Zenon
<1>4. intercepted' = [intercepted EXCEPT ![c] =
          [pc |-> "evaluated", action |-> action, risky |-> risky, audited |-> audited]]
      BY <1>2, <1>3, Zenon DEF Intercept
<1>5. [pc |-> "evaluated", action |-> action, risky |-> risky, audited |-> audited]
          \in Interceptions
      BY <1>1 DEF Interceptions
<1>6. circuit' \in Circuits
  <2>1. circuit' \in {circuit, [circuit EXCEPT !.status = "half-open"]} BY DEF Intercept
  <2>2. [circuit EXCEPT !.status = "half-open"] \in Circuits BY DEF GuardInv, Circuits
  <2> QED BY <2>1, <2>2 DEF GuardInv
<1>7. highRiskOps' = highRiskOps /\ healthy' = healthy BY DEF Intercept
<1> HIDE DEF action, risk
<1> QED BY <1>1, <1>4, <1>5, <1>6, <1>7, OneInterception DEF GuardInv

LEMMA ActKeeps ==
    ASSUME GuardInv, NEW c \in GuardCalls, Act(c) \/ TrackHighRisk(c)
    PROVE  GuardInv'
<1>1. CASE Act(c)
  <2>1. intercepted[c] \in Interceptions /\ intercepted[c].action # "none"
        BY <1>1 DEF Act, GuardInv
  <2>2. circuit' \in {Success, Failure, circuit} BY <1>1, <2>1 DEF Act, Interceptions
  <2>3. [Idle EXCEPT !.pc = "audited"] \in Interceptions
        /\ [Idle EXCEPT !.pc = "audited"].pc = "audited"
        BY DEF Idle, Interceptions
  <2>4. PICK x \in {[Idle EXCEPT !.pc = "audited"], Idle} :
            intercepted' = [intercepted EXCEPT ![c] = x]
        BY <1>1 DEF Act
  <2>5. highRiskOps' = highRiskOps /\ healthy' = healthy BY <1>1 DEF Act
  <2>6. circuit' \in Circuits BY <2>2, CircuitMoves DEF GuardInv
  <2>7. x \in Interceptions /\ x.pc # "evaluated" BY <2>3, <2>4, IdleTyped
  <2> QED BY <2>4, <2>5, <2>6, <2>7, OneInterception DEF GuardInv
<1>2. CASE TrackHighRisk(c)
  <2>1. highRiskOps' \in 0 .. 4 BY <1>2 DEF TrackHighRisk, GuardInv
  <2> QED BY <1>2, <2>1, IdleTyped, OneInterception DEF TrackHighRisk, GuardInv
<1> QED BY <1>1, <1>2

LEMMA GuardOthers ==
    ASSUME GuardInv, ResetCircuitBreaker \/ ResetWorkflow \/ GuardTick \/ CalmsDown
    PROVE  GuardInv'
<1>1. CASE ResetCircuitBreaker
      BY <1>1, GuardAssumption DEF ResetCircuitBreaker, GuardInv, Circuits
<1>2. CASE ResetWorkflow BY <1>2 DEF ResetWorkflow, GuardInv
<1>3. CASE GuardTick
  <2>1. circuit.left - 1 \in 0 .. BreakerReset BY <1>3, GuardAssumption DEF GuardTick, GuardInv, Circuits
  <2>2. circuit' \in Circuits BY <1>3, <2>1 DEF GuardTick, GuardInv, Circuits
  <2> QED BY <1>3, <2>2 DEF GuardTick, GuardInv
<1>4. CASE CalmsDown BY <1>4 DEF CalmsDown, GuardInv
<1> QED BY <1>1, <1>2, <1>3, <1>4

LEMMA GuardStep == GuardInv /\ [GuardNext]_guardVars => GuardInv'
<1> SUFFICES ASSUME GuardInv, [GuardNext]_guardVars PROVE GuardInv' OBVIOUS
<1>1. CASE UNCHANGED guardVars BY <1>1 DEF guardVars, GuardInv
<1> QED BY <1>1, InterceptKeeps, ActKeeps, GuardOthers DEF GuardNext

LEMMA GuardAlways == GuardInit /\ [][GuardNext]_guardVars => []GuardInv
BY GuardInitially, GuardStep, PTL

LEMMA GuardTypes == GuardInv => GuardTypeOK
BY DEF GuardInv, GuardTypeOK, Circuits, Interceptions

-----------------------------------------------------------------------------
(***************************************************************************)
(* The registry of adapters, for any number of processes. What a process   *)
(* has in memory is what the table will say once the statements that are   *)
(* still due in it have run, unless another process changed the table      *)
(* after it was read.  What is still to be counted, by whichever process,  *)
(* has not been counted; a total that was read was that low when it was.   *)
(***************************************************************************)

CatalogTools == Definitions \cup BuiltIn
Slots == [tool : ToolNames, number : Nat, cap : UNION {d.caps : d \in CatalogTools}]

TodoStatements ==
    [do : {"load", "ready", "integrations"}]
        \cup [do : {"default", "adapter"}, def : Definitions]
        \cup [do : {"delete"}, id : {d.id : d \in Definitions}]

IndexStatements ==
    [do : {"catalog", "filled"}]
        \cup [do : {"tool", "insertTool"}, def : CatalogTools]
        \cup [do : {"entry", "insert"}, words : SUBSET Words, slot : Slots]

RowsApart == \A this, other \in table : this.def.id = other.def.id => this = other

RegistryShape ==
    /\ RegistryTypeOK
    /\ todo \in [RegistryProcesses -> Seq(TodoStatements)]
    /\ index \in [RegistryProcesses -> Seq(IndexStatements)]
    /\ IsFiniteSet(listed) /\ IsFiniteSet(Enabled) /\ RowsApart

\* The adapters that a process has still to set in memory, and the identifiers of whatever it
\* has still to set or delete.
Due(p) == Range(todo[p])
Coming(p) == {x.def : x \in {y \in Due(p) : y.do = "adapter"}}
Leaving(p) == {x.id : x \in {y \in Due(p) : y.do = "delete"}}
Touched(p) == {a.id : a \in Coming(p)} \cup Leaving(p)

\* Start-up has not loaded anything yet; or memory will be the table when all is done.
StartingUp(p) == /\ adapters[p] = {}
                 /\ \E x \in Due(p) : x.do = "load"
                 /\ \A x \in Due(p) : x.do \in {"load", "default"}
WillBeTable(p) ==
    /\ \A a : a \in Enabled <=>
                 (a \in adapters[p] /\ a.id \notin Touched(p)) \/ a \in Coming(p)
    /\ \A a \in Enabled : a.id \notin Leaving(p)
CatchingUp(p) == /\ \A x \in Due(p) : x.do \notin {"load", "default"}
                 /\ p \notin stale => WillBeTable(p)
Memory(p) == StartingUp(p) \/ CatchingUp(p)

\* The processes that have still to count a word, or an entry.
WordDue(w) == {p \in RegistryProcesses : w \in counting[p].words}
EntryDue == {p \in RegistryProcesses : counting[p].entry}

CountsAreDue ==
    /\ \A w \in Words : frequency[w] + Cardinality(WordDue(w)) <= Cardinality(listed)
    /\ total + Cardinality(EntryDue) <= Cardinality(listed)
    /\ \A p \in RegistryProcesses :
          /\ counting[p].read # Unread =>
                p \in EntryDue /\ counting[p].read + Cardinality(EntryDue) <= Cardinality(listed)
          /\ p \notin EntryDue => counting[p] = NotCounting

RegistryInv == RegistryShape /\ (\A p \in RegistryProcesses : Memory(p)) /\ CountsAreDue

-----------------------------------------------------------------------------
(* Sequences of statements                                                 *)

LEMMA TodoFacts ==
    ASSUME NEW x \in TodoStatements
    PROVE  /\ x.do \in {"load", "ready", "integrations", "default", "adapter", "delete"}
           /\ x.do \in {"default", "adapter"} => x.def \in Definitions
BY DEF TodoStatements

LEMMA IndexFacts ==
    ASSUME NEW x \in IndexStatements
    PROVE  /\ x.do \in {"tool", "insertTool"} => x.def \in CatalogTools
           /\ x.do \in {"entry", "insert"} => x.words \in SUBSET Words /\ x.slot \in Slots
BY DEF IndexStatements

LEMMA Popped ==
    ASSUME NEW S, NEW s \in Seq(S), s # <<>>
    PROVE  /\ Tail(s) \in Seq(S) /\ Head(s) \in S /\ Head(s) \in Range(s)
           /\ Range(s) = {Head(s)} \cup Range(Tail(s))
<1>1. /\ Len(s) \in Nat \ {0} /\ Head(s) = s[1] /\ Tail(s) \in Seq(S) /\ Head(s) \in S
      /\ Len(Tail(s)) = Len(s) - 1
      /\ \A k \in 1 .. Len(s) - 1 : Tail(s)[k] = s[k + 1]
      /\ DOMAIN s = 1 .. Len(s) /\ DOMAIN Tail(s) = 1 .. Len(s) - 1
      OBVIOUS
<1>2. \A k \in DOMAIN Tail(s) : k + 1 \in DOMAIN s /\ Tail(s)[k] = s[k + 1] BY <1>1
<1>3. \A k \in DOMAIN s : k # 1 => k - 1 \in DOMAIN Tail(s) /\ Tail(s)[k - 1] = s[k] BY <1>1
<1>4. 1 \in DOMAIN s BY <1>1
<1>5. Range(s) = {Head(s)} \cup Range(Tail(s))
  <2>1. Range(s) \subseteq {Head(s)} \cup Range(Tail(s)) BY <1>1, <1>3 DEF Range
  <2>2. Range(Tail(s)) \subseteq Range(s) BY <1>2 DEF Range
  <2>3. Head(s) \in Range(s) BY <1>1, <1>4 DEF Range
  <2> QED BY <2>1, <2>2, <2>3
<1> QED BY <1>1, <1>5

LEMMA Joined ==
    ASSUME NEW S, NEW s \in Seq(S), NEW t \in Seq(S)
    PROVE  s \o t \in Seq(S) /\ Range(s \o t) = Range(s) \cup Range(t)
<1> DEFINE u == s \o t
<1>1. /\ u \in Seq(S) /\ Len(u) = Len(s) + Len(t) /\ Len(s) \in Nat /\ Len(t) \in Nat
      /\ DOMAIN s = 1 .. Len(s) /\ DOMAIN t = 1 .. Len(t) /\ DOMAIN u = 1 .. Len(s) + Len(t)
      /\ \A k \in DOMAIN u : u[k] = IF k <= Len(s) THEN s[k] ELSE t[k - Len(s)]
      OBVIOUS
<1> HIDE DEF u
<1>2. \A k \in DOMAIN s : k \in DOMAIN u /\ u[k] = s[k] BY <1>1
<1>3. \A k \in DOMAIN t : k + Len(s) \in DOMAIN u /\ u[k + Len(s)] = t[k] BY <1>1
<1>4. ASSUME NEW k \in DOMAIN u
      PROVE  \/ k \in DOMAIN s /\ u[k] = s[k]
             \/ k - Len(s) \in DOMAIN t /\ u[k] = t[k - Len(s)]
      BY <1>1
<1>5. Range(u) = Range(s) \cup Range(t)
  <2>1. Range(u) \subseteq Range(s) \cup Range(t) BY <1>4 DEF Range
  <2>2. Range(s) \subseteq Range(u) BY <1>2 DEF Range
  <2>3. Range(t) \subseteq Range(u) BY <1>3 DEF Range
  <2> QED BY <2>1, <2>2, <2>3
<1> QED BY <1>1, <1>5 DEF u

LEMMA SetToSeqIs ==
    ASSUME NEW S, IsFiniteSet(S)
    PROVE  /\ Cardinality(S) \in Nat
           /\ SetToSeq(S) \in [1 .. Cardinality(S) -> S]
           /\ \A j, k \in 1 .. Cardinality(S) : SetToSeq(S)[j] = SetToSeq(S)[k] => j = k
<1>1. Cardinality(S) \in Nat /\ ExistsBijection(1 .. Cardinality(S), S) BY FS_CardinalityType
<1>2. \E f \in [1 .. Cardinality(S) -> S] : IsInjective(f)
      BY <1>1 DEF ExistsBijection, Bijection, Injection
<1> DEFINE f == SetToSeq(S)
<1>3. f \in [1 .. Cardinality(S) -> S] /\ IsInjective(f) BY <1>2, Zenon DEF SetToSeq
<1> QED BY <1>1, <1>3 DEF IsInjective

LEMMA Listed ==
    ASSUME NEW S, NEW n \in Nat, NEW f, f = [k \in 1 .. n |-> f[k]], \A k \in 1 .. n : f[k] \in S
    PROVE  f \in Seq(S) /\ DOMAIN f = 1 .. n /\ Range(f) = {f[k] : k \in 1 .. n}
<1>1. DOMAIN f = 1 .. n OBVIOUS
<1>2. f \in [1 .. n -> S] OBVIOUS
<1>3. f \in Seq(S) BY <1>2
<1> QED BY <1>1, <1>3 DEF Range

LEMMA One ==
    ASSUME NEW S, NEW x \in S
    PROVE  <<x>> \in Seq(S) /\ Range(<<x>>) = {x}
<1>1. <<x>> \in Seq(S) /\ DOMAIN <<x>> = {1} /\ <<x>>[1] = x OBVIOUS
<1> QED BY <1>1 DEF Range

LEMMA None == ASSUME NEW S PROVE <<>> \in Seq(S) /\ Range(<<>>) = {}
BY DEF Range

-----------------------------------------------------------------------------
(* What the parts of the invariant rest on                                 *)

LEMMA RegistryInitially == RegistryInit => RegistryInv
<1> SUFFICES ASSUME RegistryInit PROVE RegistryInv OBVIOUS
<1> DEFINE load == [do |-> "load"]
<1>1. load \in TodoStatements /\ load.do = "load" BY DEF TodoStatements
<1> HIDE DEF load
<1>2. todo = [p \in RegistryProcesses |-> <<load>>] BY DEF RegistryInit, load
<1>4. \A p \in RegistryProcesses : Due(p) = {load} BY <1>1, <1>2, One DEF Due
<1>5. todo \in [RegistryProcesses -> Seq(TodoStatements)] BY <1>1, <1>2, One
<1>6. IsFiniteSet(listed) /\ Cardinality(listed) = 0 /\ Enabled = {} /\ IsFiniteSet(Enabled)
      BY FS_EmptySet DEF RegistryInit, Enabled
<1>7. /\ counting = [p \in RegistryProcesses |-> NotCounting]
      /\ NotCounting.words = {} /\ ~NotCounting.entry /\ NotCounting.read = Unread
      /\ NotCounting \in [words : SUBSET Words, entry : BOOLEAN, read : Nat \cup {Unread}]
      BY DEF RegistryInit, NotCounting, Unread
<1>8. RegistryTypeOK
  <2>1. frequency \in [Words -> Nat] /\ tools \in [ToolNames -> Nat] /\ total \in Nat
        BY DEF RegistryInit
  <2>2. counting \in [RegistryProcesses ->
                         [words : SUBSET Words, entry : BOOLEAN, read : Nat \cup {Unread}]]
        BY <1>7
  <2> QED BY <2>1, <2>2, RegistryAssumption DEF RegistryInit, RegistryTypeOK
<1>9. RegistryShape BY <1>5, <1>6, <1>8, None DEF RegistryInit, RegistryShape, RowsApart
<1>10. CountsAreDue
  <2>1. (\A w \in Words : WordDue(w) = {}) /\ EntryDue = {} BY <1>7 DEF WordDue, EntryDue
  <2>2. Cardinality({}) = 0 BY FS_EmptySet
  <2>3. \A w \in Words : frequency[w] = 0 BY DEF RegistryInit
  <2>4. \A p \in RegistryProcesses : counting[p] = NotCounting /\ counting[p].read = Unread
        BY <1>7
  <2>5. total = 0 BY DEF RegistryInit
  <2>6. \A w \in Words : frequency[w] + Cardinality(WordDue(w)) <= Cardinality(listed)
        BY <1>6, <2>1, <2>2, <2>3
  <2> QED BY <1>6, <2>1, <2>2, <2>4, <2>5, <2>6 DEF CountsAreDue
<1>11. \A p \in RegistryProcesses : StartingUp(p)
       BY <1>1, <1>4 DEF RegistryInit, StartingUp
<1> QED BY <1>9, <1>10, <1>11 DEF RegistryInv, Memory

\* A process goes on; of the others none has anything else in memory or to do, and they
\* all know it when the table has changed.
LEMMA OthersStay ==
    ASSUME RegistryInv, NEW p \in RegistryProcesses, Memory(p)',
           \A q \in RegistryProcesses \ {p} :
               /\ todo'[q] = todo[q] /\ adapters'[q] = adapters[q]
               /\ q \in stale => q \in stale'
               /\ Enabled' = Enabled \/ q \in stale'
    PROVE  \A q \in RegistryProcesses : Memory(q)'
<1> SUFFICES ASSUME NEW q \in RegistryProcesses \ {p} PROVE Memory(q)' OBVIOUS
<1>1. Due(q)' = Due(q) BY DEF Due
<1>2. Coming(q)' = Coming(q) /\ Leaving(q)' = Leaving(q) BY <1>1 DEF Coming, Leaving
<1>3. Touched(q)' = Touched(q) BY <1>2 DEF Touched
<1>4. CASE StartingUp(q) BY <1>1, <1>4 DEF StartingUp, Memory
<1>5. CASE CatchingUp(q)
  <2>1. q \notin stale' => WillBeTable(q)' BY <1>2, <1>3, <1>5 DEF CatchingUp, WillBeTable
  <2> QED BY <1>1, <1>5, <2>1 DEF CatchingUp, Memory
<1> QED BY <1>4, <1>5 DEF RegistryInv, Memory

\* Nothing that memory or the counts rest on has changed.
LEMMA MemoryStays ==
    ASSUME RegistryInv, UNCHANGED adapterVars
    PROVE  (\A p \in RegistryProcesses : Memory(p)') /\ Enabled' = Enabled
<1>1. Enabled' = Enabled BY DEF adapterVars, Enabled
<1> SUFFICES ASSUME NEW p \in RegistryProcesses PROVE Memory(p)' BY <1>1
<1>2. Due(p)' = Due(p) BY DEF adapterVars, Due
<1>3. Coming(p)' = Coming(p) /\ Leaving(p)' = Leaving(p) BY <1>2 DEF Coming, Leaving
<1>4. Touched(p)' = Touched(p) BY <1>3 DEF Touched
<1>5. StartingUp(p) => StartingUp(p)' BY <1>2 DEF adapterVars, StartingUp
<1>6. CatchingUp(p) => CatchingUp(p)'
      BY <1>1, <1>2, <1>3, <1>4 DEF adapterVars, CatchingUp, WillBeTable
<1> QED BY <1>5, <1>6 DEF RegistryInv, Memory

LEMMA CountsStay ==
    ASSUME RegistryInv, UNCHANGED <<counting, listed, frequency, total>>
    PROVE  CountsAreDue'
BY DEF RegistryInv, CountsAreDue, WordDue, EntryDue

\* Numbers and finite sets that the counts are about.
LEMMA CountsTyped ==
    ASSUME RegistryInv
    PROVE  /\ Cardinality(listed) \in Nat /\ total \in Nat /\ frequency \in [Words -> Nat]
           /\ IsFiniteSet(EntryDue) /\ Cardinality(EntryDue) \in Nat
           /\ \A w \in Words : IsFiniteSet(WordDue(w)) /\ Cardinality(WordDue(w)) \in Nat
           /\ \A p \in RegistryProcesses :
                 /\ counting[p].words \in SUBSET Words
                 /\ counting[p].read \in Nat \cup {Unread}
<1>1. IsFiniteSet(EntryDue) BY RegistryAssumption, FS_Subset DEF EntryDue
<1>2. \A w \in Words : IsFiniteSet(WordDue(w)) BY RegistryAssumption, FS_Subset DEF WordDue
<1>3. Cardinality(EntryDue) \in Nat BY <1>1, FS_CardinalityType
<1>4. \A w \in Words : Cardinality(WordDue(w)) \in Nat BY <1>2, FS_CardinalityType
<1>5. Cardinality(listed) \in Nat BY FS_CardinalityType DEF RegistryInv, RegistryShape
<1> QED BY <1>1, <1>2, <1>3, <1>4, <1>5 DEF RegistryInv, RegistryShape, RegistryTypeOK

\* An indexing that a process gives up leaves things uncounted.
LEMMA CountsDropped ==
    ASSUME RegistryInv, NEW p \in RegistryProcesses,
           counting' = [counting EXCEPT ![p] = NotCounting],
           UNCHANGED <<listed, frequency, total>>
    PROVE  CountsAreDue'
<1>1. /\ NotCounting.words = {} /\ ~NotCounting.entry /\ NotCounting.read = Unread
      BY DEF NotCounting
<1>2. /\ counting'[p] = NotCounting
      /\ \A q \in RegistryProcesses : q # p => counting'[q] = counting[q]
      BY DEF RegistryInv, RegistryShape, RegistryTypeOK
<1>3. EntryDue' = EntryDue \ {p} BY <1>1, <1>2, Zenon DEF EntryDue
<1>4. \A w \in Words : WordDue(w)' \subseteq WordDue(w) BY <1>1, <1>2 DEF WordDue
<1>5. Cardinality(EntryDue') \in Nat /\ Cardinality(EntryDue') <= Cardinality(EntryDue)
      BY <1>3, CountsTyped, FS_Subset, FS_CardinalityType
<1>6. \A w \in Words : Cardinality(WordDue(w)') \in Nat
                         /\ Cardinality(WordDue(w)') <= Cardinality(WordDue(w))
      BY <1>4, CountsTyped, FS_Subset, FS_CardinalityType
<1>7. \A w \in Words : frequency[w] + Cardinality(WordDue(w)') <= Cardinality(listed)
      BY <1>6, CountsTyped DEF RegistryInv, CountsAreDue
<1>8. total + Cardinality(EntryDue') <= Cardinality(listed)
      BY <1>5, CountsTyped DEF RegistryInv, CountsAreDue
<1>9. ASSUME NEW q \in RegistryProcesses
      PROVE  /\ counting'[q].read # Unread =>
                   /\ q \in EntryDue'
                   /\ counting'[q].read + Cardinality(EntryDue') <= Cardinality(listed)
             /\ q \notin EntryDue' => counting'[q] = NotCounting
  <2>1. CASE q = p BY <1>1, <1>2, <2>1
  <2>2. CASE q # p
    <3>1. counting'[q] = counting[q] /\ (q \in EntryDue' <=> q \in EntryDue)
          BY <1>2, <1>3, <2>2
    <3>2. counting[q].read # Unread => counting[q].read \in Nat BY CountsTyped
    <3> QED BY <1>5, <3>1, <3>2, CountsTyped DEF RegistryInv, CountsAreDue
  <2> QED BY <2>1, <2>2
<1> QED BY <1>7, <1>8, <1>9 DEF CountsAreDue

-----------------------------------------------------------------------------
(* The catalog                                                             *)

\* A statement of the indexing that inserts no entry.
LEMMA IndexingKeeps ==
    ASSUME RegistryInv, RegistryTypeOK', index' \in [RegistryProcesses -> Seq(IndexStatements)],
           UNCHANGED <<adapterVars, counting, listed, frequency, total>>
    PROVE  RegistryInv'
<1>1. (\A p \in RegistryProcesses : Memory(p)') /\ Enabled' = Enabled BY MemoryStays
<1>2. CountsAreDue' BY CountsStay
<1>3. RegistryShape' BY <1>1 DEF RegistryInv, RegistryShape, RowsApart, adapterVars
<1> QED BY <1>1, <1>2, <1>3 DEF RegistryInv

\* The statements that are due when the first of them is a given one.
LEMMA FirstOfIndex ==
    ASSUME RegistryInv, NEW p \in RegistryProcesses, NEW item, Indexing(p, item)
    PROVE  /\ Tail(index[p]) \in Seq(IndexStatements) /\ Head(index[p]) \in IndexStatements
           /\ Head(index[p]).do = item /\ counting[p] = NotCounting
           /\ \A more \in Seq(IndexStatements) :
                Indexes(p, more \o Tail(index[p])) =>
                    index' \in [RegistryProcesses -> Seq(IndexStatements)]
           /\ Indexes(p, Tail(index[p])) => index' \in [RegistryProcesses -> Seq(IndexStatements)]
<1>1. index \in [RegistryProcesses -> Seq(IndexStatements)] /\ index[p] # <<>>
      BY DEF RegistryInv, RegistryShape, Indexing
<1>2. PICK s \in Seq(IndexStatements) : s = index[p] /\ s # <<>> BY <1>1
<1>3. Tail(s) \in Seq(IndexStatements) /\ Head(s) \in IndexStatements BY <1>2, Popped
<1>4. PICK t \in Seq(IndexStatements) : t = Tail(s) BY <1>3
<1>5. \A more \in Seq(IndexStatements) : more \o t \in Seq(IndexStatements) BY Joined
<1> QED BY <1>1, <1>2, <1>3, <1>4, <1>5 DEF Indexing, Counted, Indexes

LEMMA FillCatalogTyped == FillCatalog \in Seq(IndexStatements)
<1>1. PICK n \in Nat : n = Cardinality(BuiltIn) BY RegistryAssumption, SetToSeqIs
<1>2. PICK order \in [1 .. n -> BuiltIn] : order = SetToSeq(BuiltIn)
      BY <1>1, RegistryAssumption, SetToSeqIs
<1>3. PICK s : s = [k \in 1 .. n |-> [do |-> "tool", def |-> order[k]]] OBVIOUS
<1>4. PICK filled : filled = [do |-> "filled"] OBVIOUS
<1>5. FillCatalog = s \o <<filled>> BY <1>1, <1>2, <1>3, <1>4 DEF FillCatalog
<1>6. \A k \in 1 .. n : s[k] \in IndexStatements BY <1>2, <1>3 DEF IndexStatements, CatalogTools
<1>7. s \in Seq(IndexStatements)
  <2>1. s = [k \in 1 .. n |-> s[k]] BY <1>3
  <2> QED BY <1>6, <2>1, Listed
<1>8. PICK last \in Seq(IndexStatements) : last = <<filled>>
  <2>1. filled \in IndexStatements BY <1>4 DEF IndexStatements
  <2> QED BY <2>1, One
<1>9. s \o last \in Seq(IndexStatements) BY <1>7, Joined
<1> QED BY <1>5, <1>8, <1>9

LEMMA EntriesTyped ==
    ASSUME NEW d \in CatalogTools, NEW n \in Nat
    PROVE  Entries(d, n) \in Seq(IndexStatements)
<1>1. IsFiniteSet(d.caps) BY RegistryAssumption DEF CatalogTools
<1>2. PICK m \in Nat : m = Cardinality(d.caps) BY <1>1, SetToSeqIs
<1>3. PICK order \in [1 .. m -> d.caps] : order = SetToSeq(d.caps) BY <1>1, <1>2, SetToSeqIs
<1>4. d.words \in SUBSET Words /\ d.name \in ToolNames
      /\ \A k \in 1 .. m : order[k] \in UNION {c.caps : c \in CatalogTools}
      BY <1>3 DEF Words, ToolNames, CatalogTools
<1> DEFINE Slot(k) == [tool |-> d.name, number |-> n, cap |-> order[k]]
<1>5. \A k \in 1 .. m : Slot(k) \in Slots BY <1>4 DEF Slots
<1> HIDE DEF Slot
<1>6. PICK s : s = [k \in 1 .. m |-> [do |-> "entry", words |-> d.words, slot |-> Slot(k)]] OBVIOUS
<1>7. Entries(d, n) = s BY <1>2, <1>3, <1>6 DEF Entries, Slot
<1>8. \A k \in 1 .. m : s[k] \in IndexStatements BY <1>4, <1>5, <1>6 DEF IndexStatements
<1>9. s = [k \in 1 .. m |-> s[k]] BY <1>6
<1> QED BY <1>7, <1>8, <1>9, Listed

LEMMA MakeCatalogKeeps ==
    ASSUME RegistryInv, NEW p \in RegistryProcesses, MakeCatalog(p) PROVE RegistryInv'
<1>1. index' \in [RegistryProcesses -> Seq(IndexStatements)]
      BY FirstOfIndex, FillCatalogTyped DEF MakeCatalog
<1>2. RegistryTypeOK'
      BY DEF MakeCatalog, RegistryInv, RegistryShape, RegistryTypeOK, adapterVars, statisticVars,
             registryBounds
<1> QED BY <1>1, <1>2, IndexingKeeps DEF MakeCatalog, statisticVars

LEMMA FilledKeeps ==
    ASSUME RegistryInv, NEW p \in RegistryProcesses, Filled(p) PROVE RegistryInv'
<1>1. index' \in [RegistryProcesses -> Seq(IndexStatements)] BY FirstOfIndex DEF Filled
<1>2. RegistryTypeOK'
      BY DEF Filled, RegistryInv, RegistryShape, RegistryTypeOK, adapterVars, statisticVars,
             registryBounds
<1> QED BY <1>1, <1>2, IndexingKeeps DEF Filled, statisticVars

LEMMA FindToolKeeps ==
    ASSUME RegistryInv, NEW p \in RegistryProcesses, FindTool(p) PROVE RegistryInv'
<1> DEFINE d == Head(index[p]).def
<1>1. Indexing(p, "tool") BY DEF FindTool
<1>2. d \in CatalogTools BY <1>1, FirstOfIndex, IndexFacts
<1>3. PICK more \in Seq(IndexStatements) : Indexes(p, more \o Tail(index[p]))
  <2>1. CASE \E n \in 1 .. tools[d.name] : Indexes(p, Entries(d, n) \o Tail(index[p]))
    <3>1. PICK n \in 1 .. tools[d.name] : Indexes(p, Entries(d, n) \o Tail(index[p])) BY <2>1
    <3>2. d.name \in ToolNames BY <1>2 DEF ToolNames, CatalogTools
    <3>3. n \in Nat BY <3>2 DEF RegistryInv, RegistryShape, RegistryTypeOK
    <3> QED BY <1>2, <3>1, <3>3, EntriesTyped
  <2>2. CASE Indexes(p, <<[do |-> "insertTool", def |-> d]>> \o Tail(index[p]))
    <3>1. [do |-> "insertTool", def |-> d] \in IndexStatements BY <1>2 DEF IndexStatements
    <3> QED BY <2>2, <3>1, One
  <2> QED BY <2>1, <2>2 DEF FindTool
<1>4. index' \in [RegistryProcesses -> Seq(IndexStatements)] BY <1>1, <1>3, FirstOfIndex
<1>5. RegistryTypeOK'
      BY DEF FindTool, RegistryInv, RegistryShape, RegistryTypeOK, adapterVars, statisticVars,
             registryBounds
<1> QED BY <1>4, <1>5, IndexingKeeps DEF FindTool, statisticVars

LEMMA InsertToolKeeps ==
    ASSUME RegistryInv, NEW p \in RegistryProcesses, InsertTool(p) PROVE RegistryInv'
<1> DEFINE d == Head(index[p]).def
<1>1. Indexing(p, "insertTool") /\ tools' = [tools EXCEPT ![d.name] = @ + 1] BY DEF InsertTool
<1>2. d \in CatalogTools BY <1>1, FirstOfIndex, IndexFacts
<1>3. d.name \in ToolNames BY <1>2 DEF ToolNames, CatalogTools
<1>4. tools \in [ToolNames -> Nat] BY DEF RegistryInv, RegistryShape, RegistryTypeOK
<1>5. tools' \in [ToolNames -> Nat] /\ tools[d.name] + 1 \in Nat BY <1>1, <1>3, <1>4
<1>6. Entries(d, tools[d.name] + 1) \in Seq(IndexStatements) BY <1>2, <1>5, EntriesTyped
<1>7. index' \in [RegistryProcesses -> Seq(IndexStatements)]
      BY <1>1, <1>6, FirstOfIndex DEF InsertTool
<1>8. RegistryTypeOK'
      BY <1>5 DEF InsertTool, RegistryInv, RegistryShape, RegistryTypeOK, adapterVars,
                  registryBounds
<1> QED BY <1>7, <1>8, IndexingKeeps DEF InsertTool

LEMMA FindEntryKeeps ==
    ASSUME RegistryInv, NEW p \in RegistryProcesses, FindEntry(p) PROVE RegistryInv'
<1> DEFINE e == Head(index[p])
<1>1. Indexing(p, "entry") BY DEF FindEntry
<1>2. e \in IndexStatements /\ e.do = "entry" BY <1>1, FirstOfIndex
<1>3. e \in [do : {"entry", "insert"}, words : SUBSET Words, slot : Slots]
      BY <1>2 DEF IndexStatements
<1>4. PICK i : i = [e EXCEPT !.do = "insert"] OBVIOUS
<1>5. i \in IndexStatements BY <1>3, <1>4 DEF IndexStatements
<1> HIDE DEF e
<1>6. PICK more \in Seq(IndexStatements) : more = IF Unlisted(e.slot) THEN <<i>> ELSE <<>>
      BY <1>5, One, None
<1>7. Indexes(p, more \o Tail(index[p])) BY <1>4, <1>6 DEF FindEntry, e
<1>8. index' \in [RegistryProcesses -> Seq(IndexStatements)] BY <1>1, <1>7, FirstOfIndex
<1>9. RegistryTypeOK'
      BY DEF FindEntry, RegistryInv, RegistryShape, RegistryTypeOK, adapterVars, statisticVars,
             registryBounds
<1> QED BY <1>8, <1>9, IndexingKeeps DEF FindEntry, statisticVars

-----------------------------------------------------------------------------
(* Counting                                                                *)

\* A statement that counts changes nothing of adapters, nor what is to be indexed.
LEMMA CountingKeeps ==
    ASSUME RegistryInv, RegistryTypeOK', CountsAreDue', IsFiniteSet(listed'),
           index' \in [RegistryProcesses -> Seq(IndexStatements)], UNCHANGED adapterVars
    PROVE  RegistryInv'
<1>1. (\A p \in RegistryProcesses : Memory(p)') /\ Enabled' = Enabled BY MemoryStays
<1>2. RegistryShape' BY <1>1 DEF RegistryInv, RegistryShape, RowsApart, adapterVars
<1> QED BY <1>1, <1>2 DEF RegistryInv

LEMMA NewEntryKeeps ==
    ASSUME RegistryInv, NEW p \in RegistryProcesses, NEW e \in IndexStatements, e.do = "insert",
           counting[p] = NotCounting, Unlisted(e.slot), listed' = listed \cup {e.slot},
           counting' = [counting EXCEPT
               ![p] = [words |-> e.words, entry |-> TRUE, read |-> Unread]],
           UNCHANGED <<frequency, total>>
    PROVE  CountsAreDue' /\ IsFiniteSet(listed')
           /\ counting' \in [RegistryProcesses ->
                                [words : SUBSET Words, entry : BOOLEAN, read : Nat \cup {Unread}]]
<1> DEFINE new == [words |-> e.words, entry |-> TRUE, read |-> Unread]
<1>1. e.words \in SUBSET Words BY IndexFacts
<1>2. /\ new \in [words : SUBSET Words, entry : BOOLEAN, read : Nat \cup {Unread}]
      /\ new.words \in SUBSET Words /\ new.entry /\ new.read = Unread
      BY <1>1
<1> HIDE DEF new
<1>3. /\ counting'[p] = new
      /\ \A q \in RegistryProcesses : q # p => counting'[q] = counting[q]
      /\ counting' \in [RegistryProcesses ->
                            [words : SUBSET Words, entry : BOOLEAN, read : Nat \cup {Unread}]]
      BY <1>2 DEF RegistryInv, RegistryShape, RegistryTypeOK, new
<1>4. IsFiniteSet(listed') /\ Cardinality(listed') = Cardinality(listed) + 1
      BY FS_AddElement DEF RegistryInv, RegistryShape, Unlisted
<1>5. p \notin EntryDue
  <2>1. NotCounting.entry = FALSE BY DEF NotCounting
  <2> QED BY <2>1, Zenon DEF EntryDue
<1>6. EntryDue' = EntryDue \cup {p} BY <1>2, <1>3, Zenon DEF EntryDue
<1>7. Cardinality(EntryDue') = Cardinality(EntryDue) + 1 /\ Cardinality(EntryDue') \in Nat
  <2>1. IsFiniteSet(EntryDue) /\ Cardinality(EntryDue) \in Nat BY CountsTyped
  <2>2. Cardinality(EntryDue \cup {p}) = Cardinality(EntryDue) + 1
        BY <1>5, <2>1, FS_AddElement
  <2> QED BY <1>6, <2>1, <2>2
<1>8. ASSUME NEW w \in Words
      PROVE  frequency[w] + Cardinality(WordDue(w)') <= Cardinality(listed')
  <2>1. WordDue(w)' \subseteq WordDue(w) \cup {p} BY <1>3 DEF WordDue
  <2>2. p \notin WordDue(w) BY DEF WordDue, NotCounting
  <2>3. /\ IsFiniteSet(WordDue(w) \cup {p})
        /\ Cardinality(WordDue(w) \cup {p}) = Cardinality(WordDue(w)) + 1
        BY <2>2, CountsTyped, FS_AddElement
  <2>4. /\ Cardinality(WordDue(w)') <= Cardinality(WordDue(w)) + 1
        /\ Cardinality(WordDue(w)') \in Nat
        BY <2>1, <2>3, FS_Subset, FS_CardinalityType
  <2>5. frequency[w] + Cardinality(WordDue(w)) <= Cardinality(listed)
        BY DEF RegistryInv, CountsAreDue
  <2> QED BY <1>4, <2>4, <2>5, CountsTyped
<1>9. total + Cardinality(EntryDue') <= Cardinality(listed')
      BY <1>4, <1>7, CountsTyped DEF RegistryInv, CountsAreDue
<1>10. ASSUME NEW q \in RegistryProcesses
       PROVE  /\ counting'[q].read # Unread =>
                    /\ q \in EntryDue'
                    /\ counting'[q].read + Cardinality(EntryDue') <= Cardinality(listed')
              /\ q \notin EntryDue' => counting'[q] = NotCounting
  <2>1. CASE q = p BY <1>2, <1>3, <1>6, <2>1
  <2>2. CASE q # p
    <3>1. counting'[q] = counting[q] /\ (q \in EntryDue' <=> q \in EntryDue)
          BY <1>3, <1>6, <2>2
    <3>2. counting[q].read # Unread => counting[q].read \in Nat BY CountsTyped
    <3> QED BY <1>4, <1>7, <3>1, <3>2, CountsTyped DEF RegistryInv, CountsAreDue
  <2> QED BY <2>1, <2>2
<1>11. CountsAreDue' BY <1>8, <1>9, <1>10 DEF CountsAreDue
<1> QED BY <1>3, <1>4, <1>11

LEMMA CountWordKeeps ==
    ASSUME RegistryInv, NEW p \in RegistryProcesses, CountWord(p) PROVE RegistryInv'
<1>1. PICK v \in counting[p].words : /\ frequency' = [frequency EXCEPT ![v] = @ + 1]
                                     /\ counting' = [counting EXCEPT ![p].words = @ \ {v}]
      BY DEF CountWord
<1>2. v \in Words BY CountsTyped
<1>3. counting[p] \in [words : SUBSET Words, entry : BOOLEAN, read : Nat \cup {Unread}]
      BY DEF RegistryInv, RegistryShape, RegistryTypeOK
<1>4. PICK less : less = [counting[p] EXCEPT !.words = @ \ {v}] OBVIOUS
<1>5. /\ less.words = counting[p].words \ {v} /\ less.entry = counting[p].entry
      /\ less.read = counting[p].read
      /\ less \in [words : SUBSET Words, entry : BOOLEAN, read : Nat \cup {Unread}]
      BY <1>3, <1>4
<1>6. counting' = [counting EXCEPT ![p] = less] BY <1>1, <1>4
<1>7. /\ counting'[p] = less /\ \A q \in RegistryProcesses : q # p => counting'[q] = counting[q]
      /\ counting' \in [RegistryProcesses ->
                            [words : SUBSET Words, entry : BOOLEAN, read : Nat \cup {Unread}]]
      BY <1>5, <1>6 DEF RegistryInv, RegistryShape, RegistryTypeOK
<1>8. EntryDue' = EntryDue BY <1>5, <1>7, Zenon DEF EntryDue
<1>9. p \in WordDue(v) /\ WordDue(v)' = WordDue(v) \ {p} BY <1>5, <1>7 DEF WordDue
<1>10. \A w \in Words : w # v => WordDue(w)' = WordDue(w) BY <1>5, <1>7 DEF WordDue
<1>11. Cardinality(WordDue(v)') = Cardinality(WordDue(v)) - 1
       BY <1>2, <1>9, CountsTyped, FS_RemoveElement
<1>12. /\ frequency' \in [Words -> Nat] /\ frequency'[v] = frequency[v] + 1
       /\ \A w \in Words : w # v => frequency'[w] = frequency[w]
       BY <1>1, <1>2, CountsTyped
<1>13. /\ index' = index /\ listed' = listed /\ total' = total /\ UNCHANGED adapterVars
       /\ UNCHANGED <<catalog, tools, registryBounds>>
       BY DEF CountWord
<1>14. ASSUME NEW w \in Words
       PROVE  frequency'[w] + Cardinality(WordDue(w)') <= Cardinality(listed')
  <2>1. frequency[w] + Cardinality(WordDue(w)) <= Cardinality(listed)
        BY DEF RegistryInv, CountsAreDue
  <2>2. frequency[w] \in Nat /\ Cardinality(WordDue(w)) \in Nat BY CountsTyped
  <2>3. CASE w = v BY <1>11, <1>12, <1>13, <2>1, <2>2, <2>3
  <2>4. CASE w # v BY <1>10, <1>12, <1>13, <2>1, <2>4
  <2> QED BY <2>3, <2>4
<1>15. ASSUME NEW q \in RegistryProcesses
       PROVE  /\ counting'[q].read = counting[q].read
              /\ q \notin EntryDue => counting'[q] = counting[q]
  <2>1. p \in EntryDue BY <1>1 DEF RegistryInv, CountsAreDue, NotCounting
  <2> QED BY <1>5, <1>7, <2>1
<1>16. CountsAreDue' BY <1>8, <1>13, <1>14, <1>15 DEF RegistryInv, CountsAreDue
<1>17. RegistryTypeOK'
       BY <1>7, <1>12, <1>13
       DEF RegistryInv, RegistryShape, RegistryTypeOK, adapterVars, registryBounds
<1> QED BY <1>13, <1>16, <1>17, CountingKeeps DEF RegistryInv, RegistryShape

LEMMA ReadTotalKeeps ==
    ASSUME RegistryInv, NEW p \in RegistryProcesses, ReadTotal(p) PROVE RegistryInv'
<1>1. /\ counting' = [counting EXCEPT ![p].read = total]
      /\ index' = index /\ UNCHANGED <<adapterVars, catalog, tools, listed, frequency, total,
                                       registryBounds>>
      BY DEF ReadTotal, statisticVars
<1>2. p \in EntryDue BY Zenon DEF ReadTotal, EntryDue
<1>3. counting[p] \in [words : SUBSET Words, entry : BOOLEAN, read : Nat \cup {Unread}]
      BY DEF RegistryInv, RegistryShape, RegistryTypeOK
<1>4. PICK got : got = [counting[p] EXCEPT !.read = total] OBVIOUS
<1>5. /\ got.words = counting[p].words /\ got.entry = counting[p].entry /\ got.read = total
      /\ got \in [words : SUBSET Words, entry : BOOLEAN, read : Nat \cup {Unread}]
      BY <1>3, <1>4, CountsTyped
<1>6. counting' = [counting EXCEPT ![p] = got] BY <1>1, <1>4
<1>7. /\ counting'[p] = got /\ \A q \in RegistryProcesses : q # p => counting'[q] = counting[q]
      /\ counting' \in [RegistryProcesses ->
                            [words : SUBSET Words, entry : BOOLEAN, read : Nat \cup {Unread}]]
      BY <1>5, <1>6 DEF RegistryInv, RegistryShape, RegistryTypeOK
<1>8. EntryDue' = EntryDue BY <1>5, <1>7, Zenon DEF EntryDue
<1>9. \A w \in Words : WordDue(w)' = WordDue(w) BY <1>5, <1>7 DEF WordDue
<1>10. ASSUME NEW q \in RegistryProcesses
       PROVE  /\ counting'[q].read # Unread =>
                    /\ q \in EntryDue
                    /\ counting'[q].read + Cardinality(EntryDue) <= Cardinality(listed)
              /\ q \notin EntryDue => counting'[q] = NotCounting
  <2>1. CASE q = p BY <1>2, <1>5, <1>7, <2>1 DEF RegistryInv, CountsAreDue
  <2>2. CASE q # p BY <1>7, <2>2 DEF RegistryInv, CountsAreDue
  <2> QED BY <2>1, <2>2
<1>11. CountsAreDue' BY <1>1, <1>8, <1>9, <1>10 DEF RegistryInv, CountsAreDue
<1>12. RegistryTypeOK'
       BY <1>1, <1>7 DEF RegistryInv, RegistryShape, RegistryTypeOK, adapterVars, registryBounds
<1> QED BY <1>1, <1>11, <1>12, CountingKeeps DEF RegistryInv, RegistryShape

LEMMA WriteTotalKeeps ==
    ASSUME RegistryInv, NEW p \in RegistryProcesses, WriteTotal(p) PROVE RegistryInv'
<1>1. /\ counting[p].read # Unread /\ total' = counting[p].read + 1
      /\ counting' = [counting EXCEPT ![p] = NotCounting]
      /\ index' = index /\ UNCHANGED <<adapterVars, catalog, tools, listed, frequency,
                                       registryBounds>>
      BY DEF WriteTotal
<1>2. /\ counting[p].read \in Nat /\ p \in EntryDue
      /\ counting[p].read + Cardinality(EntryDue) <= Cardinality(listed)
      BY <1>1, CountsTyped DEF RegistryInv, CountsAreDue
<1>3. /\ NotCounting.words = {} /\ ~NotCounting.entry /\ NotCounting.read = Unread
      /\ NotCounting \in [words : SUBSET Words, entry : BOOLEAN, read : Nat \cup {Unread}]
      BY DEF NotCounting
<1>4. /\ counting'[p] = NotCounting
      /\ \A q \in RegistryProcesses : q # p => counting'[q] = counting[q]
      /\ counting' \in [RegistryProcesses ->
                            [words : SUBSET Words, entry : BOOLEAN, read : Nat \cup {Unread}]]
      BY <1>1, <1>3 DEF RegistryInv, RegistryShape, RegistryTypeOK
<1>5. EntryDue' = EntryDue \ {p} BY <1>3, <1>4, Zenon DEF EntryDue
<1>6. Cardinality(EntryDue') = Cardinality(EntryDue) - 1
      BY <1>2, <1>5, CountsTyped, FS_RemoveElement
<1>7. \A w \in Words : /\ Cardinality(WordDue(w)') \in Nat
                       /\ Cardinality(WordDue(w)') <= Cardinality(WordDue(w))
  <2>1. \A w \in Words : WordDue(w)' \subseteq WordDue(w) BY <1>3, <1>4 DEF WordDue
  <2> QED BY <2>1, CountsTyped, FS_Subset, FS_CardinalityType
<1>8. \A w \in Words : frequency[w] + Cardinality(WordDue(w)') <= Cardinality(listed)
      BY <1>7, CountsTyped DEF RegistryInv, CountsAreDue
<1>9. total' + Cardinality(EntryDue') <= Cardinality(listed)
      BY <1>1, <1>2, <1>6, CountsTyped
<1>10. ASSUME NEW q \in RegistryProcesses
       PROVE  /\ counting'[q].read # Unread =>
                    /\ q \in EntryDue'
                    /\ counting'[q].read + Cardinality(EntryDue') <= Cardinality(listed)
              /\ q \notin EntryDue' => counting'[q] = NotCounting
  <2>1. CASE q = p BY <1>3, <1>4, <2>1
  <2>2. CASE q # p
    <3>1. counting'[q] = counting[q] /\ (q \in EntryDue' <=> q \in EntryDue)
          BY <1>4, <1>5, <2>2
    <3>2. counting[q].read # Unread => counting[q].read \in Nat BY CountsTyped
    <3> QED BY <1>6, <3>1, <3>2, CountsTyped DEF RegistryInv, CountsAreDue
  <2> QED BY <2>1, <2>2
<1>11. CountsAreDue' BY <1>1, <1>8, <1>9, <1>10 DEF CountsAreDue
<1>12. RegistryTypeOK'
       BY <1>1, <1>2, <1>4
       DEF RegistryInv, RegistryShape, RegistryTypeOK, adapterVars, registryBounds
<1> QED BY <1>1, <1>11, <1>12, CountingKeeps DEF RegistryInv, RegistryShape

\* The process goes, and with it whatever it had in memory and was to do.
LEMMA RestartLoads ==
    ASSUME RegistryInv, NEW p \in RegistryProcesses, Restart(p), stale' = stale, table' = table
    PROVE  /\ \A q \in RegistryProcesses : Memory(q)'
           /\ todo' \in [RegistryProcesses -> Seq(TodoStatements)]
           /\ adapters' \in [RegistryProcesses -> SUBSET Definitions]
           /\ ready' \in [RegistryProcesses -> BOOLEAN]
           /\ catalog' \in [RegistryProcesses -> {"none", "made", "filled"}]
<1> DEFINE load == [do |-> "load"]
<1>1. load \in TodoStatements /\ load.do = "load" BY DEF TodoStatements
<1>2. todo' = [todo EXCEPT ![p] = <<load>>] /\ adapters' = [adapters EXCEPT ![p] = {}]
      BY DEF Restart, Goes
<1> HIDE DEF load
<1>3. <<load>> \in Seq(TodoStatements) /\ Range(<<load>>) = {load} BY <1>1, One
<1>4. /\ todo \in [RegistryProcesses -> Seq(TodoStatements)]
      /\ adapters \in [RegistryProcesses -> SUBSET Definitions]
      /\ ready \in [RegistryProcesses -> BOOLEAN]
      /\ catalog \in [RegistryProcesses -> {"none", "made", "filled"}]
      BY DEF RegistryInv, RegistryShape, RegistryTypeOK
<1>5. /\ todo'[p] = <<load>> /\ adapters'[p] = {}
      /\ \A q \in RegistryProcesses \ {p} : todo'[q] = todo[q] /\ adapters'[q] = adapters[q]
      /\ todo' \in [RegistryProcesses -> Seq(TodoStatements)]
      /\ adapters' \in [RegistryProcesses -> SUBSET Definitions]
      BY <1>2, <1>3, <1>4
<1>6. /\ ready' \in [RegistryProcesses -> BOOLEAN]
      /\ catalog' \in [RegistryProcesses -> {"none", "made", "filled"}]
      BY <1>4 DEF Restart
<1>7. Due(p)' = {load} BY <1>3, <1>5 DEF Due
<1>8. Memory(p)' BY <1>1, <1>5, <1>7 DEF Memory, StartingUp
<1>9. Enabled' = Enabled BY DEF Enabled
<1> QED BY <1>5, <1>6, <1>8, <1>9, OthersStay

LEMMA StopsKeeps ==
    ASSUME RegistryInv, NEW p \in RegistryProcesses, IndexingStops(p),
           UNCHANGED registrations, registryFaults' \in 0 .. MaxRegistryFaults
    PROVE  RegistryInv'
<1>1. /\ index' = [index EXCEPT ![p] = <<>>] /\ counting' = [counting EXCEPT ![p] = NotCounting]
      /\ UNCHANGED <<table, stale, tools, listed, frequency, total>>
      BY DEF IndexingStops, Indexes, statisticVars
<1>2. CountsAreDue' BY <1>1, CountsDropped
<1>3. index' \in [RegistryProcesses -> Seq(IndexStatements)]
      BY <1>1, None DEF RegistryInv, RegistryShape
<1>4. NotCounting \in [words : SUBSET Words, entry : BOOLEAN, read : Nat \cup {Unread}]
      BY DEF NotCounting
<1>5. counting' \in [RegistryProcesses ->
                       [words : SUBSET Words, entry : BOOLEAN, read : Nat \cup {Unread}]]
      BY <1>1, <1>4 DEF RegistryInv, RegistryShape, RegistryTypeOK
<1>6. /\ \A q \in RegistryProcesses : Memory(q)'
      /\ todo' \in [RegistryProcesses -> Seq(TodoStatements)]
      /\ adapters' \in [RegistryProcesses -> SUBSET Definitions]
      /\ ready' \in [RegistryProcesses -> BOOLEAN]
      /\ catalog' \in [RegistryProcesses -> {"none", "made", "filled"}]
  <2>1. CASE Restart(p) BY <1>1, <2>1, RestartLoads
  <2>2. CASE UNCHANGED <<adapters, ready, catalog, todo>>
    <3>1. UNCHANGED adapterVars BY <1>1, <2>2 DEF adapterVars
    <3> QED BY <2>2, <3>1, MemoryStays DEF RegistryInv, RegistryShape, RegistryTypeOK
  <2> QED BY <2>1, <2>2 DEF IndexingStops
<1>7. Enabled' = Enabled BY <1>1 DEF Enabled
<1>8. RegistryTypeOK'
      BY <1>1, <1>5, <1>6 DEF RegistryInv, RegistryShape, RegistryTypeOK
<1> QED BY <1>1, <1>2, <1>3, <1>6, <1>7, <1>8 DEF RegistryInv, RegistryShape, RowsApart

LEMMA InsertEntryKeeps ==
    ASSUME RegistryInv, NEW p \in RegistryProcesses, InsertEntry(p) PROVE RegistryInv'
<1> DEFINE e == Head(index[p])
<1>1. Indexing(p, "insert") /\ UNCHANGED registryBounds BY DEF InsertEntry
<1>2. e \in IndexStatements /\ e.do = "insert" /\ counting[p] = NotCounting
      BY <1>1, FirstOfIndex
<1>3. CASE IndexingStops(p)
      BY <1>1, <1>3, StopsKeeps DEF registryBounds, RegistryInv, RegistryShape, RegistryTypeOK
<1>4. CASE /\ Unlisted(e.slot) /\ listed' = listed \cup {e.slot}
           /\ counting' = [counting EXCEPT
                  ![p] = [words |-> e.words, entry |-> TRUE, read |-> Unread]]
           /\ Indexes(p, Tail(index[p]))
           /\ UNCHANGED <<adapterVars, catalog, tools, frequency, total>>
  <2> HIDE DEF e
  <2>1. CountsAreDue' /\ IsFiniteSet(listed')
        /\ counting' \in [RegistryProcesses ->
                             [words : SUBSET Words, entry : BOOLEAN, read : Nat \cup {Unread}]]
        BY <1>2, <1>4, NewEntryKeeps
  <2>2. index' \in [RegistryProcesses -> Seq(IndexStatements)] BY <1>1, <1>4, FirstOfIndex
  <2>3. RegistryTypeOK'
        BY <1>1, <1>4, <2>1
        DEF RegistryInv, RegistryShape, RegistryTypeOK, adapterVars, registryBounds
  <2> QED BY <1>4, <2>1, <2>2, <2>3, CountingKeeps
<1> QED BY <1>3, <1>4 DEF InsertEntry

LEMMA StatementFailsKeeps ==
    ASSUME RegistryInv, NEW p \in RegistryProcesses, StatementFails(p) PROVE RegistryInv'
<1>1. registryFaults' \in 0 .. MaxRegistryFaults
      BY RegistryAssumption DEF StatementFails, RegistryInv, RegistryShape, RegistryTypeOK
<1> QED BY <1>1, StopsKeeps DEF StatementFails

LEMMA RegistryCrashKeeps ==
    ASSUME RegistryInv, NEW p \in RegistryProcesses, RegistryCrash(p) PROVE RegistryInv'
<1>1. /\ index' = [index EXCEPT ![p] = <<>>] /\ counting' = [counting EXCEPT ![p] = NotCounting]
      /\ Restart(p) /\ UNCHANGED <<table, stale, tools, listed, frequency, total, registrations>>
      BY DEF RegistryCrash, Indexes, statisticVars
<1>2. CountsAreDue' BY <1>1, CountsDropped
<1>3. index' \in [RegistryProcesses -> Seq(IndexStatements)]
      BY <1>1, None DEF RegistryInv, RegistryShape
<1>4. NotCounting \in [words : SUBSET Words, entry : BOOLEAN, read : Nat \cup {Unread}]
      BY DEF NotCounting
<1>5. counting' \in [RegistryProcesses ->
                       [words : SUBSET Words, entry : BOOLEAN, read : Nat \cup {Unread}]]
      BY <1>1, <1>4 DEF RegistryInv, RegistryShape, RegistryTypeOK
<1>6. registryFaults' \in 0 .. MaxRegistryFaults
      BY RegistryAssumption DEF RegistryCrash, RegistryInv, RegistryShape, RegistryTypeOK
<1>7. Enabled' = Enabled BY <1>1 DEF Enabled
<1>8. /\ \A q \in RegistryProcesses : Memory(q)'
      /\ todo' \in [RegistryProcesses -> Seq(TodoStatements)]
      /\ adapters' \in [RegistryProcesses -> SUBSET Definitions]
      /\ ready' \in [RegistryProcesses -> BOOLEAN]
      /\ catalog' \in [RegistryProcesses -> {"none", "made", "filled"}]
      BY <1>1, RestartLoads
<1>9. RegistryTypeOK'
      BY <1>1, <1>5, <1>6, <1>8 DEF RegistryInv, RegistryShape, RegistryTypeOK
<1> QED BY <1>1, <1>2, <1>3, <1>7, <1>8, <1>9 DEF RegistryInv, RegistryShape, RowsApart

-----------------------------------------------------------------------------
(* Adapters                                                                *)

LEMMA TodoKeeps ==
    ASSUME RegistryInv, RegistryTypeOK', todo' \in [RegistryProcesses -> Seq(TodoStatements)],
           index' \in [RegistryProcesses -> Seq(IndexStatements)],
           IsFiniteSet(Enabled'), RowsApart', \A p \in RegistryProcesses : Memory(p)',
           UNCHANGED <<counting, listed, frequency, total>>
    PROVE  RegistryInv'
BY CountsStay DEF RegistryInv, RegistryShape

LEMMA GoesOn ==
    ASSUME RegistryInv, NEW p \in RegistryProcesses, NEW s \in Seq(TodoStatements), Goes(p, s)
    PROVE  /\ todo' \in [RegistryProcesses -> Seq(TodoStatements)] /\ Due(p)' = Range(s)
           /\ \A q \in RegistryProcesses \ {p} : todo'[q] = todo[q]
BY DEF RegistryInv, RegistryShape, Goes, Due

LEMMA FirstOfTodo ==
    ASSUME RegistryInv, NEW p \in RegistryProcesses, NEW item, Doing(p, item)
    PROVE  /\ Tail(todo[p]) \in Seq(TodoStatements) /\ Head(todo[p]) \in TodoStatements
           /\ Head(todo[p]).do = item /\ Head(todo[p]) \in Due(p)
           /\ Due(p) = {Head(todo[p])} \cup Range(Tail(todo[p]))
<1>1. todo[p] \in Seq(TodoStatements) /\ todo[p] # <<>>
      BY DEF RegistryInv, RegistryShape, Doing
<1>2. PICK s \in Seq(TodoStatements) : s = todo[p] /\ s # <<>> BY <1>1
<1>3. /\ Tail(s) \in Seq(TodoStatements) /\ Head(s) \in TodoStatements /\ Head(s) \in Range(s)
      /\ Range(s) = {Head(s)} \cup Range(Tail(s))
      BY <1>2, Popped
<1> QED BY <1>2, <1>3 DEF Doing, Due

\* A statement that neither loads nor sets nor deletes an adapter, and is done or is not.
LEMMA IdleStatement ==
    ASSUME RegistryInv, NEW p \in RegistryProcesses, NEW item, Doing(p, item),
           item \in {"ready", "integrations"},
           Goes(p, Tail(todo[p])) \/ todo' = todo, UNCHANGED <<table, adapters, stale>>
    PROVE  /\ todo' \in [RegistryProcesses -> Seq(TodoStatements)]
           /\ \A q \in RegistryProcesses : Memory(q)'
<1>1. Enabled' = Enabled BY DEF Enabled
<1>2. CASE Goes(p, Tail(todo[p]))
  <2>1. /\ Head(todo[p]).do = item /\ Head(todo[p]) \in Due(p)
        /\ Due(p) = {Head(todo[p])} \cup Due(p)'
        /\ todo' \in [RegistryProcesses -> Seq(TodoStatements)]
        /\ \A q \in RegistryProcesses \ {p} : todo'[q] = todo[q]
        BY <1>2, FirstOfTodo, GoesOn
  <2>2. CatchingUp(p) BY <2>1 DEF RegistryInv, Memory, StartingUp
  <2>3. /\ {y \in Due(p) : y.do = "adapter"}' = {y \in Due(p) : y.do = "adapter"}
        /\ {y \in Due(p) : y.do = "delete"}' = {y \in Due(p) : y.do = "delete"}
        BY <2>1
  <2>4. Coming(p)' = Coming(p) /\ Leaving(p)' = Leaving(p) BY <2>3 DEF Coming, Leaving
  <2>5. Touched(p)' = Touched(p) BY <2>4 DEF Touched
  <2>6. CatchingUp(p)' BY <1>1, <2>1, <2>2, <2>4, <2>5 DEF CatchingUp, WillBeTable
  <2> QED BY <1>1, <2>1, <2>6, OthersStay DEF Memory
<1>3. CASE todo' = todo
  <2>1. Due(p)' = Due(p) BY <1>3 DEF Due
  <2>2. Coming(p)' = Coming(p) /\ Leaving(p)' = Leaving(p) BY <2>1 DEF Coming, Leaving
  <2>3. Touched(p)' = Touched(p) BY <2>2 DEF Touched
  <2>4. Memory(p)' BY <1>1, <2>1, <2>2, <2>3
                   DEF RegistryInv, Memory, StartingUp, CatchingUp, WillBeTable
  <2> QED BY <1>1, <1>3, <2>4, OthersStay DEF RegistryInv, RegistryShape
<1> QED BY <1>2, <1>3

LEMMA ReadyKeeps == ASSUME RegistryInv, NEW p \in RegistryProcesses, Ready(p) PROVE RegistryInv'
<1>1. /\ todo' \in [RegistryProcesses -> Seq(TodoStatements)]
      /\ \A q \in RegistryProcesses : Memory(q)'
      BY IdleStatement DEF Ready
<1>2. RegistryTypeOK'
      BY DEF Ready, RegistryInv, RegistryShape, RegistryTypeOK, catalogVars, statisticVars,
             registryBounds
<1>3. Enabled' = Enabled BY DEF Ready, Enabled
<1> QED BY <1>1, <1>2, <1>3, TodoKeeps
        DEF Ready, RegistryInv, RegistryShape, RowsApart, catalogVars, statisticVars

LEMMA IntegrationsKeeps ==
    ASSUME RegistryInv, NEW p \in RegistryProcesses, Integrations(p) PROVE RegistryInv'
<1>1. /\ Doing(p, "integrations")
      /\ UNCHANGED <<table, adapters, ready, stale, counting, statisticVars, registryBounds>>
      BY DEF Integrations
<1>2. Goes(p, Tail(todo[p])) \/ todo' = todo BY DEF Integrations
<1>3. /\ todo' \in [RegistryProcesses -> Seq(TodoStatements)]
      /\ \A q \in RegistryProcesses : Memory(q)'
      BY <1>1, <1>2, IdleStatement
<1>4. /\ index' \in [RegistryProcesses -> Seq(IndexStatements)]
      /\ catalog' \in [RegistryProcesses -> {"none", "made", "filled"}]
      BY FillCatalogTyped DEF Integrations, Indexes, RegistryInv, RegistryShape, RegistryTypeOK
<1>5. RegistryTypeOK'
      BY <1>1, <1>4 DEF RegistryInv, RegistryShape, RegistryTypeOK, statisticVars, registryBounds
<1>6. Enabled' = Enabled BY <1>1 DEF Enabled
<1> QED BY <1>1, <1>3, <1>4, <1>5, <1>6, TodoKeeps
        DEF RegistryInv, RegistryShape, RowsApart, statisticVars

LEMMA LoadKeeps == ASSUME RegistryInv, NEW p \in RegistryProcesses, Load(p) PROVE RegistryInv'
<1>1. /\ Doing(p, "load") /\ UNCHANGED <<table, adapters, ready, catalogVars, registryBounds>>
      BY DEF Load
<1>2. StartingUp(p)
      BY <1>1, FirstOfTodo DEF RegistryInv, Memory, CatchingUp
<1>3. Enabled' = Enabled BY <1>1 DEF Enabled
<1>4. SUFFICES /\ todo' \in [RegistryProcesses -> Seq(TodoStatements)]
               /\ stale' \subseteq RegistryProcesses /\ \A q \in RegistryProcesses : Memory(q)'
  <2>1. RegistryTypeOK'
        BY <1>1, <1>4
        DEF RegistryInv, RegistryShape, RegistryTypeOK, catalogVars, statisticVars, registryBounds
  <2> QED BY <1>1, <1>3, <1>4, <2>1, TodoKeeps
          DEF RegistryInv, RegistryShape, RowsApart, catalogVars, statisticVars
<1>5. CASE Enabled = {}
  <2>1. Defaults \in Seq(Definitions) BY RegistryAssumption
  <2>2. PICK n \in Nat : n = Len(Defaults) /\ DOMAIN Defaults = 1 .. n
                         /\ \A k \in 1 .. n : Defaults[k] \in Definitions
        BY <2>1
  <2>3. PICK s : s = [k \in 1 .. n |-> [do |-> "default", def |-> Defaults[k]]] OBVIOUS
  <2>4. PICK load : load = [do |-> "load"] OBVIOUS
  <2>5. Goes(p, s \o <<load>>) /\ stale' = stale BY <1>5, <2>2, <2>3, <2>4 DEF Load
  <2>6. \A k \in 1 .. n : s[k] = [do |-> "default", def |-> Defaults[k]]
                         /\ s[k] \in TodoStatements
        BY <2>2, <2>3 DEF TodoStatements
  <2>7. s \in Seq(TodoStatements) /\ Range(s) = {s[k] : k \in 1 .. n}
    <3>1. s = [k \in 1 .. n |-> s[k]] BY <2>3
    <3> QED BY <2>6, <3>1, Listed
  <2>8. ASSUME NEW x \in Range(s) PROVE x.do = "default"
    <3>1. PICK k \in 1 .. n : x = s[k] BY <2>7
    <3>2. x = [do |-> "default", def |-> Defaults[k]] BY <2>6, <3>1
    <3> QED BY <3>2
  <2>9. load \in TodoStatements /\ load.do = "load" BY <2>4 DEF TodoStatements
  <2>10. PICK last \in Seq(TodoStatements) : last = <<load>> /\ Range(last) = {load}
         BY <2>9, One
  <2>11. s \o last \in Seq(TodoStatements) /\ Range(s \o last) = Range(s) \cup {load}
         BY <2>7, <2>10, Joined
  <2>12. /\ todo' \in [RegistryProcesses -> Seq(TodoStatements)] /\ Due(p)' = Range(s) \cup {load}
         /\ \A q \in RegistryProcesses \ {p} : todo'[q] = todo[q]
         BY <2>5, <2>10, <2>11, GoesOn
  <2>13. StartingUp(p)' BY <1>1, <1>2, <2>8, <2>9, <2>12 DEF StartingUp
  <2>14. \A q \in RegistryProcesses : Memory(q)'
         BY <1>1, <1>3, <2>5, <2>12, <2>13, OthersStay DEF Memory
  <2> QED BY <2>5, <2>12, <2>14 DEF RegistryInv, RegistryShape, RegistryTypeOK
<1>6. CASE Enabled # {}
  <2>1. PICK order \in Bijection(1 .. Cardinality(Enabled), Enabled) :
           Goes(p, [k \in DOMAIN order |-> [do |-> "adapter", def |-> order[k]]]
                       \o <<[do |-> "ready"]>>)
        BY <1>6 DEF Load
  <2>2. PICK n \in Nat : n = Cardinality(Enabled)
        BY FS_CardinalityType DEF RegistryInv, RegistryShape
  <2>3. order \in [1 .. n -> Enabled] /\ \A a \in Enabled : \E k \in 1 .. n : order[k] = a
        BY <2>1, <2>2 DEF Bijection, Injection, Surjection
  <2>4. PICK s : s = [k \in 1 .. n |-> [do |-> "adapter", def |-> order[k]]] OBVIOUS
  <2>5. PICK end : end = [do |-> "ready"] OBVIOUS
  <2>6. Goes(p, s \o <<end>>) /\ stale' = stale \ {p} BY <1>6, <2>1, <2>3, <2>4, <2>5 DEF Load
  <2>7. Enabled \subseteq Definitions BY DEF RegistryInv, RegistryShape, RegistryTypeOK, Enabled
  <2>8. \A k \in 1 .. n : s[k] = [do |-> "adapter", def |-> order[k]]
                         /\ s[k] \in TodoStatements
        BY <2>3, <2>4, <2>7 DEF TodoStatements
  <2>9. s \in Seq(TodoStatements) /\ Range(s) = {s[k] : k \in 1 .. n}
    <3>1. s = [k \in 1 .. n |-> s[k]] BY <2>4
    <3> QED BY <2>8, <3>1, Listed
  <2>10. ASSUME NEW x \in Range(s) PROVE x.do = "adapter" /\ x.def \in Enabled
    <3>1. PICK k \in 1 .. n : x = s[k] BY <2>9
    <3>2. x = [do |-> "adapter", def |-> order[k]] BY <2>8, <3>1
    <3> QED BY <2>3, <3>2
  <2>11. end \in TodoStatements /\ end.do = "ready" BY <2>5 DEF TodoStatements
  <2>12. PICK last \in Seq(TodoStatements) : last = <<end>> /\ Range(last) = {end}
         BY <2>11, One
  <2>13. s \o last \in Seq(TodoStatements) /\ Range(s \o last) = Range(s) \cup {end}
    <3>1. s \o last \in Seq(TodoStatements) /\ Range(s \o last) = Range(s) \cup Range(last)
          BY <2>9, Joined
    <3> QED BY <2>12, <3>1
  <2>14. /\ todo' \in [RegistryProcesses -> Seq(TodoStatements)] /\ Due(p)' = Range(s) \cup {end}
         /\ \A q \in RegistryProcesses \ {p} : todo'[q] = todo[q]
         BY <2>6, <2>12, <2>13, GoesOn
  <2>15. \A x \in Due(p)' : x.do \in {"adapter", "ready"} BY <2>10, <2>11, <2>14
  <2>16. Coming(p)' = Enabled
    <3>1. Coming(p)' \subseteq Enabled BY <2>10, <2>11, <2>14 DEF Coming
    <3>2. ASSUME NEW a \in Enabled PROVE a \in Coming(p)'
      <4>1. PICK k \in 1 .. n : order[k] = a BY <2>3
      <4>2. s[k] \in Due(p)' /\ s[k] = [do |-> "adapter", def |-> a] BY <2>8, <2>9, <2>14, <4>1
      <4>3. s[k].do = "adapter" /\ s[k].def = a BY <4>2
      <4> QED BY <4>2, <4>3 DEF Coming
    <3> QED BY <3>1, <3>2
  <2>17. Leaving(p)' = {} BY <2>15 DEF Leaving
  <2>18. WillBeTable(p)' BY <1>1, <1>2, <1>3, <2>16, <2>17 DEF StartingUp, WillBeTable
  <2>19. CatchingUp(p)' BY <2>15, <2>18 DEF CatchingUp
  <2>20. \A q \in RegistryProcesses : Memory(q)'
         BY <1>1, <1>3, <2>6, <2>14, <2>19, OthersStay DEF Memory
  <2> QED BY <2>6, <2>14, <2>20 DEF RegistryInv, RegistryShape, RegistryTypeOK
<1> QED BY <1>5, <1>6

\* What the others know of a change.
LEMMA TableChanges ==
    ASSUME RegistryInv, NEW p \in RegistryProcesses, NEW made, ChangesTable(p, made)
    PROVE  /\ table' = made /\ stale' \subseteq RegistryProcesses
           /\ p \in stale <=> p \in stale'
           /\ \A q \in RegistryProcesses \ {p} : /\ q \in stale => q \in stale'
                                                 /\ Enabled' = Enabled \/ q \in stale'
<1>1. table' = made /\ stale' = IF made = table THEN stale ELSE stale \cup (RegistryProcesses \ {p})
      BY DEF ChangesTable
<1>2. stale \subseteq RegistryProcesses BY DEF RegistryInv, RegistryShape, RegistryTypeOK
<1>3. made = table => Enabled' = Enabled BY <1>1 DEF Enabled
<1> QED BY <1>1, <1>2, <1>3

LEMMA DefaultKeeps == ASSUME RegistryInv, NEW p \in RegistryProcesses, Default(p) PROVE RegistryInv'
<1> DEFINE d == Head(todo[p]).def
           fresh == [def |-> d, enabled |-> TRUE]
           made == IF \E old \in table : old.def.id = d.id THEN table ELSE table \cup {fresh}
<1>1. /\ Doing(p, "default") /\ ChangesTable(p, made) /\ Goes(p, Tail(todo[p]))
      /\ UNCHANGED <<adapters, ready, catalogVars, registryBounds>>
      BY DEF Default
<1>2. /\ Head(todo[p]).do = "default" /\ Head(todo[p]) \in Due(p)
      /\ Due(p) = {Head(todo[p])} \cup Due(p)'
      /\ todo' \in [RegistryProcesses -> Seq(TodoStatements)]
      /\ \A q \in RegistryProcesses \ {p} : todo'[q] = todo[q]
      BY <1>1, FirstOfTodo, GoesOn
<1>3. d \in Definitions BY <1>1, FirstOfTodo, TodoFacts
<1>4. /\ fresh \in [def : Definitions, enabled : BOOLEAN] /\ fresh.def = d
      /\ \/ made = table
         \/ made = table \cup {fresh} /\ \A old \in table : old.def.id # fresh.def.id
      BY <1>3
<1> HIDE DEF d, fresh, made
<1>5. /\ table' = made /\ stale' \subseteq RegistryProcesses
      /\ \A q \in RegistryProcesses \ {p} : /\ q \in stale => q \in stale'
                                            /\ Enabled' = Enabled \/ q \in stale'
      BY <1>1, TableChanges
<1>6. StartingUp(p) BY <1>2 DEF RegistryInv, Memory, CatchingUp
<1>7. StartingUp(p)' BY <1>1, <1>2, <1>6 DEF StartingUp
<1>8. \A q \in RegistryProcesses : Memory(q)'
      BY <1>1, <1>2, <1>5, <1>7, OthersStay DEF Memory
<1>9. RowsApart' BY <1>4, <1>5 DEF RegistryInv, RegistryShape, RowsApart
<1>10. RegistryTypeOK'
       BY <1>1, <1>4, <1>5
       DEF RegistryInv, RegistryShape, RegistryTypeOK, catalogVars, statisticVars, registryBounds
<1>11. IsFiniteSet(Enabled')
  <2>1. Enabled' \subseteq Enabled \cup {d} BY <1>4, <1>5 DEF Enabled
  <2> QED BY <2>1, FS_AddElement, FS_Subset DEF RegistryInv, RegistryShape
<1> QED BY <1>1, <1>2, <1>8, <1>9, <1>10, <1>11, TodoKeeps
        DEF RegistryInv, RegistryShape, catalogVars, statisticVars

\* An adapter is set: no other that is to come has its identifier.
LEMMA AdapterSet ==
    ASSUME RegistryInv, NEW p \in RegistryProcesses, NEW d,
           d \in Coming(p), Coming(p) = {d} \cup Coming(p)', Leaving(p)' = Leaving(p),
           WillBeTable(p), adapters'[p] = SetAdapter(p, d), Enabled' = Enabled
    PROVE  WillBeTable(p)'
<1>1. d \in Enabled /\ d.id \notin Leaving(p) /\ Coming(p) \subseteq Enabled BY DEF WillBeTable
<1>2. \A a, b \in Enabled : a.id = b.id => a = b
      BY DEF RegistryInv, RegistryShape, RowsApart, Enabled
<1>3. d.id \in Touched(p)' => d \in Coming(p)' BY <1>1, <1>2 DEF Touched
<1>4. \A i : i \in Touched(p) <=> i \in Touched(p)' \/ i = d.id BY DEF Touched
<1>5. \A a : a \in adapters'[p] <=> (a \in adapters[p] /\ a.id # d.id) \/ a = d BY DEF SetAdapter
<1>6. \A a : a \in Enabled <=> (a \in adapters[p] /\ a.id \notin Touched(p)) \/ a \in Coming(p)
      BY DEF WillBeTable
<1>7. \A a : a \in Enabled <=> (a \in adapters'[p] /\ a.id \notin Touched(p)') \/ a \in Coming(p)'
      BY <1>1, <1>2, <1>3, <1>4, <1>5, <1>6
<1> QED BY <1>7 DEF WillBeTable

LEMMA IndexAdapterTyped ==
    ASSUME NEW p \in RegistryProcesses, NEW d \in Definitions
    PROVE  IndexAdapter(p, d) \in Seq(IndexStatements)
<1>1. PICK fill, tool : fill = [do |-> "catalog"] /\ tool = [do |-> "tool", def |-> d] OBVIOUS
<1>2. fill \in IndexStatements /\ tool \in IndexStatements
      BY <1>1 DEF IndexStatements, CatalogTools
<1>3. PICK first \in Seq(IndexStatements) :
         first = IF catalog[p] = "none" THEN <<fill>> ELSE <<>>
      BY <1>2, One, None
<1>4. PICK last \in Seq(IndexStatements) : last = <<tool>> BY <1>2, One
<1>5. first \o last \in Seq(IndexStatements) BY Joined
<1> QED BY <1>1, <1>3, <1>4, <1>5 DEF IndexAdapter

LEMMA AdapterKeeps == ASSUME RegistryInv, NEW p \in RegistryProcesses, Adapter(p) PROVE RegistryInv'
<1> DEFINE d == Head(todo[p]).def
<1>1. /\ Doing(p, "adapter") /\ adapters' = [adapters EXCEPT ![p] = SetAdapter(p, d)]
      /\ Indexes(p, IndexAdapter(p, d)) /\ Goes(p, Tail(todo[p]))
      /\ UNCHANGED <<table, ready, stale, catalog, counting, statisticVars, registryBounds>>
      BY DEF Adapter
<1>2. /\ Head(todo[p]).do = "adapter" /\ Head(todo[p]) \in Due(p)
      /\ Due(p) = {Head(todo[p])} \cup Due(p)'
      /\ todo' \in [RegistryProcesses -> Seq(TodoStatements)]
      /\ \A q \in RegistryProcesses \ {p} : todo'[q] = todo[q]
      BY <1>1, FirstOfTodo, GoesOn
<1>3. d \in Definitions BY <1>1, FirstOfTodo, TodoFacts
<1>4. d \in Coming(p) /\ Coming(p) = {d} \cup Coming(p)' BY <1>2 DEF Coming
<1>5. Leaving(p)' = Leaving(p)
  <2>1. {y \in Due(p) : y.do = "delete"}' = {y \in Due(p) : y.do = "delete"} BY <1>2
  <2> QED BY <2>1 DEF Leaving
<1> HIDE DEF d
<1>6. /\ adapters \in [RegistryProcesses -> SUBSET Definitions]
      /\ SetAdapter(p, d) \in SUBSET Definitions
      BY <1>3 DEF RegistryInv, RegistryShape, RegistryTypeOK, SetAdapter
<1>7. /\ adapters' \in [RegistryProcesses -> SUBSET Definitions]
      /\ adapters'[p] = SetAdapter(p, d)
      /\ \A q \in RegistryProcesses \ {p} : adapters'[q] = adapters[q]
      BY <1>1, <1>6
<1>8. Enabled' = Enabled BY <1>1 DEF Enabled
<1>9. CatchingUp(p) BY <1>2 DEF RegistryInv, Memory, StartingUp
<1>10. p \notin stale' => WillBeTable(p)'
       BY <1>1, <1>4, <1>5, <1>7, <1>8, <1>9, AdapterSet DEF CatchingUp
<1>11. Memory(p)' BY <1>2, <1>9, <1>10 DEF CatchingUp, Memory
<1>12. \A q \in RegistryProcesses : Memory(q)' BY <1>1, <1>2, <1>7, <1>8, <1>11, OthersStay
<1>13. index' \in [RegistryProcesses -> Seq(IndexStatements)]
       BY <1>1, <1>3, IndexAdapterTyped DEF Indexes, RegistryInv, RegistryShape
<1>14. RegistryTypeOK'
       BY <1>1, <1>7 DEF RegistryInv, RegistryShape, RegistryTypeOK, statisticVars, registryBounds
<1> QED BY <1>1, <1>2, <1>8, <1>12, <1>13, <1>14, TodoKeeps
        DEF RegistryInv, RegistryShape, RowsApart, statisticVars

LEMMA DeleteKeeps == ASSUME RegistryInv, NEW p \in RegistryProcesses, Delete(p) PROVE RegistryInv'
<1> DEFINE i == Head(todo[p]).id
<1>1. /\ Doing(p, "delete") /\ adapters' = [adapters EXCEPT ![p] = {a \in @ : a.id # i}]
      /\ Goes(p, Tail(todo[p]))
      /\ UNCHANGED <<table, ready, stale, catalogVars, registryBounds>>
      BY DEF Delete
<1>2. /\ Head(todo[p]).do = "delete" /\ Head(todo[p]) \in Due(p)
      /\ Due(p) = {Head(todo[p])} \cup Due(p)'
      /\ todo' \in [RegistryProcesses -> Seq(TodoStatements)]
      /\ \A q \in RegistryProcesses \ {p} : todo'[q] = todo[q]
      BY <1>1, FirstOfTodo, GoesOn
<1>3. Leaving(p) = {i} \cup Leaving(p)' BY <1>2 DEF Leaving
<1>4. Coming(p)' = Coming(p)
  <2>1. {y \in Due(p) : y.do = "adapter"}' = {y \in Due(p) : y.do = "adapter"} BY <1>2
  <2> QED BY <2>1 DEF Coming
<1> HIDE DEF i
<1>5. adapters \in [RegistryProcesses -> SUBSET Definitions]
      BY DEF RegistryInv, RegistryShape, RegistryTypeOK
<1>6. /\ adapters' \in [RegistryProcesses -> SUBSET Definitions]
      /\ adapters'[p] = {a \in adapters[p] : a.id # i}
      /\ \A q \in RegistryProcesses \ {p} : adapters'[q] = adapters[q]
      BY <1>1, <1>5
<1>7. Enabled' = Enabled BY <1>1 DEF Enabled
<1>8. CatchingUp(p) BY <1>2 DEF RegistryInv, Memory, StartingUp
<1>9. \A j : j \in Touched(p) <=> j \in Touched(p)' \/ j = i BY <1>3, <1>4 DEF Touched
<1>10. p \notin stale' => WillBeTable(p)'
       BY <1>1, <1>3, <1>4, <1>6, <1>7, <1>8, <1>9 DEF CatchingUp, WillBeTable
<1>11. Memory(p)' BY <1>2, <1>8, <1>10 DEF CatchingUp, Memory
<1>12. \A q \in RegistryProcesses : Memory(q)' BY <1>1, <1>2, <1>6, <1>7, <1>11, OthersStay
<1>13. RegistryTypeOK'
       BY <1>1, <1>6
       DEF RegistryInv, RegistryShape, RegistryTypeOK, catalogVars, statisticVars, registryBounds
<1> QED BY <1>1, <1>2, <1>7, <1>12, <1>13, TodoKeeps
        DEF RegistryInv, RegistryShape, RowsApart, catalogVars, statisticVars

-----------------------------------------------------------------------------
(* Operations                                                              *)

\* An operation that begins: nothing is due, and memory is the table, if nobody changed it.
LEMMA OperationBegins ==
    ASSUME RegistryInv, NEW p \in RegistryProcesses, Free(p), NEW x \in TodoStatements,
           Goes(p, <<x>>)
    PROVE  /\ todo' \in [RegistryProcesses -> Seq(TodoStatements)] /\ Due(p)' = {x}
           /\ \A q \in RegistryProcesses \ {p} : todo'[q] = todo[q]
           /\ p \notin stale => adapters[p] = Enabled
<1>1. <<x>> \in Seq(TodoStatements) /\ Range(<<x>>) = {x} BY One
<1>2. Due(p) = {} BY DEF Free, Due, Range
<1>3. CatchingUp(p) /\ Coming(p) = {} /\ Touched(p) = {}
      BY <1>2 DEF RegistryInv, Memory, StartingUp, Coming, Leaving, Touched
<1>4. p \notin stale => adapters[p] = Enabled BY <1>3 DEF CatchingUp, WillBeTable
<1> QED BY <1>1, <1>4, GoesOn

LEMMA RegisterKeeps ==
    ASSUME RegistryInv, NEW p \in RegistryProcesses, NEW d \in Definitions, RegisterAdapter(p, d)
    PROVE  RegistryInv'
<1> DEFINE x == [do |-> "adapter", def |-> d]
           fresh == [def |-> d, enabled |-> TRUE]
           made == {other \in table : other.def.id # d.id} \cup {fresh}
<1>1. /\ Free(p) /\ Goes(p, <<x>>) /\ ChangesTable(p, made)
      /\ registrations < MaxRegistrations /\ registrations' = registrations + 1
      /\ UNCHANGED <<adapters, ready, catalogVars, registryFaults>>
      BY DEF RegisterAdapter
<1>2. x \in TodoStatements /\ x.do = "adapter" /\ x.def = d BY DEF TodoStatements
<1>3. fresh \in [def : Definitions, enabled : BOOLEAN] /\ fresh.def = d /\ fresh.enabled OBVIOUS
<1>4. made = {other \in table : other.def.id # d.id} \cup {fresh} OBVIOUS
<1> HIDE DEF x, fresh, made
<1>5. /\ todo' \in [RegistryProcesses -> Seq(TodoStatements)] /\ Due(p)' = {x}
      /\ \A q \in RegistryProcesses \ {p} : todo'[q] = todo[q]
      /\ p \notin stale => adapters[p] = Enabled
      BY <1>1, <1>2, OperationBegins
<1>6. /\ table' = made /\ stale' \subseteq RegistryProcesses /\ (p \in stale <=> p \in stale')
      /\ \A q \in RegistryProcesses \ {p} : /\ q \in stale => q \in stale'
                                            /\ Enabled' = Enabled \/ q \in stale'
      BY <1>1, TableChanges
<1>7. Enabled' = {a \in Enabled : a.id # d.id} \cup {d} BY <1>3, <1>4, <1>6 DEF Enabled
<1>8. IsFiniteSet(Enabled')
  <2>1. Enabled' \subseteq Enabled \cup {d} BY <1>7
  <2> QED BY <2>1, FS_AddElement, FS_Subset DEF RegistryInv, RegistryShape
<1>9. Coming(p)' = {d} /\ Leaving(p)' = {} BY <1>2, <1>5 DEF Coming, Leaving
<1>10. Touched(p)' = {d.id} BY <1>9 DEF Touched
<1>11. p \notin stale' => WillBeTable(p)'
       BY <1>1, <1>5, <1>6, <1>7, <1>9, <1>10 DEF WillBeTable
<1>12. Memory(p)' BY <1>2, <1>5, <1>11 DEF CatchingUp, Memory
<1>13. \A q \in RegistryProcesses : Memory(q)' BY <1>1, <1>5, <1>6, <1>12, OthersStay
<1>14. RowsApart' BY <1>3, <1>4, <1>6 DEF RegistryInv, RegistryShape, RowsApart
<1>15. RegistryTypeOK'
  <2>1. registrations' \in 0 .. MaxRegistrations
        BY <1>1, RegistryAssumption DEF RegistryInv, RegistryShape, RegistryTypeOK
  <2> QED BY <1>1, <1>3, <1>4, <1>6, <2>1
          DEF RegistryInv, RegistryShape, RegistryTypeOK, catalogVars, statisticVars
<1> QED BY <1>1, <1>5, <1>8, <1>13, <1>14, <1>15, TodoKeeps
        DEF RegistryInv, RegistryShape, catalogVars, statisticVars

LEMMA DisableKeeps ==
    ASSUME RegistryInv, NEW p \in RegistryProcesses, NEW d \in Definitions,
           DisableAdapter(p, d.id)
    PROVE  RegistryInv'
<1> DEFINE x == [do |-> "delete", id |-> d.id]
           After(old) == [old EXCEPT !.enabled = @ /\ old.def.id # d.id]
           made == {After(old) : old \in table}
<1>1. /\ Free(p) /\ Goes(p, <<x>>) /\ ChangesTable(p, made)
      /\ UNCHANGED <<adapters, ready, catalogVars, registryBounds>>
      BY DEF DisableAdapter
<1>2. x \in TodoStatements /\ x.do = "delete" /\ x.id = d.id BY DEF TodoStatements
<1>3. ASSUME NEW old \in table
      PROVE  /\ After(old) \in [def : Definitions, enabled : BOOLEAN] /\ After(old).def = old.def
             /\ After(old).enabled <=> old.enabled /\ old.def.id # d.id
  <2>1. old \in [def : Definitions, enabled : BOOLEAN]
        BY DEF RegistryInv, RegistryShape, RegistryTypeOK
  <2>2. PICK b \in BOOLEAN : b = (old.enabled /\ old.def.id # d.id) OBVIOUS
  <2>3. After(old) = [old EXCEPT !.enabled = b] BY <2>2, Zenon
  <2> HIDE DEF After
  <2>4. After(old) \in [def : Definitions, enabled : BOOLEAN] /\ After(old).def = old.def
        /\ After(old).enabled = b
        BY <2>1, <2>3
  <2>5. b <=> old.enabled /\ old.def.id # d.id BY <2>2
  <2> QED BY <2>4, <2>5
<1>4. made = {After(old) : old \in table} OBVIOUS
<1> HIDE DEF x, After, made
<1>5. /\ todo' \in [RegistryProcesses -> Seq(TodoStatements)] /\ Due(p)' = {x}
      /\ \A q \in RegistryProcesses \ {p} : todo'[q] = todo[q]
      /\ p \notin stale => adapters[p] = Enabled
      BY <1>1, <1>2, OperationBegins
<1>6. /\ table' = made /\ stale' \subseteq RegistryProcesses /\ (p \in stale <=> p \in stale')
      /\ \A q \in RegistryProcesses \ {p} : /\ q \in stale => q \in stale'
                                            /\ Enabled' = Enabled \/ q \in stale'
      BY <1>1, TableChanges
<1>7. Enabled' = {a \in Enabled : a.id # d.id}
  <2>1. Enabled' \subseteq {a \in Enabled : a.id # d.id} BY <1>3, <1>4, <1>6 DEF Enabled
  <2>2. {a \in Enabled : a.id # d.id} \subseteq Enabled' BY <1>3, <1>4, <1>6 DEF Enabled
  <2> QED BY <2>1, <2>2
<1>8. IsFiniteSet(Enabled')
  <2>1. Enabled' \subseteq Enabled BY <1>7
  <2> QED BY <2>1, FS_Subset DEF RegistryInv, RegistryShape
<1>9. Coming(p)' = {} /\ Leaving(p)' = {d.id} BY <1>2, <1>5 DEF Coming, Leaving
<1>10. Touched(p)' = {d.id} BY <1>9 DEF Touched
<1>11. p \notin stale' => WillBeTable(p)'
       BY <1>1, <1>5, <1>6, <1>7, <1>9, <1>10 DEF WillBeTable
<1>12. Memory(p)' BY <1>2, <1>5, <1>11 DEF CatchingUp, Memory
<1>13. \A q \in RegistryProcesses : Memory(q)' BY <1>1, <1>5, <1>6, <1>12, OthersStay
<1>14. RowsApart' BY <1>3, <1>4, <1>6 DEF RegistryInv, RegistryShape, RowsApart
<1>15. RegistryTypeOK'
       BY <1>1, <1>3, <1>4, <1>6
       DEF RegistryInv, RegistryShape, RegistryTypeOK, catalogVars, statisticVars, registryBounds
<1> QED BY <1>1, <1>5, <1>8, <1>13, <1>14, <1>15, TodoKeeps
        DEF RegistryInv, RegistryShape, catalogVars, statisticVars

LEMMA InitializeKeeps ==
    ASSUME RegistryInv, NEW p \in RegistryProcesses, InitializeIntegrations(p) PROVE RegistryInv'
<1> DEFINE x == [do |-> "integrations"]
<1>1. /\ Free(p) /\ Goes(p, <<x>>)
      /\ UNCHANGED <<table, adapters, ready, stale, catalogVars, registryBounds>>
      BY DEF InitializeIntegrations
<1>2. x \in TodoStatements /\ x.do = "integrations" BY DEF TodoStatements
<1> HIDE DEF x
<1>3. /\ todo' \in [RegistryProcesses -> Seq(TodoStatements)] /\ Due(p)' = {x}
      /\ \A q \in RegistryProcesses \ {p} : todo'[q] = todo[q]
      /\ p \notin stale => adapters[p] = Enabled
      BY <1>1, <1>2, OperationBegins
<1>4. Enabled' = Enabled BY <1>1 DEF Enabled
<1>5. Coming(p)' = {} /\ Leaving(p)' = {} BY <1>2, <1>3 DEF Coming, Leaving
<1>6. Touched(p)' = {} BY <1>5 DEF Touched
<1>7. p \notin stale' => WillBeTable(p)' BY <1>1, <1>3, <1>4, <1>5, <1>6 DEF WillBeTable
<1>8. Memory(p)' BY <1>2, <1>3, <1>7 DEF CatchingUp, Memory
<1>9. \A q \in RegistryProcesses : Memory(q)' BY <1>1, <1>3, <1>4, <1>8, OthersStay
<1>10. RegistryTypeOK'
       BY <1>1
       DEF RegistryInv, RegistryShape, RegistryTypeOK, catalogVars, statisticVars, registryBounds
<1> QED BY <1>1, <1>3, <1>4, <1>9, <1>10, TodoKeeps
        DEF RegistryInv, RegistryShape, RowsApart, catalogVars, statisticVars

-----------------------------------------------------------------------------
LEMMA RegistryStep == RegistryInv /\ [RegistryNext]_registryVars => RegistryInv'
<1> SUFFICES ASSUME RegistryInv, [RegistryNext]_registryVars PROVE RegistryInv' OBVIOUS
<1>1. CASE UNCHANGED registryVars
  <2>1. UNCHANGED adapterVars /\ UNCHANGED <<index, counting, listed, frequency, total>>
        BY <1>1 DEF registryVars, catalogVars, statisticVars
  <2>2. RegistryTypeOK'
        BY <1>1 DEF registryVars, adapterVars, catalogVars, statisticVars, registryBounds,
                    RegistryInv, RegistryShape, RegistryTypeOK
  <2> QED BY <2>1, <2>2, IndexingKeeps DEF RegistryInv, RegistryShape
<1> QED BY <1>1, LoadKeeps, DefaultKeeps, AdapterKeeps, ReadyKeeps, DeleteKeeps, MakeCatalogKeeps,
           FilledKeeps, IntegrationsKeeps, FindToolKeeps, InsertToolKeeps, FindEntryKeeps,
           InsertEntryKeeps, CountWordKeeps, ReadTotalKeeps, WriteTotalKeeps, RegisterKeeps,
           DisableKeeps, InitializeKeeps, StatementFailsKeeps, RegistryCrashKeeps
        DEF RegistryNext, Statement

LEMMA RegistryAlways == RegistryInit /\ [][RegistryNext]_registryVars => []RegistryInv
BY RegistryInitially, RegistryStep, PTL

LEMMA RegistrySound == RegistryInv => RegistryTypeOK /\ MemoryIsTable /\ StatisticsAreSound
<1> SUFFICES ASSUME RegistryInv PROVE MemoryIsTable /\ StatisticsAreSound
    BY DEF RegistryInv, RegistryShape
<1>1. ASSUME NEW p \in RegistryProcesses, Free(p), p \notin stale
      PROVE  adapters[p] = Enabled /\ \A a, b \in adapters[p] : a.id = b.id => a = b
  <2>1. Due(p) = {} BY <1>1 DEF Free, Due, Range
  <2>2. CatchingUp(p) /\ Coming(p) = {} /\ Touched(p) = {}
        BY <2>1 DEF RegistryInv, Memory, StartingUp, Coming, Leaving, Touched
  <2>3. adapters[p] = Enabled BY <1>1, <2>2 DEF CatchingUp, WillBeTable
  <2>4. \A a, b \in Enabled : a.id = b.id => a = b
        BY DEF RegistryInv, RegistryShape, RowsApart, Enabled
  <2> QED BY <2>3, <2>4
<1>2. \A w \in Words : frequency[w] <= Cardinality(listed)
      BY CountsTyped DEF RegistryInv, CountsAreDue
<1>3. total <= Cardinality(listed) BY CountsTyped DEF RegistryInv, CountsAreDue
<1> QED BY <1>1, <1>2, <1>3 DEF MemoryIsTable, StatisticsAreSound

-----------------------------------------------------------------------------
(***************************************************************************)
(* The components side by side: each of them takes its own steps, or none. *)
(***************************************************************************)

LEMMA PlatformTemporal == PlatformSpec => []TemporalInv
<1>1. PlatformInit => TemporalInit BY DEF PlatformInit
<1>2. [PlatformNext]_platformVars => [TemporalNext]_temporalVars BY DEF PlatformNext, platformVars
<1> QED BY <1>1, <1>2, TemporalAlways, PTL DEF PlatformSpec

LEMMA PlatformResilient == PlatformSpec => []ResilientInv
<1>1. PlatformInit => ResilientInit BY DEF PlatformInit
<1>2. [PlatformNext]_platformVars => [ResilientNext]_resilientVars BY DEF PlatformNext, platformVars
<1> QED BY <1>1, <1>2, ResilientAlways, PTL DEF PlatformSpec

LEMMA PlatformAutomation == PlatformSpec => []AutomationInv
<1>1. PlatformInit => AutomationInit BY DEF PlatformInit
<1>2. [PlatformNext]_platformVars => [AutomationNext]_automationVars BY DEF PlatformNext, platformVars
<1> QED BY <1>1, <1>2, AutomationAlways, PTL DEF PlatformSpec

LEMMA PlatformIdentities == PlatformSpec => []NhiInv
<1>1. PlatformInit => NhiInit BY DEF PlatformInit
<1>2. [PlatformNext]_platformVars => [NhiNext]_nhiVars BY DEF PlatformNext, platformVars
<1> QED BY <1>1, <1>2, NhiAlways, PTL DEF PlatformSpec

LEMMA PlatformMemory == PlatformSpec => []MemoryInv
<1>1. PlatformInit => MemoryInit BY DEF PlatformInit
<1>2. [PlatformNext]_platformVars => [MemoryNext]_memoryVars BY DEF PlatformNext, platformVars
<1> QED BY <1>1, <1>2, MemoryAlways, PTL DEF PlatformSpec

LEMMA PlatformGuard == PlatformSpec => []GuardInv
<1>1. PlatformInit => GuardInit BY DEF PlatformInit
<1>2. [PlatformNext]_platformVars => [GuardNext]_guardVars BY DEF PlatformNext, platformVars
<1> QED BY <1>1, <1>2, GuardAlways, PTL DEF PlatformSpec

LEMMA PlatformChannel == PlatformSpec => []ChannelInv
<1>1. PlatformInit => ChannelInit BY DEF PlatformInit
<1>2. [PlatformNext]_platformVars => [ChannelNext]_channelVars BY DEF PlatformNext, platformVars
<1> QED BY <1>1, <1>2, ChannelAlways, PTL DEF PlatformSpec

LEMMA PlatformRegistry == PlatformSpec => []RegistryInv
<1>1. PlatformInit => RegistryInit BY DEF PlatformInit
<1>2. [PlatformNext]_platformVars => [RegistryNext]_registryVars BY DEF PlatformNext, platformVars
<1> QED BY <1>1, <1>2, RegistryAlways, PTL DEF PlatformSpec

\* The state of every one of them keeps its type.
THEOREM PlatformTypes == PlatformSpec => []PlatformTypeOK
<1>1. TemporalInv => TemporalTypeOK
      BY DEF TemporalInv, TemporalTypeOK, RunsWellTyped, Execs, Places
<1>2. NhiInv => NhiTypeOK BY DEF NhiInv
<1>3. ChannelInv => ChannelTypeOK BY DEF ChannelInv
<1> QED BY <1>1, <1>2, <1>3, ResilientTypes, AutomationTypes, MemoryTypes, GuardTypes, RegistrySound,
           PlatformTemporal, PlatformResilient, PlatformAutomation, PlatformMemory, PlatformGuard,
           PlatformIdentities, PlatformChannel, PlatformRegistry, PTL DEF PlatformTypeOK

\* An identity that is suspended holds no grant, whatever awaits its operations are in; no two
\* tasks are on record under one idempotency key, whichever requests race; a process whose
\* registry has no statement left to run has in memory the enabled adapters of the table, unless
\* another changed it since, and however many processes index and fail at once, the statistics
\* count no entry twice.
THEOREM StoresStayRight == PlatformSpec => []StoresAreRight
<1>1. NhiInv => SuspendedHoldsNothing BY DEF NhiInv
<1>2. AutomationInv => OneTaskPerKey
      BY DEF AutomationInv, KeysApart, KeysOf, OneTaskPerKey
<1> QED BY <1>1, <1>2, RegistrySound, PlatformIdentities, PlatformAutomation, PlatformRegistry, PTL
        DEF StoresAreRight
=============================================================================
