------------------------- MODULE ResilientExecutor -------------------------
(***************************************************************************)
(* The idempotency manager and the resilient executor around it: several   *)
(* calls execute the same step (one idempotency key, one tool) at once.    *)
(* A record in the manager's map is an object that callers hold on to      *)
(* while another may replace it in the map, so records have identities.    *)
(* Timers count down: a record expires, a wait is given up and an open     *)
(* circuit lets a call through when theirs has reached 0.                  *)
(***************************************************************************)
EXTENDS Naturals

CONSTANTS
    Executions,        \* calls of execute with the same step
    LockTimeout,       \* how long a call waits for a record in progress
    RecordTtl,         \* life of a record
    MaxAttempts,       \* retry.maxAttempts
    FailureThreshold,  \* circuitBreaker.failureThreshold
    ResetTimeout       \* circuitBreaker.resetTimeoutMs

ASSUME ResilientAssumption ==
    {LockTimeout, RecordTtl, MaxAttempts, FailureThreshold, ResetTimeout} \subseteq Nat \ {0}

VARIABLES
    inMap,      \* call whose record the map holds for the key, or "none"
    record,     \* of each call, the record it put there: status and time left
    call,       \* of each call: pc, the record it holds, patience, attempt, result
    breaker,    \* circuit breaker of the tool
    landed      \* calls of which an attempt has taken effect

resilientVars == <<inMap, record, call, breaker, landed>>

NoRecord == [status |-> "none", left |-> 0]

ResilientInit ==
    /\ inMap = "none"
    /\ record = [c \in Executions |-> NoRecord]
    /\ call = [c \in Executions |-> [pc |-> "new", holds |-> "none", patience |-> 0,
                                     attempt |-> 0, result |-> "none"]]
    /\ breaker = [state |-> "closed", failures |-> 0, wait |-> 0]
    /\ landed = {}

Is(c, pc) == call[c].pc = pc
Go(c, pc) == call' = [call EXCEPT ![c].pc = pc]
Return(c, result) == call' = [call EXCEPT ![c].pc = "done", ![c].result = result]

\* Mutation. The placeholder of a record in progress says completed.
CachedUnlessFailed(r) == IF record[r].status = "failed" THEN "failed" ELSE "completed"

\* What a record hands out: the placeholder of markInProgress says failed.
CachedResult(r) == IF record[r].status = "completed" THEN "completed" ELSE "failed"

\* Status of the record in the map.
MapStatus == IF inMap = "none" THEN "none"
             ELSE IF record[inMap].left = 0 THEN "expired" ELSE record[inMap].status
Present == IF inMap = "none" THEN "none" ELSE record[inMap].status

\* check: a record past its expiry is dropped and the call goes ahead as if
\* there were none; one in progress is waited for.  Here for the first check,
\* of a call that has just begun, and the second, before it stores its result.
Check(c, before, waiting, miss) ==
    /\ Is(c, before)
    /\ \/ /\ MapStatus \in {"none", "expired"}
          /\ inMap' = "none" /\ Go(c, miss)
       \/ /\ MapStatus = "in_progress"
          /\ call' = [call EXCEPT ![c].pc = waiting, ![c].holds = inMap,
                                  ![c].patience = LockTimeout]
          /\ UNCHANGED inMap
    /\ UNCHANGED <<record, breaker, landed>>

CheckHits(c) ==
    /\ Is(c, "new") /\ MapStatus \in {"completed", "failed"}
    /\ Return(c, CachedResult(inMap))
    /\ UNCHANGED <<inMap, record, breaker, landed>>

CheckHitsOwn(c) ==
    /\ Is(c, "store") /\ MapStatus \in {"completed", "failed"}
    /\ Go(c, "write")
    /\ UNCHANGED <<inMap, record, breaker, landed>>

\* waitForCompletion, polling: it looks at the map again, but the result is of
\* the record that check had read before.
Settled == Present # "in_progress"
OutOfPatience(c) == call[c].patience = 0

WaitSucceeds(c) ==
    /\ Is(c, "waiting") /\ Settled /\ ~OutOfPatience(c)
    /\ Return(c, CachedResult(call[c].holds))
    /\ UNCHANGED <<inMap, record, breaker, landed>>

WaitTimesOut(c) ==
    /\ Is(c, "waiting") /\ OutOfPatience(c)
    /\ Go(c, "mark")
    /\ UNCHANGED <<inMap, record, breaker, landed>>

\* Mutation. The wait has no timeout.
OwnWaitWithoutTimeout(c) ==
    /\ Is(c, "storing") /\ Settled
    /\ Go(c, "write")
    /\ UNCHANGED <<inMap, record, breaker, landed>>

OwnWaitEnds(c) ==
    /\ Is(c, "storing") /\ (Settled \/ OutOfPatience(c))
    /\ Go(c, "write")
    /\ UNCHANGED <<inMap, record, breaker, landed>>

\* markInProgress, whatever the map holds, and the circuit breaker.
Allowed == breaker.state # "open" \/ breaker.wait = 0

MarkInProgress(c) ==
    /\ Is(c, "mark")
    /\ record' = [record EXCEPT ![c] = [status |-> "in_progress", left |-> RecordTtl]]
    /\ inMap' = c
    /\ IF Allowed
       THEN /\ breaker' = IF breaker.state = "open"
                          THEN [breaker EXCEPT !.state = "half_open", !.failures = 0] ELSE breaker
            /\ call' = [call EXCEPT ![c].pc = "attempt", ![c].attempt = 1]
       ELSE Return(c, "failed") /\ UNCHANGED breaker    \* the record stays in progress
    /\ UNCHANGED <<landed>>

\* recordSuccess and recordFailure.
Succeeded(b) ==
    [b EXCEPT !.state = IF @ = "half_open" THEN "closed" ELSE @,
              !.failures = IF b.state = "open" THEN @ ELSE 0]
Failed(b) ==
    LET open == b.state = "half_open" \/ b.failures + 1 >= FailureThreshold IN
    [b EXCEPT !.failures = @ + 1, !.state = IF open THEN "open" ELSE @,
              !.wait = IF open THEN ResetTimeout ELSE @]

\* One round of executeWithRetry: the adapter is called and takes effect, or
\* fails, or its answer is lost after it took effect.
AttemptSucceeds(c) ==
    /\ Is(c, "attempt")
    /\ landed' = landed \cup {c}
    /\ breaker' = Succeeded(breaker)
    /\ call' = [call EXCEPT ![c].pc = "store", ![c].result = "completed"]
    /\ UNCHANGED <<inMap, record>>

AttemptFails(c, retryable) ==
    /\ Is(c, "attempt")
    /\ landed' \in {landed, landed \cup {c}}
    /\ IF retryable /\ call[c].attempt < MaxAttempts
       THEN call' = [call EXCEPT ![c].attempt = @ + 1] /\ UNCHANGED breaker
       ELSE /\ breaker' = Failed(breaker)
            /\ call' = [call EXCEPT ![c].pc = "store", ![c].result = "failed"]
    /\ UNCHANGED <<inMap, record>>

\* No token in the bucket: a round is spent on waiting for one.
RateLimited(c) ==
    /\ Is(c, "attempt")
    /\ IF call[c].attempt < MaxAttempts
       THEN call' = [call EXCEPT ![c].attempt = @ + 1] /\ UNCHANGED breaker
       ELSE /\ breaker' = Failed(breaker)
            /\ call' = [call EXCEPT ![c].pc = "store", ![c].result = "failed"]
    /\ UNCHANGED <<inMap, record, landed>>

\* store writes to the record that the map holds by now, if any.
Store(c) ==
    /\ Is(c, "write")
    /\ record' = IF inMap = "none" THEN record
                 ELSE [record EXCEPT ![inMap].status = call[c].result]
    /\ Go(c, "done")
    /\ UNCHANGED <<inMap, breaker, landed>>

\* The manager's own timer drops what has expired.
Cleanup ==
    /\ MapStatus = "expired"
    /\ inMap' = "none"
    /\ UNCHANGED <<record, call, breaker, landed>>

Down(n) == IF n = 0 THEN 0 ELSE n - 1

ExecTick ==
    /\ record' = [c \in Executions |-> [record[c] EXCEPT !.left = Down(@)]]
    /\ call' = [c \in Executions |-> [call[c] EXCEPT !.patience = Down(@)]]
    /\ breaker' = [breaker EXCEPT !.wait = Down(@)]
    /\ UNCHANGED <<inMap, landed>>

Execute(c) ==
    \/ Check(c, "new", "waiting", "mark") \/ CheckHits(c)
    \/ WaitSucceeds(c) \/ WaitTimesOut(c)
    \/ MarkInProgress(c) \/ AttemptSucceeds(c)
    \/ \E retryable \in BOOLEAN : AttemptFails(c, retryable)
    \/ RateLimited(c)
    \/ Check(c, "store", "storing", "write") \/ CheckHitsOwn(c) \/ OwnWaitEnds(c)
    \/ Store(c)

ResilientNext == (\E c \in Executions : Execute(c)) \/ Cleanup \/ ExecTick

\* Timers fire and adapters answer; nobody has to call.
ResilientFairness ==
    /\ WF_resilientVars(ExecTick)
    /\ \A c \in Executions : WF_resilientVars(~Is(c, "new") /\ Execute(c))

ResilientSpec == ResilientInit /\ [][ResilientNext]_resilientVars /\ ResilientFairness
-----------------------------------------------------------------------------
ResilientTypeOK ==
    /\ inMap \in Executions \cup {"none"}
    /\ \A c \in Executions :
          /\ record[c].status \in {"none", "in_progress", "completed", "failed"}
          /\ call[c].attempt \in 0 .. MaxAttempts
          /\ call[c].result \in {"none", "completed", "failed"}
    /\ breaker.state \in {"closed", "open", "half_open"}
    /\ landed \subseteq Executions

\* A caller is told completed only when the step has taken effect, by its own
\* call or by the one it waited for, however records were replaced meanwhile.
CompletedIsReal ==
    (\E c \in Executions : Is(c, "done") /\ call[c].result = "completed") => landed # {}

\* Every execution that has begun returns, though its second check finds its own record in
\* progress and waits for it: only the lock timeout gets it out.
ExecutionReturns == \A c \in Executions : ~Is(c, "new") ~> Is(c, "done")
=============================================================================
