---------------------------- MODULE ZapierClient ----------------------------
(***************************************************************************)
(* A step that the Zapier bridge executes, itself or in the place of an    *)
(* adapter without a handler: Executor.executeStep (executor/index.ts),    *)
(* ZapierMcpClient.execute (integrations/index.ts), its circuit breaker    *)
(* and rate limiter (circuit-breaker.ts, rate-limiter.ts) and what is said *)
(* of its health (health.ts).  The client never throws: a refusal is an    *)
(* answer, and the step that got it counts as completed.                   *)
(***************************************************************************)
EXTENDS Integers, FiniteSets

CONSTANTS
    ZapierCalls,      \* calls of executeStep
    Burst,            \* requests in a window of the rate limiter
    RateWindow,
    OpenAfter,        \* failureThreshold
    OpenFor,          \* resetTimeoutMs
    AbortAfter,       \* zapierMcpTimeoutMs
    StepTimeout,      \* the timeout of the step
    MaxZapierTime,    \* bound
    MaxZapierCalls    \* bound: how often each caller calls

ASSUME ZapierAssumption ==
    /\ {Burst, RateWindow, OpenAfter} \subseteq Nat \ {0}
    /\ {OpenFor, AbortAfter, StepTimeout, MaxZapierTime, MaxZapierCalls} \subseteq Nat

VARIABLES
    endpoint,      \* the endpoint is configured
    circuit,       \* of zapier:mcp: state, failures, lastFailureAt
    bucket,        \* of zapier:mcp: remaining, resetAt
    health,        \* what was said last of zapier:mcp
    steps,         \* executeStep, once per call: its answer, and when it began
    requests,      \* fetch, once per call: when it was sent
    made,          \* bound: how often each has called
    sent,          \* history: [at, by] of each request
    clock

zapierVars == <<endpoint, circuit, bucket, health, steps, requests, made, sent, clock>>

NotSent == -1

ZapierInit ==
    /\ endpoint \in BOOLEAN
    /\ circuit = [state |-> "closed", failures |-> 0, lastFailureAt |-> 0]
    /\ bucket = [remaining |-> 0, resetAt |-> 0]
    /\ health = "unknown"
    /\ steps = [c \in ZapierCalls |-> [answer |-> "none", since |-> 0]]
    /\ requests = [c \in ZapierCalls |-> NotSent]
    /\ made = [c \in ZapierCalls |-> 0]
    /\ sent = {} /\ clock = 0

-----------------------------------------------------------------------------
(* Circuit breaker and rate limiter                                        *)

\* canExecute: an open circuit is half-open after a while, for any number of calls.
Tried == IF circuit.state = "open" /\ clock - circuit.lastFailureAt > OpenFor
         THEN [circuit EXCEPT !.state = "half_open"] ELSE circuit

Succeeded == [circuit EXCEPT !.failures = 0, !.state = "closed"]

Failed ==
    [state         |-> IF circuit.failures + 1 >= OpenAfter THEN "open" ELSE circuit.state,
     failures      |-> circuit.failures + 1,
     lastFailureAt |-> clock]

\* Mutation: the bucket is filled again, and the end of its window is forgotten.
BucketWithoutWindow ==
    IF clock >= bucket.resetAt THEN [bucket EXCEPT !.remaining = Burst] ELSE bucket

\* allow: the bucket of the window that this call is in.
Bucket ==
    IF clock >= bucket.resetAt
    THEN [remaining |-> Burst, resetAt |-> clock + RateWindow] ELSE bucket

-----------------------------------------------------------------------------
(* executeStep                                                             *)

Answers(c, answer) == steps' = [steps EXCEPT ![c] = [answer |-> answer, since |-> clock]]

MayCall(c) ==
    /\ steps[c].answer \in {"none", "completed", "failed"} /\ requests[c] = NotSent
    /\ made[c] < MaxZapierCalls
    /\ made' = [made EXCEPT ![c] = @ + 1]

\* The flag, the sandbox or a missing action identifier throws before the bridge is asked.
NotAsked(c) ==
    /\ MayCall(c) /\ Answers(c, "failed")
    /\ UNCHANGED <<endpoint, circuit, bucket, health, requests, sent, clock>>

CircuitOpen(c) ==
    /\ MayCall(c) /\ Tried.state = "open"
    /\ health' = "down"
    /\ Answers(c, "completed")
    /\ UNCHANGED <<endpoint, circuit, bucket, requests, sent, clock>>

RateExceeded(c) ==
    /\ MayCall(c) /\ Tried.state # "open" /\ Bucket.remaining <= 0
    /\ circuit' = Tried /\ bucket' = Bucket /\ health' = "degraded"
    /\ Answers(c, "completed")
    /\ UNCHANGED <<endpoint, requests, sent, clock>>

\* The token of the bucket is gone before it turns out that there is nobody to ask.
NoEndpoint(c) ==
    /\ MayCall(c) /\ Tried.state # "open" /\ Bucket.remaining > 0 /\ ~endpoint
    /\ circuit' = Tried /\ bucket' = [Bucket EXCEPT !.remaining = @ - 1]
    /\ health' = "degraded"
    /\ Answers(c, "completed")
    /\ UNCHANGED <<endpoint, requests, sent, clock>>

Send(c) ==
    /\ MayCall(c) /\ Tried.state # "open" /\ Bucket.remaining > 0 /\ endpoint
    /\ circuit' = Tried /\ bucket' = [Bucket EXCEPT !.remaining = @ - 1]
    /\ requests' = [requests EXCEPT ![c] = clock]
    /\ sent' = sent \cup {[at |-> clock, by |-> c, nth |-> made'[c]]}
    /\ Answers(c, "waiting")
    /\ UNCHANGED <<endpoint, health, clock>>

\* The answer, an error, or the abort of the client's own timer.
Arrives(c, outcome) ==
    /\ requests[c] # NotSent
    /\ requests' = [requests EXCEPT ![c] = NotSent]
    /\ circuit' = IF outcome = "ok" THEN Succeeded ELSE Failed
    /\ health' = CASE outcome = "ok" -> "healthy" [] outcome = "error" -> "degraded"
                   [] outcome = "thrown" -> "down"
    /\ IF steps[c].answer = "waiting" THEN Answers(c, "completed") ELSE UNCHANGED steps
    /\ UNCHANGED <<endpoint, bucket, made, sent, clock>>

\* The executor does not wait longer than the step's timeout; the request goes on.
StepTimesOut(c) ==
    /\ steps[c].answer = "waiting" /\ clock - steps[c].since >= StepTimeout
    /\ Answers(c, "failed")
    /\ UNCHANGED <<endpoint, circuit, bucket, health, requests, made, sent, clock>>

\* Time does not pass a timer that is due.
ZapierTick ==
    /\ clock < MaxZapierTime
    /\ \A c \in ZapierCalls :
          /\ requests[c] # NotSent => clock - requests[c] < AbortAfter
          /\ steps[c].answer = "waiting" => clock - steps[c].since < StepTimeout
    /\ clock' = clock + 1
    /\ UNCHANGED <<endpoint, circuit, bucket, health, steps, requests, made, sent>>

ZapierNext ==
    \/ ZapierTick
    \/ \E c \in ZapierCalls :
          \/ NotAsked(c) \/ CircuitOpen(c) \/ RateExceeded(c) \/ NoEndpoint(c) \/ Send(c)
          \/ StepTimesOut(c)
          \/ \E outcome \in {"ok", "error", "thrown"} : Arrives(c, outcome)

ZapierSpec == ZapierInit /\ [][ZapierNext]_zapierVars

-----------------------------------------------------------------------------
\* Type invariant.
ZapierTypeOK ==
    /\ endpoint \in BOOLEAN
    /\ circuit \in [state : {"closed", "open", "half_open"}, failures : Nat, lastFailureAt : Nat]
    /\ bucket \in [remaining : 0 .. Burst, resetAt : Nat]
    /\ health \in {"unknown", "healthy", "degraded", "down"}
    /\ \A c \in ZapierCalls : steps[c].answer \in {"none", "waiting", "completed", "failed"}
    /\ requests \in [ZapierCalls -> Nat \cup {NotSent}]

\* The bridge is spared: in any stretch of time as long as a window it gets no more
\* than two bursts, and the circuit is not closed while the failures since the last
\* success have reached the threshold, however late the answers come.  What is said
\* to be healthy is a bridge whose last answer was good.
BridgeIsSpared ==
    /\ \A s \in sent : Cardinality({r \in sent : r.at \in s.at .. s.at + RateWindow - 1})
                          <= 2 * Burst
    /\ circuit.state = "closed" <=> circuit.failures < OpenAfter
    /\ health = "healthy" => circuit.failures = 0
=============================================================================
