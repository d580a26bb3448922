---------------------------- MODULE AgentRuntime ----------------------------
(***************************************************************************)
(* What stands around an agent at work: the memory of its session, and the *)
(* guard in front of its tools.                                            *)
(***************************************************************************)
EXTENDS FiniteSets, Functions, Integers

-----------------------------------------------------------------------------
(***************************************************************************)
(* Session memory (core/memory-isolation): namespaces of keys with values  *)
(* that expire.  Callers hold on to the namespace objects they were given, *)
(* and a namespace's identifier is made of its session and the time it was *)
(* created at, so after a purge the session gets a new one unless no time  *)
(* has passed.  A value is the number of its write.                        *)
(***************************************************************************)

CONSTANTS
    Sessions,       \* a session stands for its user, too
    MemoryKeys,
    MemoryTtls,     \* lifetimes that a write ends up with
    MaxWrites,      \* bound: writes
    MaxMemoryTime   \* bound: the clock

ASSUME MemoryAssumption ==
    MemoryTtls \subseteq Nat /\ MaxWrites \in Nat /\ MaxMemoryTime \in Nat

VARIABLES
    memoryTime,
    namespaces,     \* identifiers in the map of namespaces
    memory,         \* the map of entries: namespace -> key -> entry
    handed,         \* identifiers that getNamespace has ever returned
    written,        \* writes so far
    purgeTimer,     \* the manager is initialized and sweeps
    lastRead,       \* what the last read returned, and to whom
    purgedUpTo      \* history: writes to a session before its last purge

memoryVars == <<memoryTime, namespaces, memory, handed, written, purgeTimer, lastRead, purgedUpTo>>

Administrator == "administrator"
Actors == Sessions \cup {Administrator}
Ids == Sessions \X (0 .. MaxMemoryTime)
Owner(id) == id[1]
NoEntries == [k \in {} |-> 0]

MemoryInit ==
    /\ memoryTime = 0
    /\ namespaces = {} /\ memory = [id \in {} |-> NoEntries] /\ handed = {}
    /\ written = 0
    /\ purgeTimer = FALSE
    /\ lastRead = [session |-> "none", value |-> 0, to |-> "none", expired |-> FALSE]
    /\ purgedUpTo = [s \in Sessions |-> 0]

\* initialize and shutdown; other calls do not ask whether it was initialized.
InitializeMemory ==
    /\ ~purgeTimer /\ purgeTimer' = TRUE
    /\ UNCHANGED <<memoryTime, namespaces, memory, handed, written, lastRead, purgedUpTo>>

ShutdownMemory ==
    /\ purgeTimer' = FALSE
    /\ namespaces' = {} /\ memory' = [id \in {} |-> NoEntries]
    /\ purgedUpTo' = [s \in Sessions |-> written]
    /\ UNCHANGED <<memoryTime, handed, written, lastRead>>

GetNamespace(s) ==
    /\ IF \E id \in namespaces : Owner(id) = s
       THEN UNCHANGED <<namespaces, memory, handed>>
       ELSE LET id == <<s, memoryTime>> IN
            /\ namespaces' = namespaces \cup {id}
            /\ memory' = [i \in DOMAIN memory \cup {id} |-> IF i = id THEN NoEntries ELSE memory[i]]
            /\ handed' = handed \cup {id}
    /\ UNCHANGED <<memoryTime, written, purgeTimer, lastRead, purgedUpTo>>

\* MemoryAccessControlList.evaluate: only the user of a session reads, writes
\* and deletes.  The default rules never get to the one for administrators.
MayUse(id, a) == a = Owner(id)

\* Refusals by the access list, by the DLP filter and for want of the namespace
\* change nothing but the audit trail.
WriteMemory(id, a, k, ttl) ==
    /\ id \in handed /\ MayUse(id, a) /\ id \in DOMAIN memory
    /\ written < MaxWrites
    /\ written' = written + 1
    /\ LET entry == [value |-> written', expires |-> memoryTime + ttl] IN
       memory' = [memory EXCEPT ![id] =
                     [j \in DOMAIN @ \cup {k} |-> IF j = k THEN entry ELSE @[j]]]
    /\ UNCHANGED <<memoryTime, namespaces, handed, purgeTimer, lastRead, purgedUpTo>>

Forget(id, keys) == [memory EXCEPT ![id] = Restrict(@, DOMAIN @ \ keys)]

Expired(entry) == entry.expires < memoryTime

\* The entry is fetched in one go; waiting for the audit record comes after.
ReadMemory(id, a, k) ==
    /\ id \in handed /\ MayUse(id, a)
    /\ id \in DOMAIN memory /\ k \in DOMAIN memory[id]
    /\ LET entry == memory[id][k] IN
       IF Expired(entry)
       THEN memory' = Forget(id, {k}) /\ UNCHANGED lastRead
       ELSE /\ lastRead' = [session |-> Owner(id), value |-> entry.value, to |-> a,
                            expired |-> entry.expires < memoryTime]
            /\ UNCHANGED memory
    /\ UNCHANGED <<memoryTime, namespaces, handed, written, purgeTimer, purgedUpTo>>

DeleteMemory(id, a, k) ==
    /\ id \in handed /\ MayUse(id, a)
    /\ id \in DOMAIN memory /\ k \in DOMAIN memory[id]
    /\ memory' = Forget(id, {k})
    /\ UNCHANGED <<memoryTime, namespaces, handed, written, purgeTimer, lastRead, purgedUpTo>>

\* Mutation. Purging takes the namespace out of its map, not its entries.
WithoutEntriesKept(id) == memory

WithoutEntries(id) == Restrict(memory, DOMAIN memory \ {id})

\* By the user or an administrator, and through any namespace object: one that is
\* out of date purges nothing and is answered as if it had.
PurgeNamespace(id, a) ==
    /\ id \in handed /\ (MayUse(id, a) \/ a = Administrator)
    /\ namespaces' = namespaces \ {id}
    /\ memory' = WithoutEntries(id)
    /\ purgedUpTo' = IF id \in namespaces THEN [purgedUpTo EXCEPT ![Owner(id)] = written]
                     ELSE purgedUpTo
    /\ UNCHANGED <<memoryTime, handed, written, purgeTimer, lastRead>>

Swept(id, k) == Expired(memory[id][k])

PurgeExpiredEntries ==
    /\ purgeTimer
    /\ memory' = [id \in DOMAIN memory |->
                    Restrict(memory[id], {k \in DOMAIN memory[id] : ~Swept(id, k)})]
    /\ UNCHANGED <<memoryTime, namespaces, handed, written, purgeTimer, lastRead, purgedUpTo>>

MemoryTick ==
    /\ memoryTime < MaxMemoryTime
    /\ memoryTime' = memoryTime + 1
    /\ UNCHANGED <<namespaces, memory, handed, written, purgeTimer, lastRead, purgedUpTo>>

MemoryNext ==
    \/ InitializeMemory \/ ShutdownMemory \/ PurgeExpiredEntries \/ MemoryTick
    \/ \E s \in Sessions : GetNamespace(s)
    \/ \E id \in handed, a \in Actors :
          \/ PurgeNamespace(id, a)
          \/ \E k \in MemoryKeys :
                \/ ReadMemory(id, a, k) \/ DeleteMemory(id, a, k)
                \/ \E ttl \in MemoryTtls : WriteMemory(id, a, k, ttl)

\* The sweep is on a timer.
MemoryFairness == WF_memoryVars(PurgeExpiredEntries)

MemorySpec == MemoryInit /\ [][MemoryNext]_memoryVars /\ MemoryFairness

-----------------------------------------------------------------------------
MemoryTypeOK ==
    /\ memoryTime \in 0 .. MaxMemoryTime /\ written \in 0 .. MaxWrites
    /\ namespaces \subseteq handed /\ handed \subseteq Ids
    /\ DOMAIN memory = namespaces
    /\ \A id \in namespaces : DOMAIN memory[id] \subseteq MemoryKeys
    /\ purgeTimer \in BOOLEAN

\* What a read returns was written after the last purge of the session and has not
\* expired, and it goes to the user of the session: also through namespace objects
\* from before the purge, whose identifier may be that of the new one.
ReadsAreCurrent ==
    [][lastRead' # lastRead =>
          /\ lastRead'.value > purgedUpTo[lastRead'.session]
          /\ lastRead'.to = lastRead'.session
          /\ ~lastRead'.expired]_memoryVars

-----------------------------------------------------------------------------
(***************************************************************************)
(* The interceptor in front of tool executions (core/runtime-guard), for   *)
(* one workflow.  A call looks at the circuit breaker and evaluates its    *)
(* risk and the policies in one go, and acts on the result later; others   *)
(* come in between.  A call that finds the circuit open changes nothing.   *)
(* None of the four built-in policies can match: two ask for a field that  *)
(* the context lacks, one looks for words in an object that reads [object  *)
(* Object], and one is left to the drift check.                            *)
(***************************************************************************)

CONSTANTS
    GuardCalls,       \* calls of intercept that may be under way at once
    Levels,           \* expectedRiskLevel of the requests
    Impacts,          \* what environment, adapter, parameters and hour add to the risk
    RiskThreshold, ReApprovalDelta,
    BreakerThreshold, \* circuitBreakerThreshold
    BreakerReset      \* circuitBreakerResetMs

ASSUME GuardAssumption ==
    /\ Levels \subseteq {"low", "medium", "high", "destructive"} /\ Impacts \subseteq Nat
    /\ {RiskThreshold, ReApprovalDelta} \subseteq Nat
    /\ {BreakerThreshold, BreakerReset} \subseteq Nat \ {0}

VARIABLES
    circuit,     \* status, failureCount and the time left of an open circuit
    highRiskOps, \* recentHighRiskOps of the workflow; more than 4 are as good as 4
    intercepted, \* of each call: how far it is, and the action its evaluation leads to
    healthy      \* no evaluation throws, drifts, is risky or denied from now on

guardVars == <<circuit, highRiskOps, intercepted, healthy>>

Verdicts == {"clean", "approval", "denied", "error"}
Idle == [pc |-> "idle", action |-> "none", risky |-> FALSE, audited |-> FALSE]

GuardInit ==
    /\ circuit = [status |-> "closed", failures |-> 0, left |-> 0]
    /\ highRiskOps = 0
    /\ intercepted = [c \in GuardCalls |-> Idle]
    /\ healthy = FALSE

OriginalRisk(level) == CASE level = "low" -> 20 [] level = "medium" -> 40
                         [] level = "high" -> 60 [] level = "destructive" -> 80

\* calculateRisk
CurrentRisk(level, impact) ==
    LET risk == OriginalRisk(level) + impact + (IF highRiskOps > 3 THEN 10 ELSE 0) IN
    IF risk > 100 THEN 100 ELSE risk

\* determineAction: a denial, be it for a policy, a drift of the parameters or an
\* evaluation that throws; another approval, for a policy, the risk or its rise.
Action(verdict, planned, risk) ==
    IF verdict \in {"denied", "error"} THEN "blocked"
    ELSE IF \/ verdict = "approval"
            \/ risk >= RiskThreshold \/ risk > planned + ReApprovalDelta THEN "paused"
    ELSE "allowed"

\* canExecute, which turns an open circuit half-open when its time has come and
\* then lets every call through.
CanExecute == circuit.status # "open" \/ circuit.left = 0

Intercept(c, level, impact, verdict) ==
    LET risk   == CurrentRisk(level, impact)
        action == Action(verdict, OriginalRisk(level), risk) IN
    /\ intercepted[c].pc = "idle" /\ CanExecute
    /\ healthy => action = "allowed"
    /\ intercepted' = [intercepted EXCEPT ![c] =
          [pc |-> "evaluated", action |-> action, risky |-> risk >= RiskThreshold,
           audited |-> verdict # "error"]]
    /\ circuit' = IF circuit.status = "open" THEN [circuit EXCEPT !.status = "half-open"] ELSE circuit
    /\ UNCHANGED <<highRiskOps, healthy>>

\* Mutation. The circuit closes only when it had failed to the threshold again.
SuccessWithFailures ==
    [circuit EXCEPT !.failures = 0,
                    !.status = IF @ = "half-open" /\ circuit.failures >= BreakerThreshold
                               THEN "closed" ELSE @]

\* recordSuccess: an open circuit stays open, but its failures are forgotten.
Success == [circuit EXCEPT !.failures = 0, !.status = IF @ = "half-open" THEN "closed" ELSE @]

\* recordFailure
Failure ==
    LET opens == circuit.failures + 1 >= BreakerThreshold /\ circuit.status # "open" IN
    [circuit EXCEPT !.failures = IF @ < BreakerThreshold THEN @ + 1 ELSE @,
                    !.status = IF opens THEN "open" ELSE @,
                    !.left = IF opens THEN BreakerReset ELSE @]

Act(c) ==
    /\ intercepted[c].pc = "evaluated"
    /\ circuit' = CASE intercepted[c].action = "allowed" -> Success
                    [] intercepted[c].action = "blocked" -> Failure
                    [] intercepted[c].action = "paused"  -> circuit
    /\ intercepted' = [intercepted EXCEPT ![c] =
          IF @.audited /\ @.risky THEN [Idle EXCEPT !.pc = "audited"] ELSE Idle]
    /\ UNCHANGED <<highRiskOps, healthy>>

\* After the audit record; also for a call that was not let through.
TrackHighRisk(c) ==
    /\ intercepted[c].pc = "audited"
    /\ highRiskOps' = IF highRiskOps < 4 THEN highRiskOps + 1 ELSE 4
    /\ intercepted' = [intercepted EXCEPT ![c] = Idle]
    /\ UNCHANGED <<circuit, healthy>>

ResetCircuitBreaker ==
    /\ circuit' = [status |-> "closed", failures |-> 0, left |-> 0]
    /\ UNCHANGED <<highRiskOps, intercepted, healthy>>

ResetWorkflow ==
    /\ highRiskOps' = 0
    /\ UNCHANGED <<circuit, intercepted, healthy>>

GuardTick ==
    /\ circuit.left > 0
    /\ circuit' = [circuit EXCEPT !.left = @ - 1]
    /\ UNCHANGED <<highRiskOps, intercepted, healthy>>

\* The workflow goes on with harmless requests only.
CalmsDown == ~healthy /\ healthy' = TRUE /\ UNCHANGED <<circuit, highRiskOps, intercepted>>

GuardNext ==
    \/ \E c \in GuardCalls :
          \/ \E l \in Levels, i \in Impacts, v \in Verdicts : Intercept(c, l, i, v)
          \/ Act(c) \/ TrackHighRisk(c)
    \/ ResetCircuitBreaker \/ ResetWorkflow \/ GuardTick \/ CalmsDown

GuardFairness ==
    /\ WF_guardVars(GuardTick)
    /\ \A c \in GuardCalls : WF_guardVars(Act(c)) /\ WF_guardVars(TrackHighRisk(c))

GuardSpec == GuardInit /\ [][GuardNext]_guardVars /\ GuardFairness

-----------------------------------------------------------------------------
GuardTypeOK ==
    /\ circuit.status \in {"closed", "open", "half-open"}
    /\ circuit.failures \in 0 .. BreakerThreshold /\ circuit.left \in 0 .. BreakerReset
    /\ highRiskOps \in 0 .. 4
    /\ \A c \in GuardCalls : intercepted[c].pc \in {"idle", "evaluated", "audited"}
    /\ healthy \in BOOLEAN

\* Whatever failures and late answers have done to the circuit, it ends up closed for
\* good when from some time on all that is asked for is harmless, and it is asked.
CircuitRecovers ==
    ([]<><<\E c \in GuardCalls : Act(c)>>_guardVars) /\ <>healthy
        => <>[](circuit.status = "closed")
=============================================================================
