-------------------------- MODULE GatewaySessions ---------------------------
(***************************************************************************)
(* What the gateway remembers between two requests: what it has asked      *)
(* back, and what it thinks of an intent it has seen.                      *)
(***************************************************************************)
EXTENDS Naturals, FiniteSets, Functions, Sequences

-----------------------------------------------------------------------------
(***************************************************************************)
(* The confidence-aware parser of the gateway.  A text that the model is   *)
(* not sure about opens a session with several readings of it, and the     *)
(* user resolves the session by choosing one, or cancels it; a session     *)
(* expires, which is noticed only when somebody tries to resolve it.       *)
(* Sessions and their audit chain are in memory.  The audit record is      *)
(* awaited, so that between the end of a session and its removal other     *)
(* calls run.  Of a record's hash, only that it follows its predecessor    *)
(* is kept: the trail is a sequence.                                       *)
(***************************************************************************)

CONSTANTS
    ParserSessions,    \* identifiers that generateId may give
    Options,           \* readings offered in a session
    ParserCalls,       \* resolving and cancelling calls that may be under way
    SessionTtl,
    MaxParserTime,     \* bound on the clock
    NoOption

ASSUME DisambiguationAssumption == SessionTtl \in Nat /\ MaxParserTime \in Nat

VARIABLES
    activeSessions,    \* map: session -> its status and expiry
    auditChain,        \* records of what happened to sessions, in order
    parserCalls,       \* what a call awaits, and for which session and option
    typedIntents,      \* intents made: the session (or none) and the option
    parserClock

parserVars == <<activeSessions, auditChain, parserCalls, typedIntents, parserClock>>

IdleParserCall == [at |-> "idle", session |-> NoOption, option |-> NoOption]

DisambiguationInit ==
    /\ activeSessions = [s \in {} |-> NoOption]
    /\ auditChain = <<>>
    /\ parserCalls = [c \in ParserCalls |-> IdleParserCall]
    /\ typedIntents = <<>>
    /\ parserClock = 0

Recorded(s, event, option) ==
    auditChain' = Append(auditChain, [session |-> s, event |-> event, option |-> option])

SetSession(s, status) == activeSessions' = [activeSessions EXCEPT ![s].status = status]

\* parseWithConfidence, not sure: the session is stored and recorded in one turn.
CreateDisambiguationSession(s) ==
    /\ \A k \in DOMAIN auditChain : auditChain[k].session # s
    /\ activeSessions' = [t \in DOMAIN activeSessions \cup {s} |->
           IF t = s THEN [status |-> "pending", expiresAt |-> parserClock + SessionTtl]
                    ELSE activeSessions[t]]
    /\ Recorded(s, "session_created", NoOption)
    /\ UNCHANGED <<parserCalls, typedIntents, parserClock>>

IsPending(s) == s \in DOMAIN activeSessions /\ activeSessions[s].status = "pending"

\* Mutation. A status is compared after the record was written.
StillListed(s) == s \in DOMAIN activeSessions /\ activeSessions[s].status # "expired"

\* Whether resolveDisambiguation and cancelDisambiguation go on.
IsOpen(s) == IsPending(s)

HasExpired(s) == activeSessions[s].expiresAt < parserClock

\* resolveDisambiguation up to its first await.
Resolve(c, s, option) ==
    /\ parserCalls[c].at = "idle"
    /\ IsOpen(s)
    /\ IF HasExpired(s)
       THEN /\ SetSession(s, "expired")
            /\ Recorded(s, "session_expired", NoOption)
            /\ UNCHANGED parserCalls
       ELSE /\ SetSession(s, "resolved")
            /\ Recorded(s, "option_selected", option)
            /\ parserCalls' = [parserCalls EXCEPT ![c] =
                   [at |-> "resolving", session |-> s, option |-> option]]
    /\ UNCHANGED <<typedIntents, parserClock>>

Forget(s) == activeSessions' = Restrict(activeSessions, DOMAIN activeSessions \ {s})

\* The rest of resolveDisambiguation.  TypedIntentSchema refuses an intent whose
\* user is no uuid: the call throws, and the session stays, resolved.
ResolveReturns(c) ==
    /\ parserCalls[c].at = "resolving"
    /\ \/ /\ typedIntents' = Append(typedIntents,
                 [session |-> parserCalls[c].session, option |-> parserCalls[c].option])
          /\ Forget(parserCalls[c].session)
       \/ UNCHANGED <<typedIntents, activeSessions>>
    /\ parserCalls' = [parserCalls EXCEPT ![c] = IdleParserCall]
    /\ UNCHANGED <<auditChain, parserClock>>

\* cancelDisambiguation up to its await, whether or not the session has expired.
CancelSession(c, s) ==
    /\ parserCalls[c].at = "idle"
    /\ IsOpen(s)
    /\ SetSession(s, "cancelled")
    /\ Recorded(s, "session_cancelled", NoOption)
    /\ parserCalls' = [parserCalls EXCEPT ![c] =
           [at |-> "cancelling", session |-> s, option |-> NoOption]]
    /\ UNCHANGED <<typedIntents, parserClock>>

CancelReturns(c) ==
    /\ parserCalls[c].at = "cancelling"
    /\ Forget(parserCalls[c].session)
    /\ parserCalls' = [parserCalls EXCEPT ![c] = IdleParserCall]
    /\ UNCHANGED <<auditChain, typedIntents, parserClock>>

ParserTick ==
    /\ parserClock < MaxParserTime
    /\ parserClock' = parserClock + 1
    /\ UNCHANGED <<activeSessions, auditChain, parserCalls, typedIntents>>

DisambiguationNext ==
    \/ \E s \in ParserSessions : CreateDisambiguationSession(s)
    \/ \E c \in ParserCalls, s \in DOMAIN activeSessions :
          \/ \E option \in Options : Resolve(c, s, option)
          \/ CancelSession(c, s)
    \/ \E c \in ParserCalls : ResolveReturns(c) \/ CancelReturns(c)
    \/ ParserTick

DisambiguationSpec == DisambiguationInit /\ [][DisambiguationNext]_parserVars

-----------------------------------------------------------------------------
\* Type correctness of the parser's state.
DisambiguationTypeOK ==
    /\ DOMAIN activeSessions \subseteq ParserSessions
    /\ \A s \in DOMAIN activeSessions :
          activeSessions[s].status \in {"pending", "resolved", "expired", "cancelled"}
    /\ \A c \in ParserCalls : parserCalls[c].at \in {"idle", "resolving", "cancelling"}
    /\ parserClock \in 0 .. MaxParserTime

EndsOf(s) == {k \in DOMAIN auditChain :
                 auditChain[k].session = s /\ auditChain[k].event # "session_created"}

\* However the calls of two clients interleave, a session ends once in the audit
\* chain, it makes at most one intent, and that intent is the reading which the
\* chain says the user selected.
SessionEndsOnce ==
    /\ \A s \in ParserSessions : Cardinality(EndsOf(s)) <= 1
    /\ \A i, j \in DOMAIN typedIntents :
          typedIntents[i].session = typedIntents[j].session => i = j
    /\ \A i \in DOMAIN typedIntents : \E k \in EndsOf(typedIntents[i].session) :
          /\ auditChain[k].event = "option_selected"
          /\ auditChain[k].option = typedIntents[i].option

-----------------------------------------------------------------------------
(***************************************************************************)
(* The gateway's validation sandbox: five checks look at an intent, their  *)
(* violations and a weighted score make a verdict, and the verdict is      *)
(* cached for a minute under a key that has only some of the intent's      *)
(* fields.  The checks run in one turn of the event loop, so the timeout   *)
(* that races them never wins.  Scores are in hundredths of the code's.    *)
(***************************************************************************)

CONSTANTS
    SandboxIntents,     \* [key, risk, matches, large, outOfScope, adminCaps, combos,
                        \*  approvalRequired, sideEffect, doubt], see KeyOf
    Patterns,           \* [id, severity]
    SandboxEnvironments,
    CacheMaxSize,
    VerdictTtl,
    MaxSandboxTime,     \* bound on the clock
    NoVerdict

ASSUME SandboxAssumption ==
    /\ CacheMaxSize \in Nat \ {0} /\ VerdictTtl \in Nat /\ MaxSandboxTime \in Nat

VARIABLES
    sandboxReady,       \* initialize has compiled the configured patterns
    compiledPatterns,   \* patterns that static analysis looks for
    shadowMode,
    validationCache,    \* verdicts, in the order in which their keys were first cached
    lastVerdict,        \* the last answer: what was asked, and the verdict given
    sandboxClock

sandboxVars == <<sandboxReady, compiledPatterns, shadowMode, validationCache, lastVerdict,
                 sandboxClock>>

SandboxInit ==
    /\ sandboxReady = FALSE /\ compiledPatterns = {}
    /\ shadowMode = FALSE
    /\ validationCache = <<>>
    /\ lastVerdict = NoVerdict
    /\ sandboxClock = 0

\* The violations that each check finds: which check, and how severe.
StaticAnalysis(i) ==
    {[check |-> p.id, severity |-> p.severity] : p \in compiledPatterns \cap i.matches}
ValidateParameters(i) ==
    IF i.large THEN {[check |-> "parameters", severity |-> "medium"]} ELSE {}
ValidateResourceScope(i) ==
    {[check |-> r, severity |-> "high"] : r \in i.outOfScope}
RunSemanticValidation(i, environment) ==
    IF environment = "production" /\ i.risk = "destructive" /\ ~i.approvalRequired
    THEN {[check |-> "semantic", severity |-> "critical"]} ELSE {}
ValidateCapabilities(i, admin) ==
    {[check |-> c.id, severity |-> c.severity] : c \in i.combos}
        \cup IF i.adminCaps /\ ~admin THEN {[check |-> "admin", severity |-> "high"]} ELSE {}

Violations(i, environment, admin) ==
    StaticAnalysis(i) \cup ValidateParameters(i) \cup ValidateResourceScope(i)
        \cup RunSemanticValidation(i, environment) \cup ValidateCapabilities(i, admin)

Severe(V, severity) == Cardinality({v \in V : v.severity = severity})
AtMost100(n) == IF n > 100 THEN 100 ELSE n

BaseRisk(risk) == CASE risk = "low" -> 10 [] risk = "medium" -> 30
                    [] risk = "high" -> 60 [] risk = "destructive" -> 90
EnvironmentRisk(e) == CASE e = "development" -> 10 [] e = "staging" -> 30
                        [] e = "production" -> 50

\* calculateRiskAssessment over the five factors of analyzeRiskFactors.
RiskScore(i, environment, V) ==
    LET weighted == ( 30 * BaseRisk(i.risk) + 25 * AtMost100(15 * Cardinality(V))
                    + 15 * EnvironmentRisk(environment)
                    + 15 * (IF i.sideEffect THEN 60 ELSE 10) + 15 * i.doubt ) \div 100
    IN AtMost100(weighted + 25 * Severe(V, "critical") + 10 * Severe(V, "high"))

OverallIsDestructive(i, environment, V) ==
    RiskScore(i, environment, V) >= 80 \/ Severe(V, "critical") > 0

IsValid(i, environment, V) ==
    \/ shadowMode
    \/ /\ Severe(V, "critical") = 0
       /\ Severe(V, "high") = 0 \/ ~OverallIsDestructive(i, environment, V)

\* getCacheKey: the intent's identifier, text, action and sensitivity (i.key), the
\* user and the environment, and not its risk, capabilities, parameters, resources
\* and approval, nor the user's roles.
KeyOf(i, environment) == <<i.key, environment>>

\* The places at which the cache holds a verdict on the key, one at most.
Entries(key) == {k \in DOMAIN validationCache : validationCache[k].key = key}

Fresh(key) == {k \in Entries(key) : sandboxClock - validationCache[k].at < VerdictTtl}

\* cacheResult: at the size limit the oldest key goes, be it the one to be cached.
CacheResult(e) ==
    LET room == IF Len(validationCache) >= CacheMaxSize THEN Tail(validationCache)
                ELSE validationCache IN
    validationCache' =
        IF \E k \in DOMAIN room : room[k].key = e.key
        THEN [k \in DOMAIN room |-> IF room[k].key = e.key THEN e ELSE room[k]]
        ELSE Append(room, e)

Validate(i, environment, admin) ==
    LET key == KeyOf(i, environment)
        V == Violations(i, environment, admin)
        new == [key |-> key, at |-> sandboxClock, critical |-> Severe(V, "critical"),
                shadow |-> shadowMode, valid |-> IsValid(i, environment, V)] IN
    /\ \/ \E k \in Fresh(key) :
             /\ lastVerdict' = [verdict |-> validationCache[k], asked |-> key,
                                when |-> sandboxClock]
             /\ UNCHANGED validationCache
       \/ /\ Fresh(key) = {}
          /\ lastVerdict' = [verdict |-> new, asked |-> key, when |-> sandboxClock]
          /\ CacheResult(new)
    /\ UNCHANGED <<sandboxReady, compiledPatterns, shadowMode, sandboxClock>>

\* initialize: until then no pattern is looked for.
InitializeSandbox ==
    /\ ~sandboxReady
    /\ sandboxReady' = TRUE
    /\ \E P \in SUBSET Patterns : compiledPatterns' = compiledPatterns \cup P
    /\ UNCHANGED <<shadowMode, validationCache, lastVerdict, sandboxClock>>

\* updateConfig with other patterns or another mode, addDangerousPattern: none of
\* them clears the cache.
UpdateConfig ==
    /\ \/ \E P \in SUBSET Patterns : compiledPatterns' = P /\ UNCHANGED shadowMode
       \/ shadowMode' = ~shadowMode /\ UNCHANGED compiledPatterns
    /\ UNCHANGED <<sandboxReady, validationCache, lastVerdict, sandboxClock>>

AddDangerousPattern(p) ==
    /\ compiledPatterns' = compiledPatterns \cup {p}
    /\ UNCHANGED <<sandboxReady, shadowMode, validationCache, lastVerdict, sandboxClock>>

ClearCache ==
    /\ validationCache' = <<>>
    /\ UNCHANGED <<sandboxReady, compiledPatterns, shadowMode, lastVerdict, sandboxClock>>

SandboxTick ==
    /\ sandboxClock < MaxSandboxTime
    /\ sandboxClock' = sandboxClock + 1
    /\ UNCHANGED <<sandboxReady, compiledPatterns, shadowMode, validationCache, lastVerdict>>

SandboxNext ==
    \/ \E i \in SandboxIntents, e \in SandboxEnvironments, admin \in BOOLEAN :
          Validate(i, e, admin)
    \/ InitializeSandbox \/ UpdateConfig \/ ClearCache \/ SandboxTick
    \/ \E p \in Patterns : AddDangerousPattern(p)

SandboxSpec == SandboxInit /\ [][SandboxNext]_sandboxVars

-----------------------------------------------------------------------------
\* Type correctness of the sandbox.
SandboxTypeOK ==
    /\ compiledPatterns \subseteq Patterns
    /\ Len(validationCache) <= CacheMaxSize
    /\ \A j, k \in DOMAIN validationCache :
          validationCache[j].key = validationCache[k].key => j = k
    /\ sandboxClock \in 0 .. MaxSandboxTime

\* However patterns, mode and cache change in between, an answer is a verdict on
\* the same key that is less than a minute old, and it was not valid if a critical
\* violation was found and the sandbox was not in shadow mode.
VerdictsAreFresh ==
    lastVerdict # NoVerdict =>
        LET v == lastVerdict.verdict IN
        /\ v.key = lastVerdict.asked
        /\ lastVerdict.when = v.at \/ lastVerdict.when - v.at < VerdictTtl
        /\ v.valid /\ ~v.shadow => v.critical = 0
=============================================================================
