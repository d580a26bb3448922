SPECIFICATION ServicesSpec
CONSTANTS
    Agents = {a, b}
    MaxTokens = 2
    Ttls = {1}
    RefreshTtl = 2
    Retention = 2
    MaxTime = 4
    Requests = {r1, r2}
    Requesters = {a}
    Approvers = {v1, v2}
    MaxPendingPerAgent = 1
    MinApprovals = {1, 2}
    Calls = {c1, c2}
    EffectiveLimit = 2
    Window = 1
    BudgetLimit = 1
    MaxUsage = 1
    MaxProxyTime = 3
    Evaluations = {e1, e2}
    CacheTtl = 2
    OpaTimeout = 1
    MaxVersions = 3
    MaxPolicyTime = 6
    NoEntry = NoEntry
    MaxEvents = 4
    BatchSize = 2
    MaxPartialWrites = 1
    PipelineCalls = {c1, c2}
    Texts = {t1}
    Environments = {"development", "production"}
    Interpretations <- PipelineReadings
    PlanAnswers <- PipelinePlans
    RecordAnswers = {TRUE, FALSE}
    MaxIntents = 2
    MaxPlans = 1
    Nothing = Nothing
    ParserSessions = {s1, s2}
    Options = {o1, o2}
    ParserCalls = {c1, c2}
    SessionTtl = 1
    MaxParserTime = 3
    NoOption = NoOption
    Contents = {a, b}
    MaxHistory = 4
    SpiffeIds = {i1}
    BuiltInRoles = {admin}
    CustomRoles = {role}
    MaxRbacTime = 2
    MaxBindings = 2
    SandboxIntents <- SandboxIntentsMC
    Patterns <- SandboxPatterns
    SandboxEnvironments = {"development", "production"}
    CacheMaxSize = 2
    VerdictTtl = 1
    MaxSandboxTime = 2
    NoVerdict = NoVerdict
    RecordedWorkflows = {w1, w2}
    Prompts = {p1}
    Responses = {a, b}
    NoHash = NoHash
    SentHashes <- CallersHashes
    MaxArtifacts = 3
    MaxSequence = 2
    PromptTtl = 0
    MaxReplayTime = 1
    LedgerEvents <- ThreeEvents
    MaxEntries = 2
    RetentionTime = 1
    MaxIndexed = 4
    MaxIndexTime = 2
    BuildIds = {b1, b2}
    StopCalls = {c1}
    NoBuild = NoBuild
    MaxUpdates = 2
    PollLoops = {l1, l2}
    MaxBotCrashes = 1
    ZapierCalls = {c1, c2}
    Burst = 1
    RateWindow = 2
    OpenAfter = 2
    OpenFor = 1
    AbortAfter = 2
    StepTimeout = 1
    MaxZapierTime = 4
    MaxZapierCalls = 2
INVARIANTS
    ServicesTypeOK
    CredentialsHold
    OverrunIsBounded
    DecisionsHold
    NothingRunsAgainstPolicy
    GatewayRemembersRight
    RecordsAreComplete
    OutsideIsServed
PROPERTIES
    RequestsSettle
CHECK_DEADLOCK FALSE
