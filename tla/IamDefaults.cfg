SPECIFICATION AnalysisSpec
CONSTANTS
    N = 3
    Unknown = {0}
    Resources = {"r1", "r2", "r3"}
    PlanLength = 3
    Weights <- StepWeights
    Assets = {"a", "b", "c", "d"}
    Prefixed <- AssetPrefix
    Sample <- KnownAssets
    Metadata <- AssetMetadata
    Default <- UnknownAsset
    MaxDepth = 3
    MaxRegistered = 3
    PlanSteps <- CheckedSteps
    NoCompensation = NoCompensation
    MaxPlanSteps = 2
    MaxRules = 1
    ScorerUsers = {"u", "unknown"}
    Roles <- RoleSets
    Times = {30}
    Scored <- ScoredThings
    MaxHistory = 2
    HistoryWindow = 1
    Recent = 1
    TrustAfter = 1
    DoubtAfter = 1
    RapidAfter = 2
    MaxScorings = 3
    MaxScorerTime = 1
    ShadowResources = {"x", "y"}
    Scenarios <- ChangedPlans
    ShadowCalls = {c1}
    ShadowConfig <- ShadowSettings
    MaxRollbacks = 2
    SimulatedPlans <- PlansToSimulate
    MaxSimulations = 1
    AttackedPlans <- PlansToAttack
    FailureScenarios <- InjectedKinds
    LlmSteps <- AnsweredSteps
    GivenSteps <- VersionSteps
    MaxVersions = 3
    Delegates = {"a", "b", "c"}
    DelegationFlows = {"f", "g"}
    DelegationRequests <- TokenRequests
    MaxDelegations = 3
    MaxDelegationTime = 3
    Holders = {"h1"}
    ScopeLists <- GrantedScopes
    AskedFor <- AskedResources
    Contexts <- AskedContexts
    ExtraRules <- TwoExtraRules
    DefaultIamRules <- FourDefaultRules
    RemovableIds = {"deny-high-risk-prod", "extra"}
    Matches <- ScopeMatches
    MaxExtra = 2
    MaxIamRules = 10
    LocalDomain = "local"
    RemoteDomains = {"d1", "d2"}
    Bundles <- TrustBundles
    FederationOptions <- TrustOptions
    MaxTimers = 3
    Agents = {"a1"}
    AgentRoles = {"planner", "auditor"}
    TrustLevels = {"intern", "senior"}
    SentCapabilities <- CallersCapabilities
    RegistryCalls = {"c1", "c2"}
    MaxRotations = 3
    Providers <- VotingProviders
    VoteActions = {"delete", "query"}
    VoteRisks = {"low", "destructive"}
    Confidences = {0, 5, 9}
    Strategies = {"majority", "weighted_average"}
    MinModels = 2
    GateDefaults <- DefaultThresholds
    GateUpdates <- ThresholdUpdates
    GateIntents <- GatedIntents
    GateIds = {"i1"}
    MaxRejections = 1
    MaxGateSteps = 2
    Metrics <- RecordedMetrics
    Unmeasured = Unmeasured
    TelemetryWindow = 1
    MaxMetricsStored = 2
    MaxSnapshots = 2
    MaxRecorded = 3
    MaxTelemetryTime = 2
    MaxIntervals = 2
    Documents <- ScannedDocuments
    DlpConfigs <- FilterConfigs
    AddablePatterns <- OwnPatterns
    Schemas <- DocumentSchemas
    MaxStringLength = 6
    MaxScanDepth = 1
    MaskWidth = 2
    TokenWidth = 1
    MaxScans = 1
    MaxAdded = 1
    Prompts <- GuardedPrompts
    Outputs <- GuardedOutputs
    GuardSettings <- GuardedBy
    Costs = {0, 11}
    GuardMinute = 1
    MaxGuardTime = 2
    MaxGuardCalls = 2
    RuleTables <- PolicyTables
    JudgedIntents <- TrueWords
    MaxResolutions = 5
    VaultWorkflows = {"w1", "w2", "w9"}
    WorkflowsOnFile = {"w1", "w2"}
    Lifetimes = {0, 1}
    MaxIssued = 2
    MaxVaultTime = 2
    MaxProcesses = 2
    Spawned = {"a", "b", "c"}
    NoParent = "none"
    MaxRegistrations = 4
    DbProcesses = {"server", "cli"}
    LastVersion = 3
    MaxDeaths = 2
INVARIANT HighRiskIsDenied
CHECK_DEADLOCK FALSE
