SPECIFICATION PlatformSpec
CONSTANTS
    MaxRuns = 2
    Steps = 3
    ApprovalSteps = {2}
    Undoable = {1, 2}
    Large = TRUE
    Executions = {x1, x2}
    LockTimeout = 2
    RecordTtl = 2
    MaxAttempts = 1
    FailureThreshold = 2
    ResetTimeout = 1
    Tasks = {t1, t2}
    Keys = {k1}
    Callers = {q1, q2}
    Workers = {w1, w2}
    MaxTries = 2
    MaxAborts = 1
    Sessions = {s1, s2}
    MemoryKeys = {k1}
    MemoryTtls = {0, 1}
    MaxWrites = 2
    MaxMemoryTime = 2
    GuardCalls = {g1, g2}
    Levels = {"low", "high"}
    Impacts = {0, 15, 25}
    RiskThreshold = 75
    ReApprovalDelta = 20
    BreakerThreshold = 2
    BreakerReset = 1
    Identities = {i1}
    Plans = {risky, harmless}
    NeedApproval = {risky}
    Presses = {c1, c2}
    NoPlan = NoPlan
    MaxCrashes = 1
    Definitions <- AdapterDefinitions
    Defaults <- DefaultAdapters
    BuiltIn <- OwnTools
    RegistryProcesses = {server, command}
    MaxRegistrations = 1
    MaxRegistryFaults = 1
INVARIANTS
    PlatformTypeOK
    ApprovalIsFresh
    CompletedIsReal
    StoresAreRight
PROPERTIES
    NothingStartsAfterRejection
    TemporalImplementsSaga
    TimedRunEnds
    ExecutionReturns
    ReadsAreCurrent
    CircuitRecovers
    ChoresAreDone
CHECK_DEADLOCK FALSE
