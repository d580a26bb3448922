SPECIFICATION Spec
CONSTANTS
    Workflows = {w1}
    Runs = {r1, r2}
    None = None
    N = 3
    Deps <- DanglingDeps
    Compensable <- AllSteps
    StepApproval <- SecondStep
    PlanApproval = {w1}
    Options <- AllOptions
    MaxRetries = 1
    MaxCrashes = 1
INVARIANTS
    TypeOK
    StackMatchesCompleted
    LoggedBeforeCheckpointed
    RunningHasRun
    DependenciesRecorded
