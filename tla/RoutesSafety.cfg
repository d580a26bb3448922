SPECIFICATION RoutesSpec
CONSTANTS
    Workflows = {w1, w2}
    Runs = {r1, r2, r3}
    None = None
    N = 4
    Deps <- FourDeps
    Compensable <- AllSteps
    StepApproval <- LastStep
    PlanApproval = {w1}
    Options <- RouteOpts
    AuditAnswers = {TRUE, FALSE}
    MaxRetries = 0
    MaxCrashes = 1
INVARIANTS
    SingleRun
    NoRedispatch
    CompensatedOnce
PROPERTIES
    FailureIsUndone
    CancelledRunNeverCompletes
    ImplementsSaga
