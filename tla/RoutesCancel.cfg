SPECIFICATION RoutesSpec
CONSTANTS
    Workflows = {w1}
    Runs = {r1, r2}
    None = None
    N = 2
    Deps <- TwoDeps
    Compensable <- AllSteps
    StepApproval <- NoSteps
    PlanApproval = {}
    Options <- RouteOpts
    AuditAnswers = {TRUE}
    MaxRetries = 1
    MaxCrashes = 0
PROPERTY CancelSticks
