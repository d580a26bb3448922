SPECIFICATION FairCliSpec
CONSTANTS
    Workflows = {w1}
    Runs = {r1, r2}
    None = None
    N = 2
    Deps <- TwoDeps
    Compensable <- AllSteps
    StepApproval <- LastStep
    PlanApproval = {w1}
    Options <- RouteOpts
    AuditAnswers = {TRUE, FALSE}
    MaxRetries = 1
    MaxCrashes = 1
    MaxCommands = 2
INVARIANT CommandsAreSafe
PROPERTY RunsEnd
