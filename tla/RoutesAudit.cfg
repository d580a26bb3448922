SPECIFICATION FairRoutesSpec
CONSTANTS
    Workflows = {w1}
    Runs = {r1, r2}
    None = None
    N = 2
    Deps <- TwoDeps
    Compensable <- AllSteps
    StepApproval <- NoSteps
    PlanApproval = {w1}
    Options <- RouteOpts
    AuditAnswers = {FALSE}
    MaxRetries = 1
    MaxCrashes = 0
PROPERTY ApprovalTakesEffect
