SPECIFICATION ReliableSpec
CONSTANTS
    Plans = {risky}
    NeedApproval = {risky}
    Presses = {c1}
    NoPlan = NoPlan
    MaxCrashes = 0
PROPERTY ApprovedIsExecuted
CHECK_DEADLOCK FALSE
