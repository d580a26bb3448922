SPECIFICATION AutomationSpec
CONSTANTS
    Tasks = {t1}
    Keys = {k1}
    Callers = {q1, q2}
    Workers = {w1}
    MaxTries = 1
    MaxAborts = 0
INVARIANT ReviewGateHolds
CHECK_DEADLOCK FALSE
