CONSTANTS
    g = g
    p1 = p1
    p2 = p2
    Calls <- MCCalls
    NoCall = 0
    Groups = {g}
    Partitions = {p1, p2}
    Plans <- MCPlans
    MaxLog <- MCMaxLog
    MaxFaults = 0
SPECIFICATION Spec
INVARIANTS
    RunningIsHealthy
CHECK_DEADLOCK FALSE
