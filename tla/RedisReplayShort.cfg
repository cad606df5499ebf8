CONSTANTS
    k1 = k1
    k2 = k2
    views = views
    Calls <- MCCalls
    Groups <- MCGroups
    Clients <- MCClients
    Plans <- MCPlans
    BatchSize <- MCBatchSize
    Parallel = 2
    MaxLen <- MCMaxLen
    Radix = 10
    MaxEntries <- MCMaxEntries
    MaxFaults = 0
SPECIFICATION Spec
INVARIANTS
    DoneIsComplete
CHECK_DEADLOCK FALSE
