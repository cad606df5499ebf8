CONSTANTS
    k1 = k1
    k2 = k2
    views = views
    Calls <- MCCalls
    Groups <- MCGroups
    Clients <- MCClients
    Plans <- MCPlans
    BatchSize <- MCBatchSize
    Parallel = 2
    MaxLen <- MCMaxLen
    Radix = 2
    MaxEntries <- MCMaxEntries
    MaxFaults = 1
SPECIFICATION Spec
INVARIANTS
    PassedIsHandledOrPending
    HotOnce
    ReplayLeavesOutNothing
    OnePollerPerGroup
PROPERTIES
    EntriesAreHandled
CHECK_DEADLOCK FALSE
