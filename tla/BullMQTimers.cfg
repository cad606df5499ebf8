CONSTANTS
    deadline = deadline
    nightly = nightly
    Keys = {deadline, nightly}
    CronKeys = {nightly}
    MaxAdds = 2
    MaxStops = 1
    MaxFaults = 1
SPECIFICATION QueueSpec
INVARIANTS
    RemovedIsSilent
    NoneIsStranded
PROPERTIES
    SetTimersGoOff
\* The callers may stop setting timers.
CHECK_DEADLOCK FALSE
