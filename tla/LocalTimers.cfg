CONSTANTS
    deadline = deadline
    nightly = nightly
    Keys = {deadline, nightly}
    CronKeys = {nightly}
    LateReads = FALSE
    MaxAdds = 3
    MaxStops = 2
SPECIFICATION Spec
INVARIANTS
    LiveIsHandled
    AskedIsArmed
PROPERTIES
    AskedFires
\* The callers may stop setting timers.
CHECK_DEADLOCK FALSE
