CONSTANTS
    t1 = t1
    t2 = t2
    t3 = t3
    t4 = t4
    s1 = s1
    s2 = s2
    NoTask = NoTask
    Ok = Ok
    Tasks <- MCTasks
    InstanceOf <- MCInstanceOf
SPECIFICATION Spec
INVARIANT EveryTaskRuns
\* Every call settles, and then there is nothing left to do.
CHECK_DEADLOCK FALSE
