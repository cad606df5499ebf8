CONSTANTS
    hot = hot
    cold = cold
    placed = placed
    paid = paid
    shipped = shipped
    i1 = i1
    i2 = i2
    deadline = deadline
    Lanes = {hot, cold}
    Stream <- MCStream
    Starts = {placed, shipped}
    Handles = {paid, shipped}
    InstanceIds = {i1, i2}
    Timers = {deadline}
    Crons = {}
    Behaviours <- MCSteadyBehaviours
    StartBehaviours <- MCSteadyStartBehaviours
    MaxFires = 1
    Absent = Absent
    Tasks <- MCTasks
    InstanceOf <- MCInstanceOf
    NoTask = NoTask
    Ok = Ok
SPECIFICATION EngineSpec
INVARIANT ActiveTimerFires
\* The lanes reach the end of their streams, and the system stops.
CHECK_DEADLOCK FALSE
