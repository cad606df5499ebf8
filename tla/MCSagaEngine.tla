---------------------------- MODULE MCSagaEngine ----------------------------
EXTENDS SagaEngine

CONSTANTS hot, cold, placed, paid, shipped, i1, i2, deadline

\* Two lanes, so that starts, steps and the timer overlap; two events that start an
\* instance (placed only starts, shipped also steps), so that two instances can exist.
MCStream == [l \in {hot, cold} |-> IF l = hot THEN <<placed, paid>> ELSE <<shipped>>]

B(throws, add, remove, end) == [throws |-> throws, add |-> add, remove |-> remove, end |-> end]

\* Fail, (re)arm the timer, arm it and end, or disarm it and end keeping the record.
MCBehaviours == {B(TRUE, {}, {}, "no"),
                 B(FALSE, {deadline}, {}, "no"),
                 B(FALSE, {deadline}, {}, "delete"),
                 B(FALSE, {}, {deadline}, "preserve")}
MCStartBehaviours == {B(TRUE, {}, {}, "no"), B(FALSE, {deadline}, {}, "no")}

\* Without failing handlers: what is lost then is not lost to an error.
MCSteadyBehaviours == {B(FALSE, {}, {}, "no")}
MCSteadyStartBehaviours == {B(FALSE, {deadline}, {}, "no")}

MCTasks == Calls
MCInstanceOf == [c \in Calls |-> c.inst]

ASSUME ParametersAssumption == Parameters
=============================================================================
