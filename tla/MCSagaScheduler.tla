-------------------------- MODULE MCSagaScheduler ---------------------------
EXTENDS SagaScheduler

CONSTANTS t1, t2, t3, t4, s1, s2

\* Three calls for one instance, the smallest number in which a call can arrive
\* between the other two settling, and one for another instance.
MCTasks == {t1, t2, t3, t4}
MCInstanceOf == [t \in MCTasks |-> IF t = t4 THEN s2 ELSE s1]
=============================================================================
