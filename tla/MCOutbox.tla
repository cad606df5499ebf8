------------------------------ MODULE MCOutbox ------------------------------
EXTENDS Outbox

CONSTANTS e1, e2, p1, p2

MCEmits == {e1, e2}
MCEmittedBy == [e \in MCEmits |-> p1]
MCFlushes == {1, 2, 3}

\* Two invocations share the flag of one process; the second process only
\* flushes.
MCProcessOf == [f \in MCFlushes |-> IF f = 3 THEN p2 ELSE p1]
=============================================================================
