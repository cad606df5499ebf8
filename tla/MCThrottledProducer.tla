------------------------ MODULE MCThrottledProducer -------------------------
EXTENDS ThrottledProducer

CONSTANTS r1, r2, r3, r4, orders, payments

\* Two records of a batch, and a queue longer than one batch behind it.
MCRecords == {r1, r2, r3, r4}
MCTopicOf == [r \in MCRecords |-> IF r = r4 THEN payments ELSE orders]
=============================================================================
