CONSTANTS
    r1 = r1
    r2 = r2
    r3 = r3
    r4 = r4
    orders = orders
    payments = payments
    Records <- MCRecords
    TopicOf <- MCTopicOf
    BatchSize = 2
    Flushes = {1, 2}
    MaxErrors = 1
SPECIFICATION Spec
INVARIANT NoRecordDiscarded
CHECK_DEADLOCK FALSE
