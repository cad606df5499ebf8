CONSTANTS
    e1 = e1
    e2 = e2
    p1 = p1
    p2 = p2
    Emits <- MCEmits
    EmittedBy <- MCEmittedBy
    Senders = {p1, p2}
    Flushes <- MCFlushes
    ProcessOf <- MCProcessOf
    MaxFailures = 1
SPECIFICATION Spec
INVARIANTS
    NoLoss
PROPERTIES
    ImplementsDelivery
    CommittedIsDelivered
CHECK_DEADLOCK FALSE
