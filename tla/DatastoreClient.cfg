CONSTANTS
    a = a
    b = b
    c = c
    d = d
    orders = orders
    e1 = e1
    e2 = e2
    e3 = e3
    hot1 = hot1
    cross = cross
    sagas = sagas
    Events = {a, b, c, d}
    Streams = {orders}
    Emits = {e1, e2, e3}
    Batch <- MCBatch
    StreamOf <- MCStreamOf
    IdOf <- MCIdOf
    Hots = {hot1}
    Crosses = {cross}
    Sources <- MCSources
    GroupOf <- MCGroupOf
    MaxFailures = 1
    NoId = NoId
    None = None
SPECIFICATION Spec
INVARIANTS
    NoWakeUpIsLost
PROPERTIES
    ImplementsOrderedDelivery
    PublishedIsTaken
\* Every emit ends, and the system stops.
CHECK_DEADLOCK FALSE
