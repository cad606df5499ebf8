CONSTANTS
    first = first
    second = second
    nobody = nobody
    Nobody = nobody
    order = order
    cart = cart
    Dispatches = {first, second}
    Aggregates = {order, cart}
    Locked = {order}
    MaxEvents = 2
    MaxFaults = 1
SPECIFICATION Spec
INVARIANTS
    EmittedIsStored
    CheckpointIsReplay
PROPERTIES
    HistoryOnlyGrows
    StoredIsEmitted
\* All dispatches may have ended.
CHECK_DEADLOCK FALSE
