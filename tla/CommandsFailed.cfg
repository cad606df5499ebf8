CONSTANTS
    first = first
    second = second
    nobody = nobody
    Nobody = nobody
    order = order
    cart = cart
    Dispatches = {first}
    Aggregates = {order, cart}
    Locked = {order}
    MaxEvents = 1
    MaxFaults = 0
SPECIFICATION Spec
INVARIANTS
    FailedEmitsNothing
CHECK_DEADLOCK FALSE
