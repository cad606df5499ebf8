CONSTANTS
    summary = summary
    mailer = mailer
    Views = {summary}
    Adapters = {mailer}
    MaxEvents = 1
    MaxAttempts = 2
    MaxFaults = 1
    MaxCrashes = 1
SPECIFICATION ViewSpec
INVARIANTS
    ConsumedIsHandled
    HandledOnce
PROPERTIES
    SubscriptionsOpen
\* The stream may have been read to its end.
CHECK_DEADLOCK FALSE
