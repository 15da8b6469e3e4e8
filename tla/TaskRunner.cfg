CONSTANTS
    handler = handler
    logfire = logfire
    Callers = {c1, c2, s1}
    Slots = {s1}
    Asks = {"block", "timed", "try", "tryTimed"}
    MaxInstances = 2
    Observers <- MeterAndHandler
    Fragile = {handler}
    Spans = {logfire}
SPECIFICATION FairSpec
INVARIANTS ConcurrencyLimit LifecycleOrder SpansClosed
PROPERTY CallsEnd
CHECK_DEADLOCK FALSE
