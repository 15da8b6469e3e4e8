CONSTANTS
    Messages = {m1, m2}
    Topics <- JobsTopics
    Served <- JobsServed
    DeadLetterOf <- JobsDeadLetterOf
    Groups = {g}
    Pull = pull
    Consumers = {c1, c2}
    Waiters = {}
    MaxSize = 1
    MaxRetries = 2
    MayClose = TRUE
SPECIFICATION Spec
SYMMETRY Symmetry
INVARIANTS DispatchOwed RetriesBounded ReaperWatches
PROPERTY KeepsPromise
CHECK_DEADLOCK FALSE
