CONSTANTS
    Messages = {m1}
    Topics <- JobsTopics
    Served <- JobsServed
    DeadLetterOf <- JobsDeadLetterOf
    Groups = {g}
    Pull = pull
    Consumers = {c1}
    Waiters = {w1}
    MaxSize = 0
    MaxRetries = 2
    MayClose = TRUE
SPECIFICATION FairSpec
INVARIANT NoLostWakeup
PROPERTIES EventuallySettled CloseUnblocksDequeue
CHECK_DEADLOCK FALSE
