CONSTANTS
    Threads = {t1, t2}
    NoThread = NoThread
    Names = {"a", "b", "**"}
    Replies = {"r1", "r2"}
    Covers <- CoversTable
    Handlers = {"p", "q", "x", "f", "s", "r"}
    Does <- HandlerTable
    Programs <- CallSets
    MaxCalls = 3
    MaxSize = 1
    Timed = TRUE
SPECIFICATION QueueFairSpec
INVARIANTS TopicsWired SubscribersNotified RequestsAnswered
PROPERTY CallsReturn
CHECK_DEADLOCK FALSE
