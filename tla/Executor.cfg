CONSTANTS
    Tasks = {t1, t2, x}
    Unknown = {x}
    Bodies = {"completed", "failed", "exit"}
    MaxWorkers = 2
    MaxStops = 1
SPECIFICATION FairSpec
INVARIANTS NoLeakedPool OneTable ResultAgrees
PROPERTY AcceptedTasksEnd
CHECK_DEADLOCK FALSE
