CONSTANTS
    Calls = {c1}
    Kinds = {"ok", "fails", "missing"}
    Workers = 2
    MaxRetries = 1
    MaxStops = 1
SPECIFICATION RpcFairSpec
INVARIANT WorkerExitsClean
PROPERTIES StopReleasesServe RetriesEnd
CHECK_DEADLOCK FALSE
