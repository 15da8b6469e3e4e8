CONSTANTS
    Calls = {c1, c2}
    Kinds = {"ok", "fails", "failsSilently", "missing"}
    Workers = 2
    MaxRetries = 1
    MaxStops = 0
SPECIFICATION RpcSpec
SYMMETRY CallSymmetry
INVARIANT ResultsJustified
CHECK_DEADLOCK FALSE
