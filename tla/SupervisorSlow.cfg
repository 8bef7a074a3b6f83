CONSTANTS
    Pids = {p1, p2, p3}
    NoPid = NoPid
    WaitDelays = {1}
    SuccessorTimeout = 1
    HandoverMax = 3
    MaxAge = 3
    MaxStrays = 0
SPECIFICATION Spec
INVARIANT SinglePooler
