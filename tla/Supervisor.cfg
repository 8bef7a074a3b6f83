CONSTANTS
    Pids = {p1, p2, p3}
    NoPid = NoPid
    WaitDelays = {1, 2}
    SuccessorTimeout = 1
    HandoverMax = 2
    MaxAge = 4
    MaxStrays = 1
SPECIFICATION FairSpec
INVARIANTS TypeOK SinglePooler DrainedUnlessHandover
PROPERTIES ImplementsContract Recovers Stops
