CONSTANTS
    Pids = {p1, p2}
    NoPid = NoPid
    WaitDelays = {0}
    SuccessorTimeout = 0
    HandoverMax = 0
    MaxAge = 1
    Configs = {1, 2}
    Parsable = {1, 2}
    Fixed <- MCFixed
    Bins = {1, 2}
    NoSpec = NoSpec
    BadSpec = BadSpec
    NoDigest = NoDigest
    NilSpec = NilSpec
    ImageBin = 1
    Accepts <- MCAccepts
    MaxMounts = 3
SPECIFICATION FairSpec
INVARIANTS TypeOK TestedPair AppliedIsInstalled RunsInstalled
PROPERTIES SwapBetweenHandovers BinarySettles
