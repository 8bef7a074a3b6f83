CONSTANTS
    Pids = {p1, p2}
    NoPid = NoPid
    WaitDelays = {0, 1}
    SuccessorTimeout = 0
    HandoverMax = 0
    MaxAge = 2
    Configs = {1, 2, 3, 4, 5}
    Parsable = {1, 2, 4, 5}
    Fixed <- MCFixed
    Accepted = {1, 2, 3, 5}
    NoConfig = NoConfig
    MaxUpgrades = 2
    Republish = FALSE
    Overlap = FALSE
SPECIFICATION FairSpec
INVARIANTS TypeOK RuntimeAccepted
PROPERTIES Delivered GaugeSettles
