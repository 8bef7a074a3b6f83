CONSTANTS
    Pids = {p1, p2, p3}
    NoPid = NoPid
    WaitDelays = {1}
    SuccessorTimeout = 0
    HandoverMax = 1
    MaxAge = 2
    MaxUpgrades = 1
    Overlap = TRUE
SPECIFICATION FairSpec
PROPERTY DemotionDropsSessions
