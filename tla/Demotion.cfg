CONSTANTS
    Pids = {p1, p2, p3}
    NoPid = NoPid
    WaitDelays = {1, 2}
    SuccessorTimeout = 0
    HandoverMax = 1
    MaxAge = 3
    MaxUpgrades = 2
    Overlap = FALSE
SPECIFICATION FairSpec
INVARIANTS TypeOK DrainsOnceDemoted
PROPERTY DemotionDropsSessions
