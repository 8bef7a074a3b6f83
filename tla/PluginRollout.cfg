CONSTANTS
    PluginName = "doorman"
    Unset = Unset
    Bad = Bad
    None = None
    NoImage = NoImage
    Replicas = {r1, r2}
    Pods = {p1}
    Archs = {"amd64", "arm64"}
    Releases = {1, 2, 3}
    Release <- MCRelease
    ImageBin <- MCImageBin
    Usable = {1, 2, 3}
    Clusters <- MCClusters
    Unchecked <- MCUnchecked
    Down = Down
    NoLeader = NoLeader
    NoSecret = NoSecret
    NoService = NoService
    NoPod = NoPod
    NoBinary = NoBinary
    NoDigest = NoDigest
    Nothing = Nothing
    MaxEvents = 2
SPECIFICATION FairSpec
INVARIANTS TypeOK AdmittedAsAsked PortsFree OfOneRelease
PROPERTIES InPlaceKeepsPods RolloutSettles
CHECK_DEADLOCK FALSE
