CONSTANTS
    Names = {a, b}
    NoName = NoName
    Off = Off
    NoCluster = NoCluster
    NoCR = NoCR
    NoSecret = NoSecret
    Versions = {1, 2, 3}
    Specs <- MCSpecs
    Valid = {1, 2, 3}
    SecretNames = {"auth", "own"}
    Generated = "auth"
    NoRef = NoRef
    NoAuth = NoAuth
    Passwords <- MCPasswords
    NoPassword = NoPassword
    Initial = a
    Puts <- MCPuts
    MaxEvents = 2
    Overlap = FALSE
SPECIFICATION FairSpec
INVARIANTS TypeOK NothingForgotten StatusTrue
PROPERTIES AdminPasswordStable RenderedInTheEnd DeletionCompletes CleanupCompletes
CHECK_DEADLOCK FALSE
