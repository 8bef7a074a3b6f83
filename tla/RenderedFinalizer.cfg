CONSTANTS
    Names = {a}
    NoName = NoName
    Off = Off
    NoCluster = NoCluster
    NoCR = NoCR
    NoSecret = NoSecret
    Versions = {1}
    Specs <- PlainSpecs
    Valid = {1}
    SecretNames = {"auth", "own"}
    Generated = "auth"
    NoRef = NoRef
    NoAuth = NoAuth
    Passwords <- MCPasswords
    NoPassword = NoPassword
    Initial = a
    Puts = {}
    MaxEvents = 3
    Overlap = TRUE
SPECIFICATION Spec
PROPERTIES InUseProtected
CHECK_DEADLOCK FALSE
