CONSTANTS
    Names = {a}
    NoName = NoName
    Off = Off
    NoCluster = NoCluster
    NoCR = NoCR
    NoSecret = NoSecret
    Versions = {1, 2}
    Specs <- PlainSpecs
    Valid = {1, 2}
    SecretNames = {"auth", "own"}
    Generated = "auth"
    NoRef = NoRef
    NoAuth = NoAuth
    Passwords <- MCPasswords
    NoPassword = NoPassword
    Initial = a
    Puts = {}
    MaxEvents = 5
    Overlap = FALSE
SPECIFICATION Spec
INVARIANTS ObservedIsRendered
CHECK_DEADLOCK FALSE
