SPECIFICATION Spec

CONSTANTS
    Top          = Top
    Groups       = {"connection", "databases", "timeouts"}
    Fields       <- MCFields
    SecretFields <- MCSecretFields
    Required     <- MCRequired
    Texts        = {"", "h", "x", "s", "prefer", "require", "postgres", "true", "false", "30s", "0s", "9999999999999s"}
    Empty        = ""
    Unfit        <- MCUnfit
    Invalid      <- MCInvalid
    Defaults     <- MCDefaults
    Servers      = {s1}
    Inits        = {i1}
    Paths        = {"named", "xdg"}
    XdgPath      = "xdg"
    NoPath       = NoPath
    Locations    <- MCLocations
    Environs     <- MCEnvirons
    Documents    <- MCDocuments
    NoDocument   = NoDocument
    Minimal      <- MCMinimal
    Absent       = Absent
    Directory    = Directory
    Unreadable   = Unreadable
    Malformed    = Malformed
    Torn         = Torn
    Requests     <- MCRequests
    MaxEdits     = 1

PROPERTIES
    InitKeepsFiles
