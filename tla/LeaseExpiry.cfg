SPECIFICATION Spec

CONSTANTS
    Modes        = {"write"}
    Statements   = {"write"}
    MaxScript    = 3
    QueryTimeout = 1
    Margin       = 1

INVARIANTS
    ExpiryIsEvidence

CHECK_DEADLOCK FALSE
