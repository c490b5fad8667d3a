SPECIFICATION FairSpec

CONSTANTS
    Calls   = {c1, c2}
    Warmers = {w1}
    Pools   = {p1, p2}

INVARIANTS
    ClosedWhenQuiet GraceIsGiven

PROPERTIES
    SignalEnds

CHECK_DEADLOCK FALSE
