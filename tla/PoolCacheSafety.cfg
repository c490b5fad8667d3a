CONSTANTS
    Callers = {c1, c2}
    k1 = k1
    k2 = k2
    Clusters = {k1, k2}
    Databases = {d1, d2, d3}
    Entries = {e1, e2, e3, e4}
    MaxDatabases <- OneAndTwo
    Sweeps = {k1}
    None = None
SPECIFICATION Spec
SYMMETRY Symmetry
INVARIANTS TypeOK HeldIsOpen CacheAgrees ClosedOnce NothingLeaks WithinLimit
PROPERTIES EvictsForRoomOnly EvictsTheLeastUseful
