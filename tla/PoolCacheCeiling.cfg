\* Two calls in two databases of a cluster that allows one.
CONSTANTS
    Callers = {c1, c2}
    k1 = k1
    k2 = k2
    Clusters = {k1}
    Databases = {d1, d2}
    Entries = {e1, e2}
    MaxDatabases <- One
    Sweeps = {}
    None = None
SPECIFICATION Spec
INVARIANTS InUseWithinLimit
