CONSTANTS
    Callers = {c1, c2}
    k1 = k1
    k2 = k2
    Clusters = {k1}
    Databases = {d1, d2}
    Entries = {e1, e2, e3}
    MaxDatabases <- One
    Sweeps = {k1}
    None = None
SPECIFICATION FairSpec
PROPERTIES ShutdownClosesEverything KeepsPromise
