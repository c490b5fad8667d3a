SPECIFICATION Spec

CONSTANTS
    Launchers = {l1, l2, l3}
    Versions  = {v1, v2, v3}
    None = None

SYMMETRY Symmetry

INVARIANTS
    OneVersionLeft OnlyAnUpdateBreaksAStart
