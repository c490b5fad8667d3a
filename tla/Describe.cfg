SPECIFICATION Spec

CONSTANTS
    n1 = n1
    n2 = n2
    Names = {n1, n2}
    Oids  = {o1, o2, o3}
    Asked <- Calls
    Present = {"r", "v", "p", "f", "i", "S"}
    MaxPartitions = 1
    MaxTables     = 2
    MaxParts      = 2
    MaxChanges    = 2
    None = None

SYMMETRY Symmetry

INVARIANTS
    TypeOK OneRelation WholeWhenUndisturbed

CHECK_DEADLOCK FALSE
