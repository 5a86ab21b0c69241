SPECIFICATION MCSpec
CONSTANTS
    v1 = v1  v2 = v2  v3 = v3  x1 = x1  x2 = x2  s1 = s1  s2 = s2
    None = None  NoRow = NoRow
    Parts = {"rows", "store", "power"}
    Procs = {x1, x2}  Refs = {s1, s2}  Calls = {"init", "store", "resolve", "delete"}
    MaxKeys = 2  MaxFaults = 2
    Rows = {v1, v2, v3}
SYMMETRY VersionSymmetry
INVARIANTS
    TypeOK
    UsableHasMaterial
    FalsePurgedOnlyByLateWriter
    MaterialKept
PROPERTIES
    ActiveLostOnlyByRevoke
    StaleForever
