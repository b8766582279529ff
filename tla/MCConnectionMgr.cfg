CONSTANTS
    Fd = {f1, f2, f3, f4}
    Gid = {g1, g2, g3, g4}
    pool_capacity = 2
    Absent = Absent
SPECIFICATION Spec
SYMMETRY Symmetry
INVARIANTS
    LookupSound
    NoResidue
PROPERTIES
    PointersStable
    ImplementsTable
