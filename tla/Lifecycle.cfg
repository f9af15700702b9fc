SPECIFICATION Spec
CONSTANTS
    Procs = {p1, p2}
    Nobody = Nobody
SYMMETRY ProcSymmetry
INVARIANTS
    SegmentsRemoved
    ReleasedExactly
    OwnNames
PROPERTY
    SecondInstance
