SPECIFICATION Spec
CONSTANTS
    p1 = p1
    p2 = p2
    o1 = o1
    o2 = o2
    None = None
    Absent = Absent
    Proc = {p1, p2}
    Op = {o1}
    Span = {1, 2}
    Selected <- BothSelectAll
    Relocated <- SomeRelocated
    EditWindow = TRUE
    AtomicDowngrade = TRUE
    MaxEdit = 1
    MaxSrc = 2
    MaxCrash = 2
    MaxTimeout = 0
SYMMETRY ProcSymmetry
INVARIANTS
    CommittedIsComplete
    NoTornRead
