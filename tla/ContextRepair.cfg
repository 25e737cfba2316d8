SPECIFICATION Spec
CONSTANTS
    p1 = p1
    p2 = p2
    o1 = o1
    o2 = o2
    None = None
    Absent = Absent
    Proc = {p1, p2}
    Op = {o1, o2}
    Span = {1, 2}
    Selected <- SecondSelectsLess
    Relocated <- SomeRelocated
    EditWindow = FALSE
    AtomicDowngrade = TRUE
    MaxEdit = 1
    MaxSrc = 1
    MaxCrash = 1
    MaxTimeout = 0
SYMMETRY ProcSymmetry
INVARIANTS
    TypeOK
    MutationIsAlone
    WriteAhead
    MarkerNamesPrepared
    ReadersSeeSettled
    RollbackComplete
PROPERTIES
    ExternalEditSurvives
    OperationAppliedOnce
    ReadsStable
    ImplementsAtomicRepair
