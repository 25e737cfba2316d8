SPECIFICATION FairSpec
CONSTANTS
    p1 = p1
    p2 = p2
    o1 = o1
    o2 = o2
    None = None
    Absent = Absent
    Proc = {p1, p2}
    Op = {o1}
    Span = {1, 2}
    Selected <- BothSelectAll
    Relocated <- SomeRelocated
    EditWindow = FALSE
    AtomicDowngrade = FALSE
    MaxEdit = 0
    MaxSrc = 1
    MaxCrash = 1
    MaxTimeout = 1
PROPERTIES
    PendingSettles
