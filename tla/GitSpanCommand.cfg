SPECIFICATION Spec
CONSTANTS
    MaxBytes = 2
    MaxWritten = 4
INVARIANTS
    TypeOK
    NothingLeftBehind
    WholeOrFlagged
    KeptIsPrefix
PROPERTIES
    ImplementsOneShot
CHECK_DEADLOCK FALSE
