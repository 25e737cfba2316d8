SPECIFICATION Spec
CONSTANTS
    a1 = a1
    a2 = a2
    Anchor = {a1, a2}
    SpanFile = SpanFile
    HEAD = HEAD
    Unreadable = Unreadable
    None = None
    FirstNames <- AnchorsFirst
    FirstText <- Recorded
    FirstCommits <- CommittedFirst
    MaxEdit = 2
INVARIANTS
    TypeOK
    SettledViewIsCurrent
    CleanPreviewIsRecorded
    OnlyNewestRuns
PROPERTIES
    DisposalIsFinal
    ViewNeverGoesBack
    SessionSettles
CHECK_DEADLOCK FALSE
