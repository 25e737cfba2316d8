INIT Init
NEXT Next
CONSTANTS
    Proc = {c1}
    Nobody = Nobody
    Unasked = Unasked
    Waiting = Waiting
    Declined = Declined
    Blind <- NothingBlind
    MaxWorkers = 1
    MaxChange = 3
    MaxRepair = 0
INVARIANTS
    TypeOK
    TrustedGeneration
    CoverageComplete
PROPERTIES
    AnswersAreFresh
CHECK_DEADLOCK FALSE
