INIT Init
NEXT Next
CONSTANTS
    Proc = {c1, c2}
    Nobody = Nobody
    Unasked = Unasked
    Waiting = Waiting
    Declined = Declined
    Blind <- NothingBlind
    MaxWorkers = 2
    MaxChange = 1
    MaxRepair = 1
PROPERTIES
    ImplementsFreshAnswers
SYMMETRY Interchangeable
CHECK_DEADLOCK FALSE
