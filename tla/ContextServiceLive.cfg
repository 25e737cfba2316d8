SPECIFICATION Spec
CONSTANTS
    Proc = {c1, c2}
    Nobody = Nobody
    Unasked = Unasked
    Waiting = Waiting
    Declined = Declined
    Blind <- NothingBlind
    MaxWorkers = 2
    MaxChange = 0
    MaxRepair = 1
PROPERTIES
    RequestsEnd
CHECK_DEADLOCK FALSE
