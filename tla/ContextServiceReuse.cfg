SPECIFICATION Spec
CONSTANTS
    Proc = {c1, c2}
    Nobody = Nobody
    Unasked = Unasked
    Waiting = Waiting
    Declined = Declined
    Blind <- AllBlind
    MaxWorkers = 1
    MaxChange = 2
    MaxRepair = 0
PROPERTIES
    ReuseResumes
CHECK_DEADLOCK FALSE
