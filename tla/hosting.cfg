CONSTANTS
    Requests = {r1, r2}
    MaxIntents = 1
    MaxTries = 2
    Legacy = {old}
    Customer = customer
    None = None
SPECIFICATION Spec
SYMMETRY Interchangeable
INVARIANTS
    OnePayable
    RunningIsKnown
    RemovedIsUnbilled
PROPERTIES
    ActiveStaysBound
    NoOlderAnswer
CHECK_DEADLOCK FALSE
