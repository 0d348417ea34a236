CONSTANTS
    Shops = {s1, s2}
    Numbers = {1}
    Payments = {p1}
    Companies = {c1}
    Managers = {m1}
    Clicks = {"sync", "retry", "requeue"}
    Events = {"delete"}
    MaxAttempts = 2
    MaxRows = 2
    MaxCrashes = 0
    Tick = tick
    None = None
SPECIFICATION Spec
SYMMETRY Interchangeable
INVARIANTS
    OnePush
    OneDocument
PROPERTIES
    OkIsOwn
CHECK_DEADLOCK FALSE
