CONSTANTS
    Shops = {s1}
    Numbers = {1}
    Payments = {p1}
    Companies = {c1, c2}
    Managers = {}
    Clicks = {"dismiss"}
    Events = {"lost", "adjust", "void", "connect", "disconnect"}
    MaxAttempts = 2
    MaxRows = 1
    MaxCrashes = 1
    Tick = tick
    None = None
SPECIFICATION LiveSpec
PROPERTIES
    QueueDrains
CHECK_DEADLOCK FALSE
