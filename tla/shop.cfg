CONSTANTS
    Senders = {s1, s2, s3}
    Automatic = auto
    MaxPresses = 4
    MaxCrashes = 2
    Records = {i1}
    Last = 5
    Waits = {2, 5}
    Ids = {1, 2, 3}
    MaxRuns = 2
    RulePresses = 2
    RuleCrashes = 1
    Specs = {1, 2}
    TaskKinds <- MCTaskKinds
    Workflows <- MCWorkflows
    MaxVersion = 2
    MaxEdits = 1
    Requests = {1, 2, 3}
    None = none
    NoPlan = noplan
SPECIFICATION PartsSpec
INVARIANTS
    OncePerStep
    SentOnce
    ArtIsCurrent
    PagesShowArt
    RequestOnce
    PlanOnce
PROPERTIES
    ReviewedIsSilent
    SequencesEnd
    DeliveriesEnd
CHECK_DEADLOCK FALSE
