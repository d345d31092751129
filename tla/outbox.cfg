SPECIFICATION FairSpec
CONSTANTS
    Events = {e1}
    Endpoints = {p1, p2}
    Dispatchers = {d1, d2}
    BatchSize = 2
    MaxAttempts = 4
    MaxFaults = 2
    None = None
INVARIANTS
    TypeOK
    OneHolder
    AttemptsAreReal
    RetriesFollowSchedule
PROPERTIES
    ImplementsRow
    DisabledIsLeftAlone
    QueuedIsSettled
CHECK_DEADLOCK FALSE
