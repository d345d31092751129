SPECIFICATION FairSpec
CONSTANTS
    Events = {e1}
    Endpoints = {p1}
    Dispatchers = {d1}
    BatchSize = 1
    MaxAttempts = 2
    MaxFaults = 1
    None = None
PROPERTIES
    NeverDropped
CHECK_DEADLOCK FALSE
