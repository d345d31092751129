SPECIFICATION FairSpec
CONSTANTS
    MaxI64 = 31
    MAX_AMOUNT_CENTS = 10
    MaxLines = 2
    Err = Err
    Ids = {1, 2, 3}
    Lines <- MCLines
    PastDue = {1, 2}
    Filters <- MCFilters
    Limits = {0, 9, None}
    DEFAULT_LIMIT = 1
    MAX_LIMIT = 2
    MaxClock = 2
    Drafts <- MCDrafts
    None = None
INVARIANTS
    TypeOK
    ListedOnce
    ChecksHold
    CollectibleMeansOwed
    TotalsAreExact
PROPERTIES
    ListEnds
CHECK_DEADLOCK FALSE
