SPECIFICATION Spec
CONSTANTS
    Requests = {r1, r2, r3}
    Invoices = {i1}
    Keys = {k1, k2}
    Cards = {c1}
    Processors = {alphapay}
    DefaultProcessor = alphapay
    Retired = {}
    Workers = {w1}
    Total <- MCTotal
    MaxReconcile = 1
    BatchLimit = 2
    MaxFaults = 0
    None = None
SYMMETRY MCSymmetry
INVARIANTS
    TypeOK
    ChargedOnce
    MoneyMatchesAttempts
    KeySpentOnOneAttempt
    AnswersAreTrue
CHECK_DEADLOCK FALSE
