SPECIFICATION NamedSpec
CONSTANTS
    Requests = {r1, r2}
    Invoices = {i1}
    Keys = {k1, k2}
    Cards = {c1}
    Processors = {alphapay, betapay}
    DefaultProcessor = alphapay
    Retired = {betapay}
    Workers = {w1, w2}
    Total <- MCTotal
    MaxReconcile = 1
    BatchLimit = 2
    MaxFaults = 1
    None = None
SYMMETRY MCSymmetry
INVARIANTS
    VerdictsAreTrue
    EventsMatchAttempts
    PaymentInv
PROPERTIES
    SettledIsFinal
    ImplementsLifecycle
CHECK_DEADLOCK FALSE
