SPECIFICATION ApartSpec
CONSTANTS
    Requests = {r1, r2}
    Invoices = {i1, i2}
    Keys = {k1, k2}
    Cards = {c1}
    Processors = {alphapay}
    DefaultProcessor = alphapay
    Retired = {}
    Workers = {w1}
    Total <- MCTotal
    MaxReconcile = 1
    BatchLimit = 1
    MaxFaults = 1
    None = None
PROPERTIES
    PendingIsResolved
CHECK_DEADLOCK FALSE
