SPECIFICATION Spec
CONSTANTS
    Requests = {r1, r2}
    Invoices = {i1}
    Keys = {k1, k2}
    Cards = {c1}
    Processors = {alphapay}
    DefaultProcessor = alphapay
    Retired = {}
    Workers = {w1}
    Total <- MCTotal
    MaxReconcile = 1
    BatchLimit = 2
    MaxFaults = 0
    None = None
INVARIANTS
    VoidMeansNoMoneyMoved
CHECK_DEADLOCK FALSE
