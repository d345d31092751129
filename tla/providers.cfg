SPECIFICATION Spec
CONSTANTS
    References = {a1, a2}
    Calls = {c1, c2, c3}
    Cards = {"tok_success", "tok_insufficient_funds", "tok_card_declined", "tok_network_error"}
    MaxRestarts = 1
    None = None
SYMMETRY MCSymmetry
INVARIANTS
    TypeOK
    OnlyForgettingRecharges
    DeclinesKeepTheirCode
PROPERTIES
    ImplementsContract
CHECK_DEADLOCK FALSE
