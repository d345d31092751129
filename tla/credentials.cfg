SPECIFICATION Spec
CONSTANTS
    a = a
    b = b
    sa = sa
    sb = sb
    Businesses = {a, b}
    KeyIds = {sa, sb, k1, k2}
    TokenIds = {t1, t2}
    Requests = {q1, q2}
    Called = {"POST /auth/tokens", "POST /api_keys", "DELETE /api_keys/{id}"}
    Seeds = {sa, sb}
    Seed <- MCSeed
    PermissionLists <- MCPermissionLists
    None = None
SYMMETRY MCSymmetry
INVARIANTS
    TypeOK
    NoEscalation
    CredentialInv
PROPERTIES
    KeysChangeByToken
    RevocationIsFinal
CHECK_DEADLOCK FALSE
