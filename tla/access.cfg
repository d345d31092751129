SPECIFICATION Spec
CONSTANT PermissionLists <- MCPermissionLists
INVARIANTS
    ScopesAgree
    AdmittedIsServed
    DatabaseBackstop
CHECK_DEADLOCK FALSE
