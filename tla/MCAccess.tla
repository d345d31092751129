------------------------------ MODULE MCAccess ------------------------------
(* Access for every list of at most two scopes.                            *)
EXTENDS Access

MCPermissionLists == {{s, t} : s, t \in Scopes}
=============================================================================
