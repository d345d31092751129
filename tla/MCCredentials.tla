--------------------------- MODULE MCCredentials ---------------------------
(* Credentials with two businesses, one key each, and room for two more.   *)
EXTENDS Credentials, TLC

CONSTANTS a, b, sa, sb

\* Business a has a full key, b one that can only manage keys.
MCSeed == (sa :> [business |-> a, permissions |-> {<<"*", "*">>}])
          @@ (sb :> [business |-> b, permissions |-> {<<"api_key", "*">>}])

\* All, a wildcard that is the sum of the actions, and a half of it with more.
MCPermissionLists ==
    {{<<"*", "*">>}, {<<"api_key", "*">>}, {<<"api_key", "create">>, <<"invoice", "read">>}}

MCSymmetry ==
    Permutations(KeyIds \ Seeds) \cup Permutations(TokenIds) \cup Permutations(Requests)
=============================================================================
