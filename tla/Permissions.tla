---------------------------- MODULE Permissions ----------------------------
(***************************************************************************)
(* The permission grammar and its two enforcements: the route table and    *)
(* has_scope of crates/api/src/auth/permissions.rs, and has_scope and the  *)
(* row-level-security policies of crates/api/sql/rls.sql.  A scope         *)
(* "resource:action" is the pair of its halves, a permission list the set  *)
(* of its scopes: grants are additive and their order never matters.       *)
(***************************************************************************)
EXTENDS Integers, FiniteSets

Resources == {"customer", "invoice", "payment", "webhook", "api_key"}
Mutating == {"create", "update", "delete"}
Actions == {"read"} \cup Mutating

Scopes == (Resources \cup {"*"}) \X (Actions \cup {"*"})

\* Mutant of has_scope: only the exact resource implies read, not "*:create".
has_scope_narrow(permissions, resource, action) ==
    LET candidates == ({resource, "*"} \X {action, "*"})
                      \cup (IF action = "read" THEN {resource} \X Mutating ELSE {})
    IN permissions \cap candidates # {}

\* The pre-check of the middleware; a mutating action implies read.
has_scope(permissions, resource, action) ==
    LET candidates == ({resource, "*"} \X {action, "*"})
                      \cup (IF action = "read" THEN {resource, "*"} \X Mutating ELSE {})
    IN permissions \cap candidates # {}

\* has_scope(res, act) of rls.sql, on the permissions of the request's claims.
sql_has_scope(permissions, res, act) ==
    permissions \cap
        (IF act = "read"
         THEN {<<res, "read">>, <<res, "create">>, <<res, "update">>, <<res, "delete">>,
               <<res, "*">>, <<"*", "read">>, <<"*", "create">>, <<"*", "update">>,
               <<"*", "delete">>, <<"*", "*">>}
         ELSE {<<res, act>>, <<res, "*">>, <<"*", act>>, <<"*", "*">>}) # {}

validate_permissions(permissions) == permissions # {} /\ permissions \subseteq Scopes

expand(scope) ==
    {pair \in Resources \X Actions : scope[1] \in {pair[1], "*"} /\ scope[2] \in {pair[2], "*"}}

\* Mutant of is_subset_of: one held pair is enough for a wildcard scope.
is_subset_of_some(requested, held) ==
    \A scope \in requested :
        \E pair \in expand(scope) : has_scope(held, pair[1], pair[2])

\* What a credential may hand on: scopes that name something, all of it held.
is_subset_of(requested, held) ==
    \A scope \in requested :
        /\ expand(scope) # {}
        /\ \A pair \in expand(scope) : has_scope(held, pair[1], pair[2])

-----------------------------------------------------------------------------
(* The route table and the middleware's decision *)

Route(resource, action, critical) ==
    [resource |-> resource, action |-> action, critical |-> critical, api_key_only |-> FALSE]

\* No scope of its own: "none" stands for Access::AnyCredential.
MintRoute ==
    [resource |-> "none", action |-> "none", critical |-> FALSE, api_key_only |-> TRUE]

ROUTE_SCOPES ==
    [r \in {"POST /auth/tokens", "POST /api_keys", "DELETE /api_keys/{id}", "GET /api_keys",
            "POST /webhook_endpoints", "DELETE /webhook_endpoints/{id}",
            "GET /webhook_endpoints", "GET /webhook_deliveries",
            "POST /customers", "GET /customers", "GET /customers/{id}",
            "POST /invoices", "GET /invoices", "GET /invoices/{id}",
            "POST /invoices/{id}/send", "POST /invoices/{id}/void",
            "POST /invoices/{id}/pay"} |->
        CASE r = "POST /auth/tokens" -> MintRoute
          [] r = "POST /api_keys" -> Route("api_key", "create", TRUE)
          [] r = "DELETE /api_keys/{id}" -> Route("api_key", "delete", TRUE)
          [] r = "GET /api_keys" -> Route("api_key", "read", FALSE)
          [] r = "POST /webhook_endpoints" -> Route("webhook", "create", TRUE)
          [] r = "DELETE /webhook_endpoints/{id}" -> Route("webhook", "delete", TRUE)
          [] r \in {"GET /webhook_endpoints", "GET /webhook_deliveries"}
                -> Route("webhook", "read", FALSE)
          [] r = "POST /customers" -> Route("customer", "create", FALSE)
          [] r \in {"GET /customers", "GET /customers/{id}"} -> Route("customer", "read", FALSE)
          [] r = "POST /invoices" -> Route("invoice", "create", FALSE)
          [] r \in {"GET /invoices", "GET /invoices/{id}"} -> Route("invoice", "read", FALSE)
          [] r \in {"POST /invoices/{id}/send", "POST /invoices/{id}/void"}
                -> Route("invoice", "update", FALSE)
          [] r = "POST /invoices/{id}/pay" -> Route("payment", "create", FALSE)]

Routes == DOMAIN ROUTE_SCOPES

\* The tier of an API key is "standard", of a minted token "critical".
authorize(r, permissions, tier) ==
    LET route == ROUTE_SCOPES[r] IN
    /\ route.critical => tier = "critical"
    /\ route.api_key_only => tier # "critical"
    /\ route.resource = "none" \/ has_scope(permissions, route.resource, route.action)

-----------------------------------------------------------------------------
(* The row-level-security policies for invoice_app: what each command on a *)
(* table of the caller's own business needs.                               *)

Tables == {"customers", "invoices", "invoice_line_items", "payment_attempts",
           "idempotency_keys", "webhook_endpoints", "webhook_deliveries", "api_keys"}

Commands == {"select", "insert", "update"}

\* A table has the policies of one resource, or its own.
ResourceOf(table) ==
    CASE table = "customers" -> "customer"
      [] table \in {"invoices", "invoice_line_items", "payment_attempts"} -> "invoice"
      [] table \in {"webhook_endpoints", "webhook_deliveries"} -> "webhook"
      [] OTHER -> "api_key"

ActionOf(command) ==
    CASE command = "select" -> "read"
      [] command = "insert" -> "create"
      [] command = "update" -> "update"

\* The scopes of which one is needed; none is needed for idempotency_keys.
PolicyScopes(table, command) ==
    CASE table = "payment_attempts" /\ command = "select"
            -> {<<"invoice", "read">>, <<"payment", "read">>}
      [] table = "payment_attempts" /\ command = "insert" -> {<<"payment", "create">>}
      [] table = "payment_attempts" /\ command = "update"
            -> {<<"payment", "create">>, <<"payment", "update">>}
      [] table = "invoices" /\ command = "update"
            -> {<<"invoice", "update">>, <<"payment", "create">>}
      [] table = "webhook_deliveries" /\ command = "insert"
            -> {<<"invoice", "create">>, <<"invoice", "update">>, <<"payment", "create">>}
      [] table = "webhook_deliveries" /\ command = "update" -> {}
      [] table \in {"webhook_endpoints", "api_keys"} /\ command = "update"
            -> {<<ResourceOf(table), "delete">>}
      [] OTHER -> {<<ResourceOf(table), ActionOf(command)>>}

NeedsCritical(table, command) ==
    table \in {"webhook_endpoints", "api_keys"} /\ command # "select"

\* Mutant of Policy: the factory's update policy is kept for the invoices, so
\* that settling a payment needs invoice:update.
Policy_factory(table, command, permissions, tier) ==
    \/ table = "idempotency_keys"
    \/ /\ NeedsCritical(table, command) => tier = "critical"
       /\ \E s \in PolicyScopes(table, command) :
             /\ table = "invoices" => s[1] = "invoice"
             /\ sql_has_scope(permissions, s[1], s[2])

\* Mutant of Policy: the tier is left to the middleware.
Policy_anyTier(table, command, permissions, tier) ==
    \/ table = "idempotency_keys"
    \/ \E s \in PolicyScopes(table, command) : sql_has_scope(permissions, s[1], s[2])

Policy(table, command, permissions, tier) ==
    \/ table = "idempotency_keys"
    \/ /\ NeedsCritical(table, command) => tier = "critical"
       /\ \E s \in PolicyScopes(table, command) : sql_has_scope(permissions, s[1], s[2])

-----------------------------------------------------------------------------
(* The background role.  Its policies let every row pass, so that what it   *)
(* may do is what it was granted.                                           *)

ServiceGrants(table) ==
    CASE table \in {"payment_attempts", "invoices"} -> {"select", "update"}
      [] table = "webhook_deliveries" -> Commands
      [] table = "webhook_endpoints" -> {"select"}
      [] OTHER -> {}

=============================================================================
