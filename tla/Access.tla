------------------------------- MODULE Access -------------------------------
(***************************************************************************)
(* One piece of work through the layers of authorisation.  A request meets *)
(* the middleware (crates/api/src/auth/middleware.rs), then the statements *)
(* its handler runs under the policies of crates/api/sql/rls.sql; a        *)
(* background job runs its statements under the grants of invoice_service. *)
(* The rows asked for exist and belong to the caller's business, and a     *)
(* webhook endpoint is live, so that whatever is refused is refused for    *)
(* lack of a scope or a grant.                                             *)
(***************************************************************************)
EXTENDS Permissions, Sequences, Functions

CONSTANT PermissionLists   \* the permission lists of the credentials tried

ASSUME AccessAssumption == PermissionLists \subseteq SUBSET Scopes

VARIABLES
    permissions,
    tier,       \* of the credential; "service" for a background job
    route,      \* the route, or the job
    loosened,   \* whether the middleware lets everything pass
    statements, \* what the handler or the job has left to run
    filtered,   \* whether one of them did not see the rows it asked for
    outcome     \* "none" before the middleware, then "open", then the answer

request == <<permissions, tier, route, loosened>>
vars == <<request, statements, filtered, outcome>>

-----------------------------------------------------------------------------
\* A statement needs policies for some commands on a table.  PostgreSQL checks
\* RETURNING and a WHERE against the SELECT policy too, and FOR UPDATE against
\* the UPDATE policy.  Refused, it sees no row, and an INSERT raises an error:
\* "filtered" goes on without the rows, the others are what the caller gets.
Select(table, refused) == [table |-> table, commands |-> {"select"}, refused |-> refused]
Insert(table) == [table |-> table, commands |-> {"insert"}, refused |-> "500"]
InsertReturning(table) ==
    [table |-> table, commands |-> {"insert", "select"}, refused |-> "500"]
Update(table, refused) ==
    [table |-> table, commands |-> {"update", "select"}, refused |-> refused]

emit == <<Insert("webhook_deliveries")>>

MoveInvoice ==
    <<Select("invoices", "404"), Update("invoices", "409"),
      Select("invoice_line_items", "filtered")>> \o emit

\* The ways through settle(): the charge succeeded and is applied, or is no
\* longer collectible, or was settled elsewhere; it was declined; its outcome
\* is unknown.  A refused update is taken for one that matched no row.
settle(announce) ==
    LET take == <<Update("payment_attempts", "unapplied")>>
        apply == <<Update("invoices", "unapplied")>>
        reload_attempt == <<Select("payment_attempts", "404")>>
        reload_invoice == <<Select("invoices", "404")>>
    IN {take \o apply \o announce \o reload_attempt,
        take \o apply \o reload_invoice \o announce \o reload_attempt,
        take \o reload_invoice \o reload_attempt,
        take \o reload_invoice \o announce,
        reload_attempt \o reload_invoice}

\* The statements of the other handlers on their way to success.
CreateKey == <<InsertReturning("api_keys")>>
ListKeys == <<Select("api_keys", "filtered")>>
RevokeKey == <<Update("api_keys", "404")>>

CreateEndpoint == <<InsertReturning("webhook_endpoints")>>
ListEndpoints == <<Select("webhook_endpoints", "filtered")>>
DisableEndpoint == <<Update("webhook_endpoints", "404")>>
ListDeliveries == <<Select("webhook_deliveries", "filtered")>>

CreateCustomer == <<InsertReturning("customers")>>
ListCustomers == <<Select("customers", "filtered")>>
GetCustomer == <<Select("customers", "404")>>

CreateInvoice ==
    <<Select("customers", "404"), InsertReturning("invoices"),
      Insert("invoice_line_items"), Select("invoice_line_items", "filtered")>> \o emit
ListInvoices == <<Select("invoices", "filtered")>>
GetInvoice ==
    <<Select("invoices", "404"), Select("invoice_line_items", "filtered"),
      Select("payment_attempts", "filtered")>>

\* Phase 1 locks the invoice FOR UPDATE; phase 3 settles and stores the answer.
Pay ==
    {<<InsertReturning("idempotency_keys"), Update("invoices", "404"),
       Insert("payment_attempts")>> \o s \o <<Update("idempotency_keys", "500")>> :
        s \in settle(emit)}

\* The statements a route may run, in order, one sequence for every way on
\* which it is not refused for the state of a row.
Statements(r) ==
    CASE r = "POST /auth/tokens" -> {<<>>}
      [] r = "POST /api_keys" -> {CreateKey}
      [] r = "GET /api_keys" -> {ListKeys}
      [] r = "DELETE /api_keys/{id}" -> {RevokeKey}
      [] r = "POST /webhook_endpoints" -> {CreateEndpoint}
      [] r = "GET /webhook_endpoints" -> {ListEndpoints}
      [] r = "DELETE /webhook_endpoints/{id}" -> {DisableEndpoint}
      [] r = "GET /webhook_deliveries" -> {ListDeliveries}
      [] r = "POST /customers" -> {CreateCustomer}
      [] r = "GET /customers" -> {ListCustomers}
      [] r = "GET /customers/{id}" -> {GetCustomer}
      [] r = "POST /invoices" -> {CreateInvoice}
      [] r = "GET /invoices" -> {ListInvoices}
      [] r = "GET /invoices/{id}" -> {GetInvoice}
      [] r \in {"POST /invoices/{id}/send", "POST /invoices/{id}/void"} -> {MoveInvoice}
      [] r = "POST /invoices/{id}/pay" -> Pay

\* The audience of an event decides how its endpoints are found: a tenant's
\* through a SECURITY DEFINER function, the service's by reading the table.
service_emit == <<Select("webhook_endpoints", "500"), Insert("webhook_deliveries")>>

\* The transactions of the reconciler and of the webhook dispatcher; the
\* latter's claim joins the endpoints for their address and secret.
Jobs ==
    [reconcile |-> {<<Update("payment_attempts", "500")>>} \cup settle(service_emit),
     dispatch |-> {<<Update("webhook_deliveries", "500"), Select("webhook_endpoints", "500")>>,
                   <<Update("webhook_deliveries", "500")>>}]

\* begin_as_tenant: the transaction carries the claims of the credential.
Request ==
    /\ permissions \in PermissionLists
    /\ tier \in {"standard", "critical"}
    /\ route \in Routes
    /\ loosened \in BOOLEAN
    /\ statements \in Statements(route)
    /\ outcome = "none"

\* begin_as_service: the transaction switches its role and carries no claims.
Background ==
    /\ permissions = {}
    /\ tier = "service"
    /\ route \in DOMAIN Jobs
    /\ loosened = FALSE
    /\ statements \in Jobs[route]
    /\ outcome = "open"

Init == (Request \/ Background) /\ filtered = FALSE

\* A refusal is 403, or 400 for a token on the mint route.
Authorize ==
    /\ outcome = "none"
    /\ outcome' = IF loosened \/ authorize(route, permissions, tier) THEN "open" ELSE "refused"
    /\ UNCHANGED <<request, statements, filtered>>

Visible(s) ==
    \A c \in s.commands :
        IF tier = "service"
        THEN c \in ServiceGrants(s.table)
        ELSE Policy(s.table, c, permissions, tier)

\* Without a policy a row is not there; without a grant the statement fails.
Refusal(s) == IF tier = "service" THEN "500" ELSE s.refused

Execute ==
    /\ outcome = "open"
    /\ statements # <<>>
    /\ LET s == Head(statements) IN
       \/ /\ Visible(s)
          /\ statements' = Tail(statements)
          /\ UNCHANGED <<outcome, filtered>>
       \/ /\ ~Visible(s)
          /\ Refusal(s) = "filtered"
          /\ statements' = Tail(statements)
          /\ filtered' = TRUE
          /\ UNCHANGED outcome
       \/ /\ ~Visible(s)
          /\ Refusal(s) # "filtered"
          /\ outcome' = Refusal(s)
          /\ UNCHANGED <<statements, filtered>>
    /\ UNCHANGED request

Commit ==
    /\ outcome = "open"
    /\ statements = <<>>
    /\ outcome' = "served"
    /\ UNCHANGED <<request, statements, filtered>>

Next == Authorize \/ Execute \/ Commit

Spec == Init /\ [][Next]_vars

-----------------------------------------------------------------------------
(* Properties *)

Holds(resource, action) == has_scope(permissions, resource, action)

\* The pre-check and the policies speak the same grammar: for the credential at
\* hand they agree on every pair. (permissions.rs has_scope, rls.sql has_scope)
ScopesAgree ==
    \A r \in Resources, a \in Actions :
        has_scope(permissions, r, a) = sql_has_scope(permissions, r, a)

\* Two routes read a table of another resource first, which takes its read scope.
Underscoped ==
    \/ (route = "POST /invoices" /\ ~Holds("customer", "read"))
    \/ (route = "POST /invoices/{id}/pay" /\ ~Holds("invoice", "read"))

\* What the middleware admits the database serves in full: no statement of any
\* handler fails or loses rows half-way for want of a policy, whatever way the
\* handler takes, and no statement of a background job for want of a grant - a
\* job that settles a charge would fail after the money moved. An underscoped
\* credential gets 404 for the customer, or the invoice, that exists.
AdmittedIsServed ==
    ~loosened /\ outcome \notin {"none", "refused", "open"} =>
        /\ outcome = IF Underscoped THEN "404" ELSE "served"
        /\ ~filtered

\* If the middleware were loosened the policies alone would serve no more than
\* it admits, the critical tier included. There are two exceptions. The mint
\* route runs no statement of a tenant, so that no policy stands behind it. And
\* invoices have an UPDATE policy that also accepts payment:create, so that only
\* the middleware keeps a collector from sending and voiding.
DatabaseBackstop ==
    loosened /\ outcome = "served" /\ ~filtered =>
        \/ authorize(route, permissions, tier)
        \/ route = "POST /auth/tokens"
        \/ /\ route \in {"POST /invoices/{id}/send", "POST /invoices/{id}/void"}
           /\ Holds("payment", "create")

-----------------------------------------------------------------------------
(* The invariant behind them.                                              *)

Statement ==
    [table : Tables, commands : SUBSET Commands,
     refused : {"404", "409", "500", "filtered", "unapplied"}]

TypeOK ==
    /\ \/ /\ permissions \subseteq Scopes
          /\ tier \in {"standard", "critical"}
          /\ route \in Routes
          /\ loosened \in BOOLEAN
       \/ /\ permissions = {}
          /\ tier = "service"
          /\ route \in DOMAIN Jobs
          /\ loosened = FALSE
          /\ outcome \notin {"none", "refused"}
    /\ statements \in Seq(Statement)
    /\ filtered \in BOOLEAN
    /\ outcome \in {"none", "refused", "open", "served", "404", "409", "500", "unapplied"}

Complete(sequence) == \A s \in Range(sequence) : Visible(s)

\* Where an underscoped credential is stopped: at the row of the other resource,
\* which comes first or right after the idempotency key.
AtBlocker(sequence) ==
    LET blocker == IF route = "POST /invoices" THEN Select("customers", "404")
                   ELSE Update("invoices", "404")
    IN sequence # <<>> /\ Head(sequence) = blocker /\ ~Visible(blocker)

Stopped(sequence) ==
    \/ AtBlocker(sequence)
    \/ sequence # <<>> /\ Visible(Head(sequence)) /\ AtBlocker(Tail(sequence))

\* Nothing has run before the middleware decided.
StartsWhole == outcome = "none" => statements \in Statements(route) /\ ~filtered

\* Past the middleware what is left to run is visible to the last statement, or
\* stops where an underscoped credential is stopped.
RunsThrough ==
    ~loosened /\ outcome \notin {"none", "refused"} =>
        /\ ~filtered
        /\ IF Underscoped
           THEN outcome = "404" \/ (outcome = "open" /\ Stopped(statements))
           ELSE outcome \in {"open", "served"} /\ Complete(statements)

\* What has run was visible: of some way of the route every statement was, or is
\* left to run.
NothingSkipped ==
    tier # "service" /\ ~filtered /\ outcome \in {"none", "open", "served"} =>
        \E sequence \in Statements(route) : \A s \in Range(sequence) :
            Visible(s) \/ (outcome # "served" /\ s \in Range(statements))

AccessInv == TypeOK /\ StartsWhole /\ RunsThrough /\ NothingSkipped

=============================================================================
